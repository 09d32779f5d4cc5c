# ForgeRT in TLA+

ForgeRT is a small C++/CUDA inference runtime: a graph of operators is built in
code or imported from an `.fgx` file, optionally optimized, and executed on the
CPU or, node by node, on whichever of CPU and CUDA a cost model prefers.
Weights can be *frozen*, and the scheduler then keeps their device copies
between runs. This directory models that core, model-checks it on small
instances with TLC and proves part of it for every instance with TLAPS.

Paths are relative to the repository root; `scheduler.cpp` etc. are under
`src/scheduler/`, headers under `include/forgert/`.

## 1. Inventory

| Component | State | Operations | Talks to |
|---|---|---|---|
| Tensor (`tensor/tensor.h`, `src/tensor/tensor.cpp`) | buffer, owning or not; device; `id_`; freeze generation; the shared counter of `nextId()` | construct, wrap memory, `data()`/`zero`/`fill`/`copyTo`, `freeze`, `unfreeze`, move, destroy | MemoryStats (every allocation and copy) |
| MemoryStats (`memory/memory_stats.h`) | process-wide byte counters | record, `reset` | read by the scheduler before each run |
| Device weight cache (`scheduler/weight_cache.h`) | entries by tensor id, resident bytes, budget, verify flag, counters | `acquire`, `isResident`, `canAdmit`, `retainOnly`, `clear`, `setBudgetBytes`, `setVerifyContent` | tensors (identity, freeze epoch, bytes) |
| Scheduling policy (`scheduler/scheduler.h`) | none | `decide` | cost table, device context |
| ScheduledGraph (`scheduler.cpp`) | graph reference, VRAM budget, cost table, cache, cache switch, last schedule | `execute`, `computeSchedule`, setters, `releaseDeviceWeights` | all of the above, operators |
| Graph (`graph/graph.h`) | nodes, inputs, outputs, next value id, shapes, data types | `addInput`, `addNode`, `markOutput`, `validate`, `execute`, `getExecutionOrder` | operators (shape inference, execution) |
| GraphOptimizer (`graph/optimizer.*`) | none | `optimize` | reads one graph, builds another |
| Operators (`operator/*.h`) | parameters | `inferOutputShapes`, `supportsBackend`, `execute`, `clone` | kernels |
| CUDA kernels and launchers (`cuda/kernels/`) | device memory, shared memory of a block, the stream | six launchers, eleven kernels | operators |
| CUDA memory and transfers (`cuda/`) | device memory | allocation, copies | tensors |
| FGX reader (`import/fgx.h`, `src/import/fgx_reader.cpp`) | the cursor in a section; the model read so far | `parse`, `readFile` | files of the converter |
| Importer (`import/importer.h`, `src/import/importer.cpp`) | the graph, value ids by name, int64 constants, frozen weights | `load`, `fromFgx`, `graphInputs`, `run` | reader, operators, Graph, tensors |
| FGX encoder (`tools/onnx_to_fgx.py`) | none | `convert_model`, `encode` | writes what the reader reads |
| Tools, apps, benchmarks | files | conversion, calibration, measurement | the runtime's public API |

The host side is single-threaded (`memory_stats.h:16` says so of MemoryStats, and
nothing in the library starts a thread); the kernels are not. What is hard about it:

* **stale state.** A tensor's identity outlives nothing but its buffer: it is
  moved, destroyed, rebuilt at the same address, unfrozen, rewritten and frozen
  again between runs, and a device copy must never be served for other bytes.
* **decide now, act later.** The cost model asks `canAdmit()` while a node is
  placed; `acquire()` decides when the input is transferred, after other
  inputs went through the cache. Pointers obtained from `acquire()` are held
  while it is called again.
* **partial failure.** Every allocation, upload, kernel and copy can throw in
  the middle of a run or of `acquire()`; the counters must still be right and
  the next run correct.
* **resources at a limit.** Two budgets, one for cached weights and one for
  VRAM, each checked against a running count kept in `size_t`.
* **order.** Kahn's algorithm on a stack, nodes reading one value several
  times, inputs added after nodes, a backward liveness walk, renumbered ids.
* **threads of a block.** Shared arrays are reused by consecutive reductions and
  tiles, kept apart by barriers that every thread must reach; the host goes on
  while launches it queued still use its temporaries.
* **left-over sizes.** Rows, tiles, warps and grids that a size does not fill;
  one operator written twice, for each backend, in different index arithmetic.
* **numbers from a file.** Lengths, counts and dimensions are compared with
  differences and products of unsigned numbers; nothing read may be believed
  before it is bounded, and nothing rejected that the converter writes.

What makes each component correct:

* tensors: no two variables hold one id; ids and freeze epochs are never drawn
  twice; a frozen buffer is owned;
* cache: what it would serve is the tensor's present contents; resident bytes
  are those of its entries; nothing is admitted above the budget; the counters
  balance;
* scheduled runs: results are those of the graph whatever was cached or failed
  before; operators find their inputs on their own device; device bytes are
  accounted for; copies of dead weights leave VRAM; weights that a decision
  counted on the cache to serve are served; warm runs upload nothing
  and are placed like cold ones; calls end;
* graphs: the execution order is topological and complete; execution yields
  the denotation of the outputs; optimization keeps exactly the needed nodes
  and the meaning of every output;
* operators and kernels: a call that returns has computed the operator's
  meaning, on either backend; threads never race; temporaries live as long as
  launches use them and no longer; calls end;
* loading: the reader stays within the file and its sections and accepts just
  what the encoder could have written; a well-formed model of supported
  operators is loaded; the graph computes what the file's names say, with the
  right weights, in the shapes the file declares.

## 2. Modules

    HostTensors ── WeightCache ──┐
         └─ FreshCopies (abstract)├─ ScheduledGraph ── MCScheduledGraph
    MemoryStats, SchedulingPolicy ┘
    GraphRecords ─┬─ Graph ── GraphOptimizer ── MCGraph
                  └────────────────────────┐
    OperatorShapes ── FgxFormat ── FgxReader ── Importer ── MCImporter
                  └─ TensorMath ── CpuKernels ── CudaKernels ── CudaDevice ── MCOperators
    WeightCacheProofs (WeightCache),  ScheduledGraphProofs (ScheduledGraph),
    CudaDeviceProofs (CudaDevice),  GraphProofs (Graph),
    OptimizerProofs (GraphOptimizer),  ReaderProofs (Importer, for FgxReader)
    ImporterProofs (ReaderProofs)           └─ Repetition (induction for the reader's loops)

`HostTensors` models `Tensor`. A *slot* is one C++ variable; what it holds is
one record (id, generation, ownership, device, size, contents), so that a move
carries identity with the buffer as the code does. A moved-from, destroyed or
unbuilt variable holds `NoTensor`. `Construct` covers the owning constructor,
`Wrap` the non-owning one, `Write` every checked mutation, `WriteBehind` what
bypasses the checks: the owner of wrapped memory, and, only if `Escapes`, a raw
pointer taken before `freeze()`. `ConstructElsewhere` is a tensor built outside
the slots, and equally a constructor that throws: both spend an id.

`WeightCache` models `DeviceWeightCache`: `acquire()` by its five outcomes
(`AcquireNotCacheable`, `AcquireHit`, `AcquireOverBudget`, `AcquireUpload`,
`AcquireThrows`), each the whole call with the erasure of a stale entry, the
counters and the ids drawn by the device tensor and its `freeze()`. Data type
and shape belong to an id, so only sizes are compared. `hashBytes()` is a
function of the contents given by the instance.

`FreshCopies` is what the cache promises: `acquire()` answers `nullptr`, throws,
or hands out the contents the tensor has now. `WeightCache!FreshAnswers` states
that the cache implements it (the cache's state is hidden, `answer` is what the
last call handed out).

`MemoryStats` and `SchedulingPolicy` are functions: the CUDA allocation counter
with its clamp at zero, and `decide()` with both costs multiplied by
`bandwidth * speedup`, which turns the doubles into integers and leaves the
comparison as it is.

`ScheduledGraph` composes them. `execute()` is cut at every point that can
throw; `pc` says where it is:

| `pc` | code | actions |
|---|---|---|
| `idle` | between calls | `Begin`, `BeginRejected`, the caller's actions |
| `decide` | `scheduler.cpp:344-421` | `Place` |
| `transfer`, `transient` | `426-439`, `181-195` | `TakeCached`, `CacheRefuses`, `CacheThrows`, `EnsureDevice`, `EnsureThrows` |
| `alloc` | `441-451` | `AllocOutput`, `AllocThrows` |
| `run` | `453-460` | `RunNode`, `RunThrows` |
| `collect` | `465-489` | `MoveOutput`, `CopyOutput`, `CopyThrows`, `Return` |

A throwing step unwinds: the run's tensors are freed, the cache and
`last_schedule_` stay. `storage` maps value ids to references (the caller's
tensor, one the run owns, a cached copy), as `value_storage` maps them to
pointers. Between runs the caller writes, freezes, unfreezes, moves, destroys
and rebuilds tensors, changes both budgets, the transfer bandwidth, verify mode and the
cache switch, releases the cached weights, and resets MemoryStats. Argument lists of a
wrong length or with a size that is not declared are refused (`BeginRejected`). The graph is a constant in
execution order. A computed tensor's contents are a term, the operator applied
to the contents of what it read, so that a result tells exactly what it was
computed from. The history variables `reset`, `promised`, `before`, `repeat` and
`settled` say what the properties need of earlier steps and runs; no guard reads them.

`GraphRecords` has graph construction as functions of a graph record
(`WithInput`, `WithNode`, `WithOutput`), used by the build actions of `Graph`, by the
optimizer and by the importer, with shape inference as a parameter. `Graph`
models `computeExecutionOrder()` one pass of its loop at a time, with the
queue used from its end as in the code; `execute()` node by node. A build call
that throws has changed nothing and is no step. All public calls begin with the
same sort, so the model sorts first and lets the caller's call be settled when
the sort ends. `GraphOptimizer` continues from there: the backward walk one
node per step, then the rebuild one input and one node per step. Exceptions the code raises
for a cycle, an input not computed or an id not mapped lead to `thrown`.

`OperatorShapes` is `inferOutputShapes()` of the eleven operators (seven of which
an imported graph is made of), in `size_t` arithmetic that wraps at `Wide`.

`TensorMath` says what each operator means, element by element, by positions
rather than flat indices; it is the reference and models no code. Tensors hold
integers. A quotient is kept as a pair of numerator and denominator, `expf` is
a growing positive function given by the instance, and the mean and the variance
of LayerNorm are scaled by the row's length so that they are integers; the square
root and `epsilon` do not distinguish rows and are left out. `CpuKernels` is
`executeCPU()` of every operator: a loop nest is the set of its iterations,
each an index and the value stored there.

`CudaKernels` describes the kernels: `Grid`, `Blocks`, `Threads` of a launch, and
for every thread its *segments*, the pieces of its code between barriers. A
segment reads first (`Reads`), computes (`Value`, `Register`) and stores last
(`Writes`), which is how every kernel is written. `matmul_kernel` and
`tiled_sgemm` differ in what they load and share the rest. In the softmax
kernels a "thread" is a warp, whose lanes run in step on the target (`sm_61`) and
exchange registers by shuffles; `WarpReduced` is the shuffle tree. `layernorm_kernel` has
`2 * (Levels + 2) + 1` segments: a store of the thread's sum, `Levels` steps of
the tree and the broadcast, for each of its two reductions, then the output.

`CudaDevice` is one call of `Operator::execute()`. `Refuse` and `ExecuteOnCpu` are the
host alone. On CUDA the host goes through `Steps(call)`, the launcher's `cudaMalloc`s,
launches, `cudaDeviceSynchronize` and `cudaFree`s: `Allocate`, `Enqueue`,
`Synchronized`, `Deallocate`; `StepFails` is any of them reporting an error, `CleanUp` the
error path of that step, `TooManyDims` a refusal of its own. Meanwhile the device takes
the queued launches in order: `Begin`, `BeginBlock`, per thread `ReadStep` and
`StoreStep`, `Barrier`, `EndBlock`, `End`. `touched` keeps every access that no barrier has put
behind, a history that no guard reads. Blocks of a launch run one after the
other in any order: an interleaving of them could be told apart only by a race
across blocks, and `touched` keeps the accesses to device memory until the
launch ends, so that `RaceFree` excludes those too.

`FgxFormat` and `FgxReader` treat a file as a sequence of *cells*: one cell is one
field of the format whatever its width (a byte, a u32, a u64, a character, a
hash, an element of a tensor), so that byte counts become cell counts and
`elemSize()` becomes 1. The minimum entry sizes are counted in cells by the same
rule as the constants of `fgx_reader.cpp:70-74`. `Wide` stands for 2^64,
`MaxDim` for `kMaxDim` which is `INT_MAX` as well, and `FormatAssumption` keeps of the
real numbers that `MaxDim` (`MaxDim` + 1) is at most `Wide` and 3 `MaxDim` less. `FgxFormat` is
the converter: `Convertible` are the models that `convert_model()` returns, being those that
none of its checks raises for, and `Encode` is `encode()`. `FgxReader` is `parse()`: `Cursor` with every bounds
check, one reading operator per function of the source, which passes the
cursor on (`ok` is FALSE once a check failed), and three actions: the header, one
section, `validateGraph()`. A little-endian host is assumed.

`Importer` continues with `fromFgx()`: one action per list of the model (inputs,
initializers, nodes, outputs), one step per entry, each refused as the code
refuses it, then `validate()`; and `run()`, which assembles the arguments and
returns what the outputs denote, as `Graph!ResultsDenoted` established of
`execute()`. `Words` says which names spell which operator or attribute.
Exceptions lead to `rejected` in the reader and `refused` in the importer.

## 3. What is checked

| Run | Question | Instance |
|---|---|---|
| `cache_frozen` | `TypeOK`, `CacheInv`, `Coherent`, refinement of `FreshCopies` while tensors are built, wrapped, frozen, moved, destroyed | 2 tensors, 2 contents, 2 sizes, budget for one large or two small |
| `cache_budget` | `ResidentExact`, `AdmissionWithinBudget` while the budget changes and uploads fail | 2 tensors, 2 sizes, budgets 2 and 3 |
| `cache_verify` | `FreshAnswers` with writes that escape the checks, verify mode on | 2 tensors, both devices |
| `graph_runs` | `ResultsCorrect`, `InputsInPlace`, `CudaAccounted`, `OnlyLiveWeights`, `PromisesKept`, and `RunsEnd` under fairness, with a fault possible at every allocation, copy and operator | a layer of 3 nodes, 2 runs, 3 caller steps between them |
| `graph_repeat` | `PlacementStableIfRoom`, `RepeatUploadsNothing`, `GraphTypeOK` over several runs of one graph | a weight shared by two nodes, 3 runs, 2 caller steps, no faults, budgets tight and just ample, two bandwidths, calls with an argument too few |
| `graph_optimize` | sort, execution and optimization of every small graph: `GraphTypeOK`, `SortInv`, `OrderTopological`, `NeverThrown`, `ResultsDenoted`, `LiveIsReaching`, `RebuiltEquivalent`, `RebuiltHasNoDeadNode` | all graphs of at most 2 inputs, 3 nodes, 2 outputs |
| `model_load` | `TypeOK`, `InBounds`, `ParsedIsWritten`, `InitsComplete`, `WrittenIsLoaded`, `NothingDangling`, `RunReturnsOutputs`, `ShapesDeclared`, `WindowsFit`, `ReshapeKeepsElements` | 10 439 files around four models |
| `operators` | `ResultsRight`, `RaceFree`, `TemporariesHeld`, `TypeOK`, and `CallsEnd` under fairness, with every launcher step failing | 96 calls of the eleven operators, blocks of 4 threads, tiles of 2 x 2, 2 warps of 4 lanes |
| `graph_vram`, `graph_refrozen`, `graph_outputs`, `conv_batch` | four promises the code does not keep, section 4 | smallest that shows it |

Why the bounds are enough. Everything the cache does concerns one tensor at a
time, or that tensor and the sum of the others: two slots give one tensor and a
rest, and moves between them exchange identities. Seven to eight values of the
id counter allow two freeze epochs of one tensor with an upload in between.
Three answered `acquire()` calls are an upload, its invalidation and what
follows. Sizes 1 and 2 against budgets 2 and 3 make a copy fit alone, beside
another, or only once its own stale copy is gone. In `graph_runs` the two
runs with three caller steps are the least in which a weight can be cached,
unfrozen, rewritten and frozen again; its layer has a node with several cached
inputs, a value that stays on the device for the next node, one that comes back,
a caller's activation read by a CPU node and an output of each device. VRAM
budget 9 lets the layer's first node be placed on the device with its weights cached or
without, and makes the nodes after it depend on what that left there. Cache budget 5 holds both
weights (3 and 2), with no room for a stale copy or a frozen activation beside them: the
least budget under which two weights are promised together.
In `graph_repeat` VRAM budget 18 and cache budget 12 are the least that are ample (`AmpleRoom`);
VRAM budget 5 has no room for all nodes, and cache budget 4 none for a stale copy beside those of
two weights. Three runs and two caller steps are the least in which a weight is cached, frozen anew, and run
twice more. A fault ends the run and leaves nothing to repeat: faults are
possible at every step of `graph_runs`, where `RunsEnd` is checked too. An operator that throws
because it has no CUDA implementation though the cost table sends it there takes the same
step as one that fails, `RunThrows`.
In `graph_optimize`, three nodes are the least for a dead node that feeds a dead
node, a value read twice and a node ready after another that was added later;
inputs may come between nodes and outputs may repeat or name inputs.
The files of `model_load` are what the encoder writes for four models (the one of
`tests/test_importer.cpp`, with all seven operators; one with a node no output needs and a
constant listed before a weight; one with a window that leaves a rest, on a
value without a declared shape; one whose weight is one dimension short of overflow)
and all that differ from one of them in one cell, with the header recomputed or not, or
are cut off anywhere or followed by something. A cell is replaced by 19 values:
lengths and counts around the true ones, valid and invalid dimensions, types
and kinds, names of other values, operators and attributes, a section tag, and
-1 and -2. With `Wide = 256`, `MaxDim = 15` and tensors of up to 32 elements every
product can be made to wrap by one cell.
In `operators` sizes run from 1 to 9 around the 4 threads of a block, the 2 x 2 tiles
and the 8 lanes of a softmax block, so that rows, tiles, warps and the grid are
filled, left partly empty, or visited twice by a stride; broadcasts have ranks
that differ, dimensions of 1 on either side, an empty result and a rank above
`MaxDims`; windows have padding, strides and a rest. Four threads give the tree of
LayerNorm two levels, the least in which a partner's sum is used again; two warps of
four lanes leave lanes without a warp's result. Deadlock
checking is off where a behaviour may stop: bounds exhausted, or a call ended.

Bounds by name: `MaxId` (ids drawn), `MaxAnswers` (`acquire()` calls answered),
`Block`, `SoftmaxBlock`, `Warp`, `Tile`, `MaxBlocks`, `MaxDims` (the kernels' constants, made
small), `MaxRuns`, `MaxEdits` (caller steps, none before the first run since those only
change where it starts), `MaxInputs`, `MaxNodes`, `MaxOutputs`.

Fairness. `RunsEnd` assumes `WF(RunStep)`: `execute()` is sequential code in
which nothing waits, so a step that is possible is taken. Nothing is assumed of
the caller. `CallsEnd` assumes `WF(HostNext)` and `WF(DeviceNext)`: host and device each go
on while they can, and nothing more. No thread is promised a turn of its own; it gets one
because a block has only finitely many steps before all its threads have
arrived at a barrier or ended. No other run needs fairness.

Every property of a passing run is broken by at least one plausible edit of the
modelled code; the edited forms are the definitions introduced by `Mutant:`.

## 4. Where code and documentation differ

With a run that shows it:

* `conv_batch`: `forgert_conv2d_cuda` folds the batch into the columns of its product
  and stores `[C_out, N * H_out * W_out]` into a tensor that is
  `[N, C_out, H_out, W_out]` (`conv2d_kernel.cu:164`, `:130`). The comment at `:159-162`
  holds for `N = 1` only; for larger batches the result is permuted, unlike that of
  `conv2d.h:198-199`. `tests/test_conv2d.cpp:166` tests a batch on the CPU only. The
  run `operators` therefore has convolutions of batches on the CPU only.
* `graph_vram`: after a CUDA node only its output is counted
  (`scheduler.cpp:457`), not what the run uploaded for it: two cached weights and a
  transient copy of the input. In the trace these and the output are 3 + 2 + 2 + 2 = 9 bytes of a
  budget of 9, of which 2 are counted when the second node is decided; it is
  admitted, and its output makes 11. `scheduler.h:133` calls the budget the maximum
  allowable allocation. With a smaller budget the first node alone is enough,
  since weights that the cache serves are left out of the check of the node that needs them
  (`scheduler.cpp:376-385`).
* `graph_refrozen`: `canAdmit()` holds a re-frozen tensor's own stale copy
  against it (`weight_cache.h:83`), `acquire()` does not; the run after a
  refreeze is placed differently from the next one, against
  `scheduler.cpp:370-375`. With ample room the placement is stable
  (`PlacementStableIfRoom` in `graph_repeat`, and proved for every graph).
* `graph_outputs`: a CPU output marked twice, or an output that is an input, is
  silently left out of the results (`scheduler.cpp:472`, likewise
  `graph.h:257-268`), against "in markOutput order" (`scheduler.h:296`).

Read in the code while modelling, without a run of their own: `Tensor::fill()` on CUDA copies to the
device without recording a transfer (`tensor.h:227`), so that "total transfer bytes"
(`memory_stats.h:76`) are those of `copyTo()` only; lowering the
cache budget evicts nothing (`weight_cache.h:101`), though the budget is called a
cap (`scheduler.h:317`); without ample room for it a repeated run may upload a weight that
the run before could not, since the stale copy that was in the way is gone, where
`scheduler.h:262` has a weight "uploaded to the GPU once"; the VRAM check reads MemoryStats before the first
upload on a cold run and after it on a warm one (`scheduler.cpp:322`), so near
the limit a cold run may be placed differently from a warm one; two weights of a node that
the cache has room for one at a time, but not together, both count as served when the node is
decided (`scheduler.cpp:382`) and the second is then refused and sent with every run (so
`PromisesKept` is stated of nodes whose weights fit together), and a warm run, which counts only
the resident one, may be placed differently; `decide()`
looks at the cost table only and not at `supportsBackend()`
(`scheduler.h:20-21`), so an operator whose row is wrong makes the run throw;
graph inputs are values 0..N-1 (`graph.h:42`) only if all are added before any
node; `FGX_FORMAT.md:33` has the number of
bytes of every tensor fit in 64 bits, which the reader checks (`fgx_reader.cpp:213`) and the converter does
not (`onnx_to_fgx.py:64`), so `ModelsAssumption` asks it of a well-formed model; `FGX_FORMAT.md:87` allows as outputs of a file its inputs and what nodes
compute, `validateGraph()` initializers too (`fgx_reader.cpp:335`, `:354`);
`ImportedModel::run()` "returns outputs in outputNames() order"
(`importer.h:103`), but an output that is an input or a weight is left out, by
the cause shown in `graph_outputs`, so `RunReturnsOutputs` is stated of files whose outputs
are all computed; a window larger than its padded input wraps around
(`conv2d.h:129`, `maxpool2d.h:71`, `averagepool2d.h:93`) and is only noticed if
the file declares a shape for the value, so `WindowsFit` is stated of windows
that fit and of values with a declared shape. A product with an inner dimension of 0 is
zeros on the CPU, while the CUDA launcher returns without storing (`matmul_kernel.cu:98`);
`execute()` compares element counts only (`operator.h:128`), so an output of another shape
with as many elements is accepted by every operator but Reshape.

## 5. What is proved

`WeightCacheProofs`, for any tensors, contents, sizes, budgets and hash:

* `SpecTypeOK`, `SpecCacheInv`. `CacheInv` is inductive relative to `TypeOK`: ids
  are distinct, ids and epochs were drawn from the counter, frozen tensors own
  their memory, entries are of drawn epochs and hash what they hold, and
  (unless `Escapes`) entries that would be served are coherent. Coherence alone is not
  inductive: a re-frozen tensor stays incoherent with its old entry, and only
  the freshness of its new epoch keeps that entry from being served.
* `SpecCoherent`, assuming nothing escapes the freeze checks.
* `SpecFreshAnswers`, the refinement, assuming that, or verify mode always on and a
  hash without collisions. Each step of the cache is a step of `FreshCopies`.
* `SpecEntriesBalance`, the counters against the number of entries.
* `SpecResidentExact`, the byte counters against the bytes of the entries, and from it
  `SpecAdmissionWithinBudget`. The model adds up over sets of entries with a fold;
  what the proof needs of such a sum is that one entry more adds its bytes and one
  fewer takes them away. It comes from a sum table built one cardinality at a time, whose
  construction is a loop of `Repetition`.

`ScheduledGraphProofs`, for any graph, cost table, tensors, argument lists and
budgets that satisfy `ScheduledGraphAssumption` and `InitialTensorsAssumption`:

* `GraphSpecTypeOK`: where a run is and what it has there; in particular every
  input a node asks for is in `storage` when it asks.
* `GraphCoherent`: every step is a step of `WeightCache` or leaves it alone
  (`GraphStepUsesCache`), so that `StepTypeOK` and `StepCacheInv` carry over.
* `GraphPromisesKept`: between the decision to place a node and the last of its `acquire()`
  calls lie the uploads of its other weights, each of which takes room. `PromisesFit`: what is
  still to be uploaded of the promised weights fits in the budget beside what is held now. An
  upload moves bytes from one side to the other; a stale copy is replaced by one of the same size
  (`CopiesSized`); and a tensor that was not promised and has no copy finds no room, as
  the cache only fills while a node collects its inputs.
* `GraphOnlyLiveWeights`: it is inductive by itself given `GraphTypeOK`.
* `GraphInputsInPlace`: through `InputsHeld`. An input taken from the cache is
  the *valid* copy of some tensor of the caller; `acquire()` erases only
  entries of tensors whose copy is not valid, and ids are distinct, so no later
  `acquire()` of the same node can touch it.
* `GraphCudaAccounted`: the bytes the statistics report are those of the cache and of the
  device values a run owns. `AccountedInv` adds that a run that is over owns nothing, and
  which values a release takes away.
* `GraphResultsCorrect`: a run returns what its outputs denote, for tensors that escape no
  freeze check (`Trustworthy`) and graphs that name no output twice (`DistinctOutputs`; with one
  named twice it is false, see §4). Through `ResultsInv`: every
  value in `storage` and every input collected for the next node *stands for* its denotation
  (`Stands`): it is that contents, or a cached copy that is valid for a tensor with that
  contents. The denotation is a recursive definition, and that it has a solution is
  `DenotationExists`, node by node: this is why `ScheduledGraphAssumption` says
  that every value is an input or the output of a node.
* `GraphPlacementStableIfRoom`: with ample room (`AmpleRoom`: VRAM for every value beside the
  inputs of any one node, a cache budget of twice the inputs) a repeated run is placed as the one
  before. `decide()` asks what is on the device, what the decisions counted so far
  and what the cache would admit, and all three differ between a first and a warm run. The
  proof shows that with this room none of them decides anything. `CopiesSized`: every entry
  of a live tensor has that tensor's size. `ResidentBound` and `CountedBound`: during a run the cache
  holds no more than the inputs, and the decisions count no more than the values computed so far.
  `StoredShape`: a value is on the device its node was placed on. `AmpleAdmits` concludes that a
  weight is admitted, and `PlaceSteady` that a node goes where `Steady` says: a function of the
  arguments, of which of them are weights, and of the nodes before. `StableInv` carries that through
  the run, through its return and through the calls that leave a repetition a repetition.
* `GraphRepeatUploadsNothing`, from `CopiedInv`: the weights of the nodes that are placed on the
  device have valid copies once they were asked for, and with the placement stable a repetition asks
  for no others. `NeverRefused`: with ample room `acquire()` answers no weight with a refusal,
  so no transient copy of one is made. Without ample room the statement is false, see §4.

`CudaDeviceProofs`, for any calls whose sizes are natural numbers (`CallsAssumption`), any
power of two of threads, any warps that divide a softmax block and are no fewer
lanes than warps, any tile, grid cap and rank:

* `DeviceTypeOK`: where the host and each thread are.
* `RaceFreeSafe`. `DeviceInv` is inductive. `ThreadsInv`: all threads of the block are in one
  segment, and one that waits has a barrier ahead. `Explained`: every access in
  `touched` is one that a thread of the launch makes in some segment, and if the cell is
  shared, a thread of the running block in the *present* segment, since the barrier before it
  took the older ones away. `RaceFree` alone is not inductive: it does not say what
  a thread will store next. The rest is arithmetic about two threads and their segments,
  once per kernel (`ElementwiseDisjoint`, `ProductsDisjoint`, `SoftmaxDisjoint`,
  `LayerNormDisjoint`): strides of different threads are disjoint, tree partners lie
  beyond every writer, tiles are stored to by coordinates, rows of blocks do not
  overlap.
* `TemporariesHeldSafe`. `HostInv` says that at step `i` of a launcher `Holding(c, i)` is
  allocated; `StepHolds` checks that every step of every launcher, its error path and
  the temporaries of its kernel agree with it. Launches in flight keep theirs because the host
  frees only when the device is idle.

`GraphProofs` and `OptimizerProofs`, for any operators, shapes and shape inference
(`GraphAssumption`) and graphs of every size:

* `GraphSpecInv`, of `Graph` by itself. `WellBuilt` strengthens `GraphTypeOK`: every value is an
  input or made by a node, so that the next id is neither, and every node has the
  shape that inference answered when it was added. `SortInv` is what makes
  `OrderTopological` inductive. That the sort never reports a cycle
  (`SortedParts`): of the nodes that are not ordered when the queue runs empty, the first
  reads only from earlier ones, which are ordered, so it waits for nothing and would
  have been queued. `StorageInv` then has every input of the next node in storage.
* `OptimizerSafe` extends it: `OptimizerTypeOK`, `OptimizerSorting`, `OptimizerOrder`,
  `OptimizerNeverThrows`, `OptimizerKeepsSignature`. `Walked`: of the nodes behind the
  walk those are live whose output is; a live value cannot become live
  after its producer was passed, because the order is topological. `LiveClosed` and
  `Cloned`: what a live node reads, and every output, has its place in `id_map`.
  `Translated`: it has the same shape there, so `addNode()` takes the clone of every node
  and the signature of the graph is kept. These exceptions of the code are therefore
  checks that cannot fail.
* `GraphResultsDenoted` and `OptimizerResultsDenoted`. `Denotation` has one solution:
  `DenotationExists` makes it node by node, `OneMeaning` says that there is no other. What is in
  `storage` is then what the values denote (`ResultInv`), and when the last node of the order has
  run every output is in it.
* `OptimizerLiveIsReaching`, `OptimizerRebuiltEquivalent` and `OptimizerNoDeadNode`, from
  `PassInv`. `LiveExact` turns `LiveClosed` round: what is live is an output or read by a live
  node. So live nodes obey the equation that defines `Reaches`, and only one set does
  (`ReachesOnly`, by induction from the last node to the first). `SameMeaning`: a value and
  its place in the new graph denote the same; it is kept because a graph that grows
  keeps what its values denote (`MeaningExtends`, from `OneMeaning`). `OnlyClones` and
  `EveryClone`: the nodes of the new graph are the clones of live nodes, which read what those
  read. The whole set of its nodes therefore obeys the equation of `Reaches`.

`ReaderProofs` and `ImporterProofs`, for every file of natural numbers, of any length, with
fields below `Wide` (`ReaderAssumption`), and any limits and even widths
(`FormatAssumption`, `WideAssumption`):

* `ReaderInBounds`, `ReaderParsedIsWritten`, `ReaderInitsComplete`. Each follows from
  `ReaderInv`, which is inductive: while sections are read, the cells of the file up to the
  cursor are the header and, one after the other, the sections that the encoder writes for
  what the model holds so far; every initializer in it is complete. `ParsedIsWritten` alone
  says nothing of a file that is not read to its end, nor does `InBounds` say that the next
  section starts within the file.
* `Reads(c, d, x)` says of two cursors that `d` is `c` moved on, within the same section, over
  the cells `x`, unless `d` failed. Every reading operator has a lemma that it
  reads the encoding of what it returns (`FieldReads`, `StrReads`, `DescReads`, `InitReads`,
  `AttrReads`, `NodeReads`, `MetaReads`, and one for each loop and list), and the lemmas compose
  as the readers do (`ReadsChain`).
* `ElementsExact`: the product computed modulo `Wide` is the product in the integers if
  no prefix of it overflows, which `Countable` makes sure of. Without that check a product
  could wrap to just the length that the file gives.
* `ReaderReadsBack`, the other direction: the file of a well-formed model is accepted, and
  the model comes back. `ModelsAssumption` says what is well-formed: what `convert_model()` lets
  through, what `validateGraph()` asks, and dimensions whose product fits. The inductive
  invariant is `ReadBack`: the reader stands behind the sections read so far, and their fields are
  those of the model. `Ahead(c, x)` says that the cells `x` are next, within the section, and
  `Got(c, d, x, v)` that `d` is `c` moved on over them with the value `v`; every reading operator
  has a lemma that with the encoding of a value ahead it gets that value (`StrGets`, `DescGets`,
  `InitGets`, `AttrGets`, `NodeGets`, `MetaGets`). For lists, `LoopGets` has the one induction
  and `CountGets` that the least sizes of entries are no larger than what is written.
  `AheadSplit` cuts what is ahead at the end of each field.
* The loops are recursive functions. `Repetition` has the one induction they need, over
  the number of steps (`RepeatedUnfolds`), with the body of the loop as its constant; each
  loop instantiates it. It says of the natural numbers that a set with 0 and the successors of
  its members has them all (`SetInduction`), from the well-foundedness of `<`. Of a recursive
  function over things with ranks, which asks for lower ranks only, it says that it exists
  (`SolutionExists`).
* `ImporterTypeOK`, `ImporterNothingDangling`, `ImporterShapesDeclared`, from `ImportInv`. Its
  parts rest on each other. `ImportTyped` has `Formed`, a strengthening of `WellFormed` that is
  inductive: ids are handed out in order and every value is an input or made by a node.
  That the inputs and the weights stay as many as the graph's inputs needs every name to be
  new when it is imported; that follows from `KnownInv`, which says which names are known at
  each entry of each list, and from what `validateGraph()` established of the names
  (`ValidNames`). `ShapedInv` keeps that a node's value was compared with the file: a
  later node could otherwise take its name over, which `KnownInv` excludes.
* `ImporterReshapeKeepsElements`, from `ElementsInv`: shapes and constants stay lists of
  numbers, so that what holds of `resolveShape()` holds of every node when it is added, and
  no later step changes a shape. Of `resolveShape()`, `ResolvedKeepsElements` says that a shape
  it accepts has as many elements as its input, modulo `Wide`. The dimension that -1 stands for is
  a quotient of two products that may both have wrapped; `ElementsScaled` puts it back into
  the product one dimension at a time, by the arithmetic of remainders in `ModTimes`.
* `ImporterWindowsFit`, from `WindowsInv` and `ImporterShapesDeclared`: the windows of nodes are
  those that `readWindow()` accepted, the spatial dimensions those that `Windows` computes.
  `WindowsCounted` is the arithmetic. Where the window fits, the quotient counts its positions. Where
  it does not, the difference wraps to at least `Wide` - `MaxDim`, and divided by a stride that an
  int holds it is still more than `MaxDim`, or exactly 0 after one more wrap; no dimension that
  `parse()` accepts is either.
* `ImporterRunReturnsOutputs`, from `TracedInv`, `ProgressInv` and `RanInv`. `TracedInv`: different
  names have different values, and each is an input at its place, a weight behind the inputs with
  the data of its initializer, or made by a node that is what would be built of the node of
  the file that gives the name, *again and now* (`Replays`); that it stays so while names and
  values are added is `BuiltAgain`. The property compares two recursive definitions,
  what values denote in the graph (`Denotation`) and what names mean in the file (`Meaning`).
  That the first says anything follows from the numbers of values, which go down along a node
  (`DenotationObeys`, with `SolutionExists` of `Repetition`); the second has
  the first as a solution (`MeaningFound`) and no other (`MeaningDenoted`). That outputs are all
  found, and in order, is `AllFound` and `AscendingOnce`.
* `ImporterWrittenIsLoaded`, from `ReaderReadsBack` and `LoadInv`, for the models `Loadable`, four
  in `model_load`. `LoadableAssumption` asks of each to be well-formed and to be one that
  `Computes`, which is said of names and lists alone: `ShapesAfter` gives names their shapes, the
  given ones and then one node after the other, and each node is asked to be `Computable`, with
  the checks that the importer makes of an operator, its attributes and its shapes. The
  importer makes them of value ids, of a graph that grows and of what it kept of the
  initializers on the way. `LoadInv` has both agree: the constants are the int64 initializers imported
  so far (`HeldUpTo`), and the shapes that names have in the graph (`NamedShapes`) are those
  given, then `ShapesAfter` the nodes imported so far. So no check is made of anything but what the
  model says (`ComputableFine`), and none of them fails. `GivenNamedAll` is where the lists meet: once all
  initializers are imported a name stands for a value just if it is given and no constant, which
  rests on `KnownInv` and on `validateGraph()`.

Fairness and liveness (`RunsEnd`, `CallsEnd`) and sums over rows and windows (`ResultsRight`)
are model-checked only. Liveness needs ENABLED, which is beyond the
provers; what `ResultsRight` states of sums needs the arithmetic of sums in any order.

## 6. What is not modelled

In ScheduledGraph operators are terms, and shapes are left out there. The operators' own
modules compute on integers: rounding, NaN and infinities (a maximum over a window that lies
wholly in the padding, for one), the square root and `epsilon` of LayerNorm are
left out, and so is the width of the kernels' `int` indices, which the launchers bound only
dimension by dimension. Rows of length 0 divide by zero in `softmax.h:95` and `layernorm.h:109`
and are not among the calls. The device and data type checks of `executeCPU()` and
`executeCUDA()` are left out: the calls are placed as the scheduler places them, and every value has the
data type of its node's first input. Of Reshape the form with a target given at
construction is modelled, the only one the importer builds. The report of the optimizer, printing, peaks and
transfer counters of MemoryStats feed nothing back. CUDA allocation and
copies are the throwing alternatives of the steps that make them. Of the import,
error categories and messages, warnings, node names and the manifest printed by
`fgx_dump` are left out; so is the ONNX model that `convert_model()` starts from. A
`run()` that throws changes nothing and is no step. Tools, apps, examples and benchmarks are
programs around the runtime.

## 7. What would come next

1. `ResultsRight` for every size: that the partial sums of a block, added up in the order of
   its tree, are the sum of the row.
