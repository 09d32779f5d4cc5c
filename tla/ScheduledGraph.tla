-------------------------- MODULE ScheduledGraph --------------------------
(***************************************************************************)
(* ScheduledGraph (include/forgert/scheduler/scheduler.h, src/scheduler/   *)
(* scheduler.cpp): one graph executed again and again, every node placed   *)
(* on CPU or CUDA by SchedulingPolicy, weights served by the weight cache, *)
(* device memory counted by MemoryStats.                                   *)
(*                                                                         *)
(* execute() is cut at every point where it allocates, copies or calls an  *)
(* operator, the points where it can throw.  Between runs the caller edits *)
(* its tensors and the configuration.  The objects composed here are those *)
(* of WeightCache: a run uses the cache through its own actions.           *)
(*                                                                         *)
(* Byte counts are in elements.  Every operator of the repository has one  *)
(* output, so a node has one.  A computed tensor's contents are a term:    *)
(* the operator applied to the contents of its inputs.                     *)
(***************************************************************************)
EXTENDS WeightCache, MemoryStats, SchedulingPolicy, Sequences

CONSTANTS
  NumInputs,    \* graph inputs are the values 1 .. NumInputs
  Nodes,        \* nodes in execution order: [op, in, out], in and out value ids
  Outputs,      \* value ids in markOutput order
  Elems,        \* value id -> elements of the value
  Profiles,     \* op -> cost table row
  HasCuda,      \* ops whose supportsBackend(CUDA) is TRUE
  Callings,     \* argument lists the caller passes: sequences of slots
  Initially,    \* slot -> [bytes, frozen, val] of the tensor built at start
  VramBudgets,  \* values setVramBudgetBytes() is called with
  Bandwidths,   \* values setTransferBandwidthBytesPerNs() is called with
  CacheModes,   \* values setWeightCacheEnabled() is called with
  Resets,       \* TRUE: the caller also resets MemoryStats
  Faults,       \* TRUE: allocations, copies and operators may fail
  MaxRuns,      \* bound: calls of execute()
  MaxEdits      \* bound: caller steps between runs

\* A graph that Graph's build functions accept: every value is an input or has
\* one producer, which comes before its consumers.
ASSUME ScheduledGraphAssumption ==
  /\ NumInputs \in Nat
  /\ Elems \in Seq(Nat \ {0})
  /\ Nodes \in Seq([op : DOMAIN Profiles, in : Seq(DOMAIN Elems), out : DOMAIN Elems])
  /\ Nodes # <<>>
  /\ DOMAIN Elems = 1 .. NumInputs \cup {Nodes[n].out : n \in DOMAIN Nodes}
  /\ \A n \in DOMAIN Nodes :
       /\ Nodes[n].out \notin 1 .. NumInputs
       /\ \A i \in DOMAIN Nodes[n].in :
            \/ Nodes[n].in[i] \in 1 .. NumInputs
            \/ \E k \in 1 .. n - 1 : Nodes[n].in[i] = Nodes[k].out
       /\ \A k \in DOMAIN Nodes : k # n => Nodes[k].out # Nodes[n].out
  /\ Outputs \in Seq(DOMAIN Elems)
  /\ Callings \subseteq Seq(Slots)
  /\ VramBudgets \subseteq Nat
  /\ Bandwidths \subseteq Nat \ {0}
  /\ Resets \in BOOLEAN /\ Faults \in BOOLEAN
  /\ MaxRuns \in Nat /\ MaxEdits \in Nat

\* The program starts with one tensor in every slot; slots are 1, 2, ...
ASSUME InitialTensorsAssumption ==
  /\ IsFiniteSet(Slots) /\ Slots = 1 .. Cardinality(Slots) /\ Slots # {}
  /\ \A s \in Slots :
       /\ Initially[s].bytes \in Nat
       /\ Initially[s].frozen \in BOOLEAN
       /\ Initially[s].val \in Contents

VARIABLES
  pc,           \* where execute() is
  at,           \* index in Nodes of the node being run
  arg,          \* index of the input or output being handled
  passed,       \* slots of the arguments of the run
  storage,      \* value_storage: value id -> reference
  owned,        \* owned_tensors: [device, bytes, val, held]
  ins,          \* node_inputs: references
  counted,      \* ctx.cuda_allocated_bytes
  schedule,     \* last_schedule_: placements in execution order
  results,      \* contents of the tensors in results
  vram,         \* vram_budget_bytes_
  bandwidth,    \* transfer_bw_bytes_per_ns_
  cacheOn,      \* weight_cache_enabled_
  cuda,         \* MemoryStats: cuda_allocated_bytes_
  reset,        \* history: MemoryStats was reset
  promised,     \* history: weights the node in hand was told it gets from the cache
  before,       \* history: schedule of the last run that returned
  repeat,       \* history: this run repeats the last one, activations aside
  settled,      \* history: nothing but activations changed since it returned
  runs, edits   \* bounds

runVars    == <<pc, at, arg, passed, storage, owned, ins, counted, schedule, results>>
configVars == <<vram, bandwidth, cacheOn>>
historyVars == <<reset, promised, before, repeat, settled>>
boundVars  == <<runs, edits>>
graphVars  == <<vars, runVars, configVars, cuda, historyVars, boundVars>>

Host(s)     == [at |-> "host", slot |-> s]
Owned(k)    == [at |-> "owned", k |-> k]
Cached(id)  == [at |-> "cache", id |-> id]

DeviceOf(r) == CASE r.at = "host"  -> tensors[r.slot].device
                 [] r.at = "owned" -> owned[r.k].device
                 [] r.at = "cache" -> "CUDA"

BytesAt(r)  == IF r.at = "host" THEN tensors[r.slot].bytes ELSE owned[r.k].bytes

ContentsOf(r) == CASE r.at = "host"  -> tensors[r.slot].val
                   [] r.at = "owned" -> owned[r.k].val
                   [] r.at = "cache" -> entries[r.id].val

\* Device bytes of the tensors the run owns.
OwnedCuda ==
  MapThenSumSet(LAMBDA k : owned[k].bytes,
                {k \in DOMAIN owned : owned[k].held /\ owned[k].device = "CUDA"})

Node    == Nodes[at]
RawIns  == [i \in DOMAIN Node.in |-> storage[Node.in[i]]]
Target  == schedule[at]
CtxNow  == [allocated |-> counted, budget |-> vram, bandwidth |-> bandwidth]

\* The program has constructed its tensors, in the order of the slots, and
\* frozen the weights among them.
GraphInit ==
  LET n == Cardinality(Slots) IN
  /\ tensors = [s \in Slots |->
       [id |-> s, gen |-> IF Initially[s].frozen THEN n + s ELSE 0, owns |-> TRUE,
        device |-> "CPU", bytes |-> Initially[s].bytes, val |-> Initially[s].val]]
  /\ nextId = 2 * n + 1
  /\ entries = [id \in {} |-> {}]
  /\ resident = 0
  /\ budget \in Budgets
  /\ verify \in VerifyModes
  /\ stats = [c \in Counter |-> 0]
  /\ answer = NullPtr
  /\ pc = "idle" /\ at = 0 /\ arg = 0
  /\ passed = <<>> /\ owned = <<>> /\ ins = <<>> /\ schedule = <<>> /\ results = <<>>
  /\ storage = [v \in {} |-> {}]
  /\ counted = 0
  /\ vram \in VramBudgets
  /\ bandwidth \in Bandwidths
  /\ cacheOn \in CacheModes
  /\ cuda = 0
  /\ reset = FALSE /\ promised = {} /\ before = <<>> /\ repeat = FALSE /\ settled = FALSE
  /\ runs = 0 /\ edits = 0

-----------------------------------------------------------------------------
(* execute() *)

\* Mutant: the cache is not swept at the start of a run.
NoSweep(p) ==
  /\ counted' = cuda
  /\ UNCHANGED <<vars, cuda>>

\* Weight cache housekeeping, then the context is read from MemoryStats.
Sweep(p) ==
  /\ IF cacheOn THEN RetainOnly({p[i] : i \in DOMAIN p}) ELSE UNCHANGED vars
  /\ cuda' = Deallocated(cuda, resident - resident')
  /\ counted' = cuda'

Begin(p) ==
  /\ pc = "idle"
  /\ runs < MaxRuns
  /\ Len(p) = NumInputs
  /\ \A i \in 1 .. NumInputs : Live(p[i]) /\ tensors[p[i]].bytes = Elems[i]
  /\ Sweep(p)
  /\ pc' = "decide"
  /\ at' = 1
  /\ arg' = 0
  /\ passed' = p
  /\ storage' = [v \in 1 .. NumInputs |-> Host(p[v])]
  /\ schedule' = <<>>
  /\ results' = <<>>
  /\ repeat' = (settled /\ p = passed)
  /\ runs' = runs + 1
  /\ UNCHANGED <<owned, ins, configVars, reset, promised, before, settled, edits>>

\* Too many or too few arguments, or one of the wrong size, are refused before
\* anything is touched.
BeginRejected(p) ==
  /\ pc = "idle"
  /\ runs < MaxRuns
  /\ \A i \in DOMAIN p : Live(p[i])
  /\ Len(p) = NumInputs => \E i \in 1 .. NumInputs : tensors[p[i]].bytes # Elems[i]
  /\ runs' = runs + 1
  /\ settled' = FALSE
  /\ UNCHANGED <<vars, runVars, configVars, cuda, reset, promised, before, repeat, edits>>

\* Mutant: only copies that exist already count as served.
ServedResident(r) == cacheOn /\ r.at = "host" /\ IsResident(tensors[r.slot])

\* The cache can serve the input; computed tensors are never frozen.
Served(r) == cacheOn /\ r.at = "host" /\ CanAdmit(tensors[r.slot])

\* What the node asks of the policy.
DemandOf(raw) ==
  LET unserved == {i \in DOMAIN raw : ~Served(raw[i])} IN
  [elems  |-> Elems[Node.out],
   in     |-> MapThenSumSet(LAMBDA i : BytesAt(raw[i]), unserved),
   out    |-> Elems[Node.out],
   on_gpu |-> raw # <<>> /\ \A i \in unserved : DeviceOf(raw[i]) = "CUDA"]

\* Of S, the tensors the cache holds no copy of.
Unmet(S) == {s \in S : tensors[s].id \notin DOMAIN entries}

\* There is room for them all beside the copies the cache holds.
RoomFor(S) == resident + MapThenSumSet(LAMBDA s : tensors[s].bytes, Unmet(S)) <= budget

\* The tensors among raw that count as served, if there is room for all.
Promises(raw) ==
  LET S == {raw[i].slot : i \in {j \in DOMAIN raw : Served(raw[j])}} IN
  IF RoomFor(S) THEN S ELSE {}

Place ==
  /\ pc = "decide"
  /\ schedule' = Append(schedule, Decide(Profiles[Node.op], DemandOf(RawIns), CtxNow))
  /\ ins' = <<>>
  /\ arg' = 1
  /\ pc' = IF Node.in = <<>> THEN "alloc" ELSE "transfer"
  /\ promised' = Promises(RawIns)
  /\ UNCHANGED <<vars, at, passed, storage, owned, counted, results, configVars, cuda,
                 reset, before, repeat, settled, boundVars>>

\* The stack unwinds: the owned tensors are freed, c being what MemoryStats
\* counts by then; the cache and last_schedule_ stay as they are.
Unwind(c) ==
  /\ cuda' = Deallocated(c, OwnedCuda)
  /\ owned' = <<>>
  /\ storage' = [v \in {} |-> {}]
  /\ ins' = <<>>
  /\ results' = <<>>
  /\ pc' = "idle"
  /\ settled' = FALSE
  /\ UNCHANGED <<at, arg, passed, counted, schedule, configVars,
                 reset, promised, before, repeat, boundVars>>

\* Mutant: one input too many is asked for.
TakeInputPastEnd(r) ==
  /\ ins' = Append(ins, r)
  /\ arg' = arg + 1
  /\ pc' = IF arg > Len(Node.in) THEN "alloc" ELSE "transfer"

\* Input arg of the node is r; the next input, or the outputs, follow.
TakeInput(r) ==
  /\ ins' = Append(ins, r)
  /\ arg' = arg + 1
  /\ pc' = IF arg = Len(Node.in) THEN "alloc" ELSE "transfer"

\* The input goes through acquire().
FromCache(r) ==
  /\ Target = "CUDA"
  /\ cacheOn
  /\ r.at = "host"
  /\ IsCacheable(tensors[r.slot])

\* acquire() returned a copy, resident before or uploaded now.
TakeCached ==
  LET r == RawIns[arg] IN
  /\ pc = "transfer"
  /\ FromCache(r)
  /\ \/ AcquireHit(r.slot) /\ UNCHANGED cuda
     \/ /\ AcquireUpload(r.slot)
        /\ cuda' = Allocated(Deallocated(cuda, StaleBytes(tensors[r.slot])),
                             tensors[r.slot].bytes)
  /\ TakeInput(Cached(tensors[r.slot].id))
  /\ UNCHANGED <<at, passed, storage, owned, counted, schedule, results,
                 configVars, historyVars, boundVars>>

\* Mutant: a refused input is put to the cache again.
RefusalRetried ==
  LET r == RawIns[arg] IN
  /\ pc = "transfer"
  /\ FromCache(r)
  /\ AcquireOverBudget(r.slot)
  /\ cuda' = Deallocated(cuda, StaleBytes(tensors[r.slot]))
  /\ UNCHANGED <<runVars, configVars, historyVars, boundVars>>

\* acquire() returned nullptr: a transient upload follows.
CacheRefuses ==
  LET r == RawIns[arg] IN
  /\ pc = "transfer"
  /\ FromCache(r)
  /\ AcquireOverBudget(r.slot)
  /\ cuda' = Deallocated(cuda, StaleBytes(tensors[r.slot]))
  /\ pc' = "transient"
  /\ UNCHANGED <<at, arg, passed, storage, owned, ins, counted, schedule, results,
                 configVars, historyVars, boundVars>>

CacheThrows ==
  LET r == RawIns[arg] IN
  /\ Faults
  /\ pc = "transfer"
  /\ FromCache(r)
  /\ AcquireThrows(r.slot)
  /\ Unwind(Deallocated(cuda, StaleBytes(tensors[r.slot])))

\* Does ensureDeviceImpl handle input arg?
Ensuring == pc = "transient" \/ (pc = "transfer" /\ ~FromCache(RawIns[arg]))

\* A new tensor owned by the run.
Own(device, bytes, val) ==
  /\ ConstructElsewhere
  /\ owned' = Append(owned, [device |-> device, bytes |-> bytes, val |-> val, held |-> TRUE])
  /\ cuda' = IF device = "CUDA" THEN Allocated(cuda, bytes) ELSE cuda
  /\ UNCHANGED cacheVars

\* Mutant: copies go to the device, but nothing is copied back for a CPU node.
UploadsOnly ==
  LET r == RawIns[arg] IN
  /\ Ensuring
  /\ IF DeviceOf(r) = "CUDA" \/ Target = "CPU"
     THEN TakeInput(r) /\ UNCHANGED <<vars, owned, cuda>>
     ELSE /\ Own(Target, BytesAt(r), ContentsOf(r))
          /\ TakeInput(Owned(Len(owned) + 1))
  /\ UNCHANGED <<at, passed, storage, counted, schedule, results,
                 configVars, historyVars, boundVars>>

\* ensureDeviceImpl: the tensor itself, or a copy on the target.
EnsureDevice ==
  LET r == RawIns[arg] IN
  /\ Ensuring
  /\ IF DeviceOf(r) = Target
     THEN TakeInput(r) /\ UNCHANGED <<vars, owned, cuda>>
     ELSE /\ Own(Target, BytesAt(r), ContentsOf(r))
          /\ TakeInput(Owned(Len(owned) + 1))
  /\ UNCHANGED <<at, passed, storage, counted, schedule, results,
                 configVars, historyVars, boundVars>>

\* The copy's allocation or the transfer throws.
EnsureThrows ==
  /\ Faults
  /\ Ensuring
  /\ DeviceOf(RawIns[arg]) # Target
  /\ ConstructElsewhere
  /\ UNCHANGED cacheVars
  /\ Unwind(cuda)

AllocOutput ==
  /\ pc = "alloc"
  /\ Own(Target, Elems[Node.out], None)
  /\ storage' = [v \in DOMAIN storage \cup {Node.out} |->
                   IF v = Node.out THEN Owned(Len(owned) + 1) ELSE storage[v]]
  /\ pc' = "run"
  /\ UNCHANGED <<at, arg, passed, ins, counted, schedule, results,
                 configVars, historyVars, boundVars>>

AllocThrows ==
  /\ Faults
  /\ pc = "alloc"
  /\ ConstructElsewhere
  /\ UNCHANGED cacheVars
  /\ Unwind(cuda)

\* The operator refuses a backend it does not support.
Supported == Target = "CPU" \/ Node.op \in HasCuda

\* Operator::execute fills the output, the last tensor allocated.
RunNode ==
  /\ pc = "run"
  /\ Supported
  /\ owned' = [owned EXCEPT ![Len(owned)].val =
       <<Node.op, [i \in DOMAIN ins |-> ContentsOf(ins[i])]>>]
  /\ counted' = IF Target = "CUDA" THEN counted + Elems[Node.out] ELSE counted
  /\ at' = at + 1
  /\ arg' = 1
  /\ pc' = IF at = Len(Nodes) THEN "collect" ELSE "decide"
  /\ UNCHANGED <<vars, passed, storage, ins, schedule, results,
                 configVars, cuda, historyVars, boundVars>>

RunThrows ==
  /\ pc = "run"
  /\ Faults \/ ~Supported
  /\ UNCHANGED vars
  /\ Unwind(cuda)

OutputRef == storage[Outputs[arg]]

NextOutput ==
  /\ arg' = arg + 1
  /\ UNCHANGED <<pc, at, passed, storage, ins, counted, schedule,
                 configVars, historyVars, boundVars>>

\* A CPU output is moved out of owned_tensors if it is found there; one that
\* is not (moved out already, or the caller's own) adds nothing.
MoveOutput ==
  LET r == OutputRef IN
  /\ pc = "collect"
  /\ arg <= Len(Outputs)
  /\ DeviceOf(r) = "CPU"
  /\ IF r.at = "owned" /\ owned[r.k].held
     THEN /\ results' = Append(results, owned[r.k].val)
          /\ owned' = [owned EXCEPT ![r.k].held = FALSE]
     ELSE UNCHANGED <<results, owned>>
  /\ NextOutput
  /\ UNCHANGED <<vars, cuda>>

\* A CUDA output is copied to a new CPU tensor.
CopyOutput ==
  LET r == OutputRef IN
  /\ pc = "collect"
  /\ arg <= Len(Outputs)
  /\ DeviceOf(r) = "CUDA"
  /\ ConstructElsewhere
  /\ results' = Append(results, ContentsOf(r))
  /\ NextOutput
  /\ UNCHANGED <<cacheVars, owned, cuda>>

CopyThrows ==
  /\ Faults
  /\ pc = "collect"
  /\ arg <= Len(Outputs)
  /\ DeviceOf(OutputRef) = "CUDA"
  /\ ConstructElsewhere
  /\ UNCHANGED cacheVars
  /\ Unwind(cuda)

\* Mutant: the run returns while its tensors still sit on the device.
ReturnLeaking ==
  /\ pc = "collect"
  /\ arg > Len(Outputs)
  /\ owned' = <<>>
  /\ storage' = [v \in {} |-> {}]
  /\ ins' = <<>>
  /\ pc' = "idle"
  /\ before' = schedule
  /\ settled' = TRUE
  /\ UNCHANGED <<vars, at, arg, passed, counted, schedule, results, configVars, cuda,
                 reset, promised, repeat, boundVars>>

\* execute() returns; its local tensors are destroyed.
Return ==
  /\ pc = "collect"
  /\ arg > Len(Outputs)
  /\ cuda' = Deallocated(cuda, OwnedCuda)
  /\ owned' = <<>>
  /\ storage' = [v \in {} |-> {}]
  /\ ins' = <<>>
  /\ pc' = "idle"
  /\ before' = schedule
  /\ settled' = TRUE
  /\ UNCHANGED <<vars, at, arg, passed, counted, schedule, results, configVars,
                 reset, promised, repeat, boundVars>>

RunStep ==
  \/ Place
  \/ TakeCached \/ CacheRefuses \/ CacheThrows
  \/ EnsureDevice \/ EnsureThrows
  \/ AllocOutput \/ AllocThrows
  \/ RunNode \/ RunThrows
  \/ MoveOutput \/ CopyOutput \/ CopyThrows
  \/ Return

-----------------------------------------------------------------------------
(* The caller, between runs *)

\* Bound: none before the first run, which only start it from other tensors.
Edit ==
  /\ pc = "idle"
  /\ runs > 0
  /\ edits < MaxEdits
  /\ edits' = edits + 1
  /\ UNCHANGED <<runVars, promised, before, repeat, runs>>

\* Writing the activations keeps the run a repetition of the last one.
WriteTensor(s) ==
  /\ Write(s) /\ tensors' # tensors
  /\ Edit
  /\ UNCHANGED <<cacheVars, configVars, cuda, reset, settled>>

FreezeTensor(s) ==
  /\ Freeze(s) \/ Unfreeze(s)
  /\ Edit
  /\ settled' = FALSE
  /\ UNCHANGED <<cacheVars, configVars, cuda, reset>>

ReplaceTensor(s) ==
  /\ Destroy(s) \/ Construct(s) \/ \E t \in Slots : Move(s, t)
  /\ Edit
  /\ settled' = FALSE
  /\ UNCHANGED <<cacheVars, configVars, cuda, reset>>

Configure ==
  /\ \/ SetBudgetBytes /\ budget' # budget
     \/ SetVerifyContent /\ verify' # verify
  /\ Edit
  /\ settled' = FALSE
  /\ UNCHANGED <<configVars, cuda, reset>>

SetVramBudgetBytes ==
  /\ vram' \in VramBudgets \ {vram}
  /\ Edit
  /\ settled' = FALSE
  /\ UNCHANGED <<vars, bandwidth, cacheOn, cuda, reset>>

SetTransferBandwidthBytesPerNs ==
  /\ bandwidth' \in Bandwidths \ {bandwidth}
  /\ Edit
  /\ settled' = FALSE
  /\ UNCHANGED <<vars, vram, cacheOn, cuda, reset>>

\* Disabling releases the device copies immediately.
SetWeightCacheEnabled ==
  /\ cacheOn' \in CacheModes \ {cacheOn}
  /\ IF cacheOn' THEN UNCHANGED <<vars, cuda>>
     ELSE Clear /\ cuda' = Deallocated(cuda, resident)
  /\ Edit
  /\ settled' = FALSE
  /\ UNCHANGED <<vram, bandwidth, reset>>

ReleaseDeviceWeights ==
  /\ DOMAIN entries # {}
  /\ Clear
  /\ cuda' = Deallocated(cuda, resident)
  /\ Edit
  /\ settled' = FALSE
  /\ UNCHANGED <<configVars, reset>>

\* MemoryStats::reset(): the counters, not the memory.
ResetStats ==
  /\ Resets
  /\ cuda' = 0
  /\ reset' = TRUE
  /\ Edit
  /\ settled' = FALSE
  /\ UNCHANGED <<vars, configVars>>

CallerStep ==
  \/ \E s \in Slots : WriteTensor(s) \/ FreezeTensor(s) \/ ReplaceTensor(s)
  \/ Configure
  \/ SetVramBudgetBytes
  \/ SetTransferBandwidthBytesPerNs
  \/ SetWeightCacheEnabled
  \/ ReleaseDeviceWeights
  \/ ResetStats

GraphNext ==
  \/ \E p \in Callings : Begin(p) \/ BeginRejected(p)
  \/ RunStep
  \/ CallerStep

\* Nothing waits inside execute(): a run that can take a step takes one.
GraphSpec == GraphInit /\ [][GraphNext]_graphVars /\ WF_graphVars(RunStep)

-----------------------------------------------------------------------------
(***************************************************************************)
(* Properties                                                              *)
(***************************************************************************)

\* Where a run can be, and what it then has: the arguments and the results so
\* far in storage, one placement per node begun, an input of the node in hand.
InNode == {"transfer", "transient", "alloc", "run"}

SequenceOf(s) == s \in Seq({s[i] : i \in DOMAIN s})

GraphTypeOK ==
  /\ pc \in InNode \cup {"idle", "decide", "collect"}
  /\ SequenceOf(owned)
  /\ SequenceOf(ins)
  /\ schedule \in Seq({"CPU", "CUDA"})
  /\ pc # "idle" =>
       /\ passed \in Callings /\ Len(passed) = NumInputs
       /\ at \in Nat \ {0} /\ arg \in Nat
       /\ 1 .. NumInputs \subseteq DOMAIN storage
       /\ \A k \in 1 .. at - 1 : k \in DOMAIN Nodes /\ Nodes[k].out \in DOMAIN storage
       /\ \A v \in DOMAIN storage :
            \/ \E i \in DOMAIN passed : storage[v] = Host(passed[i])
            \/ \E k \in DOMAIN owned : storage[v] = Owned(k)
  /\ pc \in InNode \cup {"decide"} => at \in DOMAIN Nodes
  /\ pc \in InNode => Len(schedule) = at
  /\ pc = "decide" => Len(schedule) = at - 1
  /\ pc \in {"transfer", "transient"} => arg \in DOMAIN Node.in
  /\ pc = "run" => Node.out \in DOMAIN storage
  /\ pc = "collect" => at = Len(Nodes) + 1 /\ arg \in Nat \ {0}

\* The value a graph value denotes: a graph input is its argument, any other
\* value its operator applied to what the inputs denote.
Denotation[v \in DOMAIN Elems] ==
  IF v <= NumInputs THEN tensors[passed[v]].val
  ELSE LET n == CHOOSE k \in DOMAIN Nodes : Nodes[k].out = v IN
       <<Nodes[n].op, [i \in DOMAIN Nodes[n].in |-> Denotation[Nodes[n].in[i]]]>>

Returning == pc = "collect" /\ arg > Len(Outputs)

\* Whatever was cached, refused, transient or failed in earlier runs, a run
\* returns the values the graph denotes on the tensors passed to it, each
\* once, in markOutput order (scheduler.h:296).
ResultsCorrect ==
  Returning => results = [i \in DOMAIN Outputs |-> Denotation[Outputs[i]]]

\* Scheduler.h:296, "Output tensors (CPU, in markOutput order)": one per output.
OneResultPerOutput == Returning => Len(results) = Len(Outputs)

\* An operator finds all its inputs on its own device, and the copies it got
\* from the cache are still there when it runs, though later inputs of the
\* same node went through the cache after them.
InputsInPlace ==
  pc = "run" => \A i \in DOMAIN ins :
    /\ ins[i].at = "cache" => ins[i].id \in DOMAIN entries
    /\ DeviceOf(ins[i]) = Target

\* The decision for a node counts a weight as sent to the device already if the
\* cache would take it (scheduler.cpp:378-385).  acquire() decides again, one input
\* after another: whatever it erased or uploaded for the inputs before, it keeps
\* every promise, if there is room for all that were made to the node.
PromisesKept == pc = "transient" => RawIns[arg].slot \notin promised

\* What makes PromisesKept inductive: the copies still owed to the node fit, and
\* nothing else it may ask the cache for can take their room.
PromisesFit ==
  pc \in {"transfer", "transient"} /\ promised # {} =>
    /\ RoomFor(promised)
    /\ \A s \in promised : s \in Slots /\ IsCacheable(tensors[s])
    /\ \A i \in DOMAIN RawIns :
         LET t == tensors[RawIns[i].slot] IN
         FromCache(RawIns[i]) /\ RawIns[i].slot \notin promised =>
           t.id \in DOMAIN entries \/ resident + t.bytes > budget

\* What makes InputsInPlace inductive: an input got from the cache is the
\* valid copy of a tensor of the caller, so that asking for that tensor again
\* is a hit, and asking for any other touches another entry.
Held(r) ==
  \/ /\ r.at = "cache" /\ Target = "CUDA"
     /\ \E s \in Slots : tensors[s].id = r.id /\ Valid(tensors[s])
  \/ r.at = "host" /\ DeviceOf(r) = Target
  \/ r.at = "owned" /\ r.k \in DOMAIN owned /\ DeviceOf(r) = Target

InputsHeld == pc \in InNode => \A i \in DOMAIN ins : Held(ins[i])

\* MemoryStats, which the VRAM check relies on, is the device bytes held by
\* the cache and by the run at every point, failures included; after a reset
\* it may report less, never more.
CudaAccounted ==
  /\ ~reset => cuda = resident + OwnedCuda
  /\ cuda <= resident + OwnedCuda

\* During a run the cache holds copies only of frozen tensors passed to it,
\* and nothing at all when it is disabled (weight_cache comment at
\* scheduler.cpp:309-312 and scheduler.h:310-311).
OnlyLiveWeights ==
  /\ pc # "idle" => \A id \in DOMAIN entries :
       \E i \in DOMAIN passed :
         IsCacheable(tensors[passed[i]]) /\ tensors[passed[i]].id = id
  /\ ~cacheOn => DOMAIN entries = {}

\* Scheduler.cpp:370-375: the placement decision is identical on the first
\* run and on warm runs.
PlacementStable == repeat /\ Returning => schedule = before

\* What the values of f take together.
SizeOf(f) == MapThenSumSet(LAMBDA i : f[i], DOMAIN f)

\* Room on the device for every value of the graph beside the inputs of any one
\* node, and in the cache for every input beside the stale copy of every input.
AmpleRoom ==
  /\ budget >= 2 * SizeOf([v \in 1 .. NumInputs |-> Elems[v]])
  /\ \A n \in DOMAIN Nodes :
       vram >= SizeOf(Elems) + SizeOf([i \in DOMAIN Nodes[n].in |-> Elems[Nodes[n].in[i]]])

\* What holds of that promise: with ample room the first run, the warm runs
\* and the run after a weight was frozen anew are placed alike.
PlacementStableIfRoom == AmpleRoom => PlacementStable

\* A frozen input "is uploaded to the GPU once and kept resident" (scheduler.h:
\* 262): with ample room a run that repeats the last one, new activations aside,
\* uploads no weight.  Without it a repetition may: the copy that was in the way
\* of another weight is gone since.
RepeatUploadsNothing ==
  [][AmpleRoom /\ repeat' /\ repeat => stats'.misses = stats.misses]_graphVars

\* Scheduler.h:133-134: the scheduler will not schedule on GPU if doing so
\* would exceed the VRAM budget.
VramWithinBudget == cuda <= vram

\* Every call of execute() ends: it returns or throws.
RunsEnd == pc # "idle" ~> pc = "idle"
=============================================================================
