----------------------------- MODULE CudaDevice -----------------------------
(***************************************************************************)
(* One call of Operator::execute() on either backend.                      *)
(*                                                                         *)
(* On CUDA the host runs the steps of a launcher (forgert_*_cuda) while    *)
(* the device works through the launches queued so far, in order.  Threads *)
(* of a block run in any interleaving; what a thread reads and what it     *)
(* stores in one segment are separate steps.  Blocks of a launch run one   *)
(* after the other in any order: as long as RaceFree holds across blocks,  *)
(* an interleaving of them could not be told apart.                        *)
(*                                                                         *)
(* A launch that fails does nothing.  cudaDeviceSynchronize() and          *)
(* cudaFree() wait for the device.                                         *)
(***************************************************************************)
EXTENDS CudaKernels

CONSTANTS
  Operations,  \* the calls: operator, inputs, shape of the output, backend
  None         \* no launch, no block, no outcome yet

ASSUME NoneAssumption == None \notin {"refused", "failing", "done", "failed"}

VARIABLES
  call,      \* the call
  outcome,   \* None, "failing" while the launcher cleans up, or how the call
             \* ended: "refused", "done" or "failed"
  result,    \* the output as the CPU stores it
  host,      \* the launcher step that comes next or has failed
  live,      \* temporaries of the launcher that are allocated
  queue,     \* launches the device has not begun
  launch,    \* the launch that runs
  todo,      \* its blocks that have not begun
  block,     \* the block that runs
  at,        \* the segment of each thread
  stage,     \* "read", "store" or "wait" in that segment
  reg,       \* its register
  pending,   \* what it is about to store
  mem,       \* device memory and the shared memory of the block
  touched    \* the accesses no barrier has put behind: thread, cell, mode

hostVars == <<call, outcome, result, host, live>>
threadVars == <<at, stage, reg, pending, mem, touched>>
deviceVars == <<queue, launch, todo, block, threadVars>>
vars == <<hostVars, deviceVars>>

-----------------------------------------------------------------------------
(* Launchers *)

Malloc(t) == [do |-> "malloc", what |-> t]
Launch(k) == [do |-> "launch", what |-> k]
Synchronize == [do |-> "sync", what |-> None]
Free(t) == [do |-> "free", what |-> t]

\* A launcher that launches one kernel and waits for it.
Alone(k) == <<Launch(k), Synchronize>>

\* Whether an Add is launched elementwise: all element counts agree.
SameCounts(c) ==
  \A i \in {1, 2} : Elements(c.in[i].shape) = Elements(c.out)

AddSteps(c) ==
  IF Elements(c.out) = 0 THEN <<>>
  ELSE Alone(IF SameCounts(c) THEN "add_elementwise" ELSE "add_broadcast")

ReLUSteps(c) == IF Elements(c.in[1].shape) = 0 THEN <<>> ELSE Alone("relu")

MatMulSteps(c) == IF 0 \in {Dims(c, "matmul")[i] : i \in 1 .. 3} THEN <<>> ELSE Alone("matmul")

LayerNormSteps(c) ==
  IF Inner(c.in[1]) = 0 \/ Outer(c.in[1]) = 0 THEN <<>> ELSE Alone("layernorm")

SoftmaxSteps(c) ==
  IF Inner(c.in[1]) = 0 \/ Outer(c.in[1]) = 0 THEN <<>>
  ELSE <<Malloc("max"), Malloc("sum"), Launch("find_max"), Launch("exp_sum"), Launch("normalize"),
         Synchronize, Free("max"), Free("sum")>>

ConvSteps(c) ==
  IF Len(c.in) = 3
  THEN <<Malloc("col"), Launch("im2col"), Launch("sgemm"), Launch("add_bias"), Synchronize, Free("col")>>
  ELSE <<Malloc("col"), Launch("im2col"), Launch("sgemm"), Synchronize, Free("col")>>

\* What the launcher of a call does when nothing fails.
Steps(c) ==
  CASE c.op.name = "Add" -> AddSteps(c)
    [] c.op.name = "ReLU" -> ReLUSteps(c)
    [] c.op.name = "MatMul" -> MatMulSteps(c)
    [] c.op.name = "LayerNorm" -> LayerNormSteps(c)
    [] c.op.name = "Softmax" -> SoftmaxSteps(c)
    [] c.op.name = "Conv2D" -> ConvSteps(c)
    [] OTHER -> <<>>

\* Mutant: the path for a failed second allocation forgets the first.
ReleasedLeaking(c, i) ==
  CASE c.op.name = "Softmax" -> IF i <= 2 THEN {} ELSE {"max", "sum"}
    [] c.op.name = "Conv2D" -> IF i = 1 THEN {} ELSE {"col"}
    [] OTHER -> {}

\* The temporaries that the error path of step i frees.
Released(c, i) ==
  CASE c.op.name = "Softmax" -> IF i = 1 THEN {} ELSE IF i = 2 THEN {"max"} ELSE {"max", "sum"}
    [] c.op.name = "Conv2D" -> IF i = 1 THEN {} ELSE {"col"}
    [] OTHER -> {}

\* The temporaries a kernel works on.
Temporaries(k) ==
  CASE k = "find_max" -> {"max"}
    [] k = "exp_sum" -> {"max", "sum"}
    [] k = "normalize" -> {"sum"}
    [] k \in {"im2col", "sgemm"} -> {"col"}
    [] OTHER -> {}

-----------------------------------------------------------------------------
(* Host *)

Supports(op, backend) ==
  backend = "CPU" \/ op.name \in {"Add", "MatMul", "ReLU", "Softmax", "LayerNorm", "Conv2D"}

\* execute() wants a backend of the operator, inputs that fit and an output
\* of as many elements as expected; Reshape wants the very shape.
Accepted(c) ==
  LET expected == InferOutputShape(c.op, [i \in DOMAIN c.in |-> c.in[i].shape]) IN
  /\ Supports(c.op, c.backend)
  /\ expected # Throws
  /\ Elements(c.out) = Elements(expected)
  /\ c.op.name = "Reshape" => c.out = expected

OnDevice == {c \in Operations : c.backend = "CUDA" /\ Accepted(c)}

\* The kernels of a call.
Launched(c) ==
  {Steps(c)[i].what : i \in {j \in DOMAIN Steps(c) : Steps(c)[j].do = "launch"}}

ASSUME CallsAssumption ==
  \A c \in OnDevice : \A k \in Launched(c) :
    /\ k \in Elementwise => Count(c, k) \in Nat
    /\ k \in Products => Dims(c, k) \in Nat \X Nat \X Nat
    /\ k \in Rowwise => Inner(c.in[1]) \in Nat /\ Outer(c.in[1]) \in Nat

Quiet ==
  /\ queue = <<>> /\ launch = None
  /\ todo = {} /\ block = None
  /\ at = <<>> /\ stage = <<>> /\ reg = <<>> /\ pending = <<>>
  /\ mem = <<>> /\ touched = {}

Init ==
  /\ call \in Operations
  /\ outcome = None /\ result = <<>> /\ host = 1 /\ live = {}
  /\ Quiet

Idle == queue = <<>> /\ launch = None
Running == outcome = None /\ Accepted(call)
NextStep == Steps(call)[host]
OnCuda == Running /\ call.backend = "CUDA"
AtStep(do) == OnCuda /\ host \in DOMAIN Steps(call) /\ NextStep.do = do

Refuse ==
  /\ outcome = None /\ ~ Accepted(call)
  /\ outcome' = "refused"
  /\ UNCHANGED <<call, result, host, live, deviceVars>>

ExecuteOnCpu ==
  /\ Running /\ call.backend = "CPU"
  /\ result' = ExecuteCpu(call.op, call.in, call.out)
  /\ outcome' = "done"
  /\ UNCHANGED <<call, host, live, deviceVars>>

\* forgert_add_cuda() refuses a rank above MAX_DIMS.
TooManyDims ==
  /\ OnCuda /\ host = 1 /\ call.op.name = "Add" /\ Elements(call.out) # 0
  /\ Len(call.out) > MaxDims
  /\ outcome' = "failed"
  /\ UNCHANGED <<call, result, host, live, deviceVars>>

Allocate ==
  /\ AtStep("malloc")
  /\ live' = live \cup {NextStep.what} /\ host' = host + 1
  /\ UNCHANGED <<call, outcome, result, deviceVars>>

\* A launch with an empty grid is refused.
Enqueue ==
  /\ AtStep("launch") /\ Blocks(call, NextStep.what) # {}
  /\ call.op.name = "Add" => Len(call.out) <= MaxDims
  /\ queue' = Append(queue, NextStep.what) /\ host' = host + 1
  /\ UNCHANGED <<call, outcome, result, live, launch, todo, block, threadVars>>

Synchronized ==
  /\ AtStep("sync") /\ Idle
  /\ host' = host + 1
  /\ UNCHANGED <<call, outcome, result, live, deviceVars>>

Deallocate ==
  /\ AtStep("free") /\ Idle
  /\ live' = live \ {NextStep.what} /\ host' = host + 1
  /\ UNCHANGED <<call, outcome, result, deviceVars>>

\* An allocation or launch is refused, or the synchronisation reports an error.
StepFails ==
  /\ \/ AtStep("malloc")
     \/ AtStep("launch")
     \/ AtStep("sync") /\ Idle
  /\ outcome' = "failing"
  /\ UNCHANGED <<call, result, host, live, deviceVars>>

\* The error path of that step; execute() then throws.
CleanUp ==
  /\ outcome = "failing"
  /\ Released(call, host) = {} \/ Idle
  /\ live' = live \ Released(call, host) /\ outcome' = "failed"
  /\ UNCHANGED <<call, result, host, deviceVars>>

Return ==
  /\ OnCuda /\ host = Len(Steps(call)) + 1
  /\ outcome' = "done"
  /\ UNCHANGED <<call, result, host, live, deviceVars>>

HostNext ==
  \/ Refuse \/ ExecuteOnCpu \/ TooManyDims
  \/ Allocate \/ Enqueue \/ Synchronized \/ Deallocate \/ StepFails \/ CleanUp \/ Return

-----------------------------------------------------------------------------
(* Device *)

\* The next launch begins.
Begin ==
  /\ launch = None /\ queue # <<>>
  /\ launch' = Head(queue) /\ queue' = Tail(queue)
  /\ todo' = Blocks(call, Head(queue))
  /\ UNCHANGED <<hostVars, block, threadVars>>

BeginBlock ==
  /\ launch # None /\ block = None
  /\ \E b \in todo : block' = b /\ todo' = todo \ {b}
  /\ at' = [t \in Threads(launch) |->
              IF Returns(call, launch, block', t) THEN Segments(call, launch) ELSE 0]
  /\ stage' = [t \in Threads(launch) |-> "read"]
  /\ reg' = [t \in Threads(launch) |-> 0]
  /\ pending' = [t \in Threads(launch) |-> <<>>]
  /\ UNCHANGED <<hostVars, queue, launch, mem, touched>>

Accesses(t, cells, mode) ==
  {[by |-> <<block, t>>, cell |-> x, mode |-> mode] : x \in cells}

\* Mutant: a thread runs on past its last segment.
ActiveBeyond(t, g) ==
  block # None /\ t \in Threads(launch) /\ stage[t] = g

\* Thread t of the block is in stage g of a segment.
Active(t, g) ==
  block # None /\ t \in Threads(launch) /\ stage[t] = g /\ at[t] < Segments(call, launch)

ReadStep(t) ==
  /\ Active(t, "read")
  /\ pending' = [pending EXCEPT ![t] =
       [x \in Writes(call, launch, block, t, at[t]) |->
          Value(call, launch, block, t, at[t], reg[t], mem, x)]]
  /\ reg' = [reg EXCEPT ![t] = Register(launch, t, at[t], @, mem)]
  /\ touched' = touched \cup Accesses(t, Reads(call, launch, block, t, at[t]), "read")
  /\ stage' = [stage EXCEPT ![t] = "store"]
  /\ UNCHANGED <<hostVars, queue, launch, todo, block, at, mem>>

\* Then the thread waits at the barrier, or goes on if there is none.
StoreStep(t) ==
  /\ Active(t, "store")
  /\ mem' = [x \in DOMAIN pending[t] \cup DOMAIN mem |->
               IF x \in DOMAIN pending[t] THEN pending[t][x] ELSE mem[x]]
  /\ touched' = touched \cup Accesses(t, DOMAIN pending[t], "write")
  /\ pending' = [pending EXCEPT ![t] = <<>>]
  /\ IF Syncs(call, launch, at[t])
     THEN stage' = [stage EXCEPT ![t] = "wait"] /\ UNCHANGED at
     ELSE stage' = [stage EXCEPT ![t] = "read"] /\ at' = [at EXCEPT ![t] = @ + 1]
  /\ UNCHANGED <<hostVars, queue, launch, todo, block, reg>>

\* What is in device memory, and the accesses to it.
DeviceOnly(m) == [x \in {y \in DOMAIN m : ~ Shared(y)} |-> m[x]]
DeviceAccesses == {a \in touched : ~ Shared(a.cell)}

\* __syncthreads(): all threads of the block have arrived.
Barrier ==
  /\ block # None /\ \A t \in Threads(launch) : stage[t] = "wait"
  /\ at' = [t \in Threads(launch) |-> at[t] + 1]
  /\ stage' = [t \in Threads(launch) |-> "read"]
  /\ touched' = DeviceAccesses
  /\ UNCHANGED <<hostVars, queue, launch, todo, block, reg, pending, mem>>

EndBlock ==
  /\ block # None /\ \A t \in Threads(launch) : at[t] = Segments(call, launch)
  /\ block' = None /\ at' = <<>> /\ stage' = <<>> /\ reg' = <<>> /\ pending' = <<>>
  /\ mem' = DeviceOnly(mem) /\ touched' = DeviceAccesses
  /\ UNCHANGED <<hostVars, queue, launch, todo>>

End ==
  /\ launch # None /\ block = None /\ todo = {}
  /\ launch' = None /\ touched' = {}
  /\ UNCHANGED <<hostVars, queue, todo, block, at, stage, reg, pending, mem>>

DeviceNext ==
  \/ Begin \/ BeginBlock \/ Barrier \/ EndBlock \/ End
  \/ launch # None /\ \E t \in Threads(launch) : ReadStep(t) \/ StoreStep(t)

Next == HostNext \/ DeviceNext

Spec == Init /\ [][Next]_vars /\ WF_vars(HostNext) /\ WF_vars(DeviceNext)

-----------------------------------------------------------------------------
(* Properties *)

TypeOK ==
  /\ call \in Operations
  /\ outcome \in {None, "refused", "failing", "done", "failed"}
  /\ host \in 1 .. Len(Steps(call)) + 1
  /\ live \subseteq {"max", "sum", "col"}
  /\ queue \in Seq(Kernels)
  /\ launch \in Kernels \cup {None}
  /\ block # None =>
       /\ launch # None
       /\ \A t \in Threads(launch) :
            /\ at[t] \in 0 .. Segments(call, launch)
            /\ stage[t] \in {"read", "store", "wait"}

\* Of two threads of a launch, none stores to a cell that the other reads or
\* stores to, unless a barrier of their block stands between: the shared
\* arrays of the reductions and tiles are reused under barriers, and blocks
\* store to different elements of the output.
RaceFree ==
  \A a, b \in touched : a.cell = b.cell /\ a.by # b.by => a.mode = "read" /\ b.mode = "read"

\* The output of a call.
Output ==
  IF call.backend = "CPU" THEN result
  ELSE [i \in Below(Elements(call.out)) |-> Held(mem, <<"out", i>>)]

\* A call that returns has computed what the operator means, on either
\* backend, whatever the sizes leave over in the last block, tile or warp.
ResultsRight == outcome = "done" => Means(call.op, call.in, call.out, Output)

\* The launches that are queued or running.
Submitted == ({launch} \cup {queue[i] : i \in DOMAIN queue}) \ {None}

\* Every launch that is queued or running finds its temporaries allocated,
\* and whichever step fails, none is left when execute() returns or throws.
TemporariesHeld ==
  /\ \A k \in Submitted : Temporaries(k) \subseteq live
  /\ outcome \in {"refused", "done", "failed"} => live = {}

\* Every call returns or throws: no thread waits at a barrier for ever.
CallsEnd == <>(outcome \in {"refused", "done", "failed"})
=============================================================================
