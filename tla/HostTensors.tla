--------------------------- MODULE HostTensors ---------------------------
(***************************************************************************)
(* The Tensor objects of a ForgeRT program (include/forgert/tensor/        *)
(* tensor.h): identity, ownership, the freeze epoch, and every operation   *)
(* that changes them.  A slot is one C++ variable of type Tensor; a moved  *)
(* from, destroyed or not yet constructed variable holds NoTensor.         *)
(*                                                                         *)
(* Contents stand for the bytes of a buffer.  Identity travels with the    *)
(* buffer, so what a slot holds is one record.                             *)
(***************************************************************************)
EXTENDS Integers

CONSTANTS
  Slots,       \* variables of type Tensor in the program
  Contents,    \* what a buffer can hold
  Sizes,       \* the numBytes() a tensor can have
  Devices,     \* devices tensors are constructed on: subset of {"CPU", "CUDA"}
  Escapes,     \* TRUE: a raw pointer taken before freeze() may be written through
  MaxId        \* bound: the counter of Tensor::nextId() never passes it

ASSUME HostTensorsAssumption ==
  /\ Contents # {}
  /\ Sizes \subseteq Nat
  /\ Devices \subseteq {"CPU", "CUDA"}
  /\ Escapes \in BOOLEAN
  /\ MaxId \in Nat

VARIABLES
  tensors,     \* slot -> the tensor it holds
  nextId       \* value the shared id and generation counter returns next

hostVars == <<tensors, nextId>>

None == "none"

Tensor == [id : Nat \ {0}, gen : Nat, owns : BOOLEAN, device : {"CPU", "CUDA"},
           bytes : Nat, val : Contents]

NoTensor == [id |-> 0, gen |-> 0, owns |-> FALSE, device |-> "CPU",
             bytes |-> 0, val |-> None]

Live(s) == tensors[s].id # 0

HostTypeOK ==
  /\ tensors \in [Slots -> Tensor \cup {NoTensor}]
  /\ nextId \in Nat \ {0}

HostInit ==
  /\ tensors = [s \in Slots |-> NoTensor]
  /\ nextId = 1

\* n values drawn from the counter: ids and generations share it.
NextIds(n) ==
  /\ nextId + n <= MaxId + 1
  /\ nextId' = nextId + n

-----------------------------------------------------------------------------
\* The owning constructor.  The memory is whatever malloc returned.
Construct(s) ==
  /\ ~Live(s)
  /\ NextIds(1)
  /\ \E d \in Devices, b \in Sizes, v \in Contents :
       tensors' = [tensors EXCEPT ![s] =
         [id |-> nextId, gen |-> 0, owns |-> TRUE, device |-> d, bytes |-> b, val |-> v]]

\* A constructor whose allocation throws spends its id and builds nothing; so
\* does, seen from the slots, a tensor constructed anywhere else.
ConstructElsewhere ==
  /\ NextIds(1)
  /\ UNCHANGED tensors

\* The non-owning constructor over memory the caller keeps.
Wrap(s) ==
  /\ ~Live(s)
  /\ NextIds(1)
  /\ \E d \in Devices, b \in Sizes, v \in Contents :
       tensors' = [tensors EXCEPT ![s] =
         [id |-> nextId, gen |-> 0, owns |-> FALSE, device |-> d, bytes |-> b, val |-> v]]

\* Mutable data(), zero(), fill() and copyTo() into the tensor: all refuse a
\* frozen tensor.
Write(s) ==
  /\ Live(s)
  /\ tensors[s].gen = 0
  /\ \E v \in Contents : tensors' = [tensors EXCEPT ![s].val = v]
  /\ UNCHANGED nextId

\* A write that does not pass through the tensor: by the owner of wrapped
\* memory at any time, or (Escapes) through a pointer kept from before freeze().
WriteBehind(s) ==
  /\ Live(s)
  /\ ~tensors[s].owns \/ Escapes
  /\ \E v \in Contents : tensors' = [tensors EXCEPT ![s].val = v]
  /\ UNCHANGED nextId

\* Mutant: memory the tensor does not own is frozen too.
FreezeUnowned(s) ==
  /\ Live(s)
  /\ tensors[s].gen = 0
  /\ NextIds(1)
  /\ tensors' = [tensors EXCEPT ![s].gen = nextId]

\* freeze() opens a new epoch; it is idempotent and only for owning tensors.
Freeze(s) ==
  /\ Live(s)
  /\ tensors[s].gen = 0
  /\ tensors[s].owns
  /\ NextIds(1)
  /\ tensors' = [tensors EXCEPT ![s].gen = nextId]

\* Mutant: the epoch survives unfreeze(), only writing is allowed again.
UnfreezeNothing(s) ==
  /\ tensors[s].gen # 0
  /\ \E v \in Contents : tensors' = [tensors EXCEPT ![s].val = v]
  /\ UNCHANGED nextId

Unfreeze(s) ==
  /\ tensors[s].gen # 0
  /\ tensors' = [tensors EXCEPT ![s].gen = 0]
  /\ UNCHANGED nextId

\* Mutant: the source of a move keeps its id and epoch.
MoveKeepsIdentity(s, t) ==
  /\ s # t
  /\ Live(s)
  /\ tensors' = [tensors EXCEPT ![t] = tensors[s]]
  /\ UNCHANGED nextId

\* Move construction (t empty) and move assignment (t's buffer is released):
\* id and epoch go with the buffer, the source keeps neither.
Move(s, t) ==
  /\ s # t
  /\ Live(s)
  /\ tensors' = [tensors EXCEPT ![t] = tensors[s], ![s] = NoTensor]
  /\ UNCHANGED nextId

Destroy(s) ==
  /\ Live(s)
  /\ tensors' = [tensors EXCEPT ![s] = NoTensor]
  /\ UNCHANGED nextId

HostStep(s) ==
  \/ Construct(s)
  \/ ConstructElsewhere
  \/ Wrap(s)
  \/ Write(s)
  \/ WriteBehind(s)
  \/ Freeze(s)
  \/ Unfreeze(s)
  \/ \E t \in Slots : Move(s, t)
  \/ Destroy(s)

-----------------------------------------------------------------------------
\* DeviceWeightCache::isCacheable: frozen and in host memory.
IsCacheable(t) == t.gen # 0 /\ t.device = "CPU"
=============================================================================
