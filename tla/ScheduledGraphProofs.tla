----------------------- MODULE ScheduledGraphProofs -----------------------
(***************************************************************************)
(* Theorems about ScheduledGraph, for every graph, cost table, set of      *)
(* tensors and budget.                                                     *)
(***************************************************************************)
EXTENDS ScheduledGraph, WeightCacheProofs

\* What Append does to a sequence of anything.
LEMMA AppendTo ==
  ASSUME NEW s, SequenceOf(s), NEW x
  PROVE  /\ SequenceOf(Append(s, x))
         /\ DOMAIN s = 1 .. Len(s)
         /\ Len(s) \in Nat
         /\ DOMAIN Append(s, x) = 1 .. Len(s) + 1
         /\ Len(Append(s, x)) = Len(s) + 1
         /\ \A i \in DOMAIN s : Append(s, x)[i] = s[i]
         /\ Append(s, x)[Len(s) + 1] = x
<1> DEFINE S == {s[i] : i \in DOMAIN s} \cup {x}
<1>1. s \in Seq(S) /\ x \in S
  BY DEF SequenceOf
<1>2. /\ Append(s, x) \in Seq(S)
      /\ DOMAIN s = 1 .. Len(s)
      /\ Len(s) \in Nat
      /\ DOMAIN Append(s, x) = 1 .. Len(s) + 1
      /\ Len(Append(s, x)) = Len(s) + 1
      /\ \A i \in DOMAIN s : Append(s, x)[i] = s[i]
      /\ Append(s, x)[Len(s) + 1] = x
  BY <1>1
<1>3. Append(s, x) \in Seq({Append(s, x)[i] : i \in DOMAIN Append(s, x)})
  BY <1>2
<1> QED BY <1>2, <1>3 DEF SequenceOf

\* A function on the indices of a sequence is a sequence; EXCEPT gives one.
LEMMA ExceptSequence ==
  ASSUME NEW s, SequenceOf(s), NEW t, t = [i \in DOMAIN s |-> t[i]]
  PROVE  SequenceOf(t) /\ DOMAIN t = DOMAIN s
<1>1. DOMAIN s = 1 .. Len(s) /\ Len(s) \in Nat
  BY DEF SequenceOf
<1>2. DOMAIN t = 1 .. Len(s)
  BY <1>1
<1>3. \A i \in 1 .. Len(s) : t[i] \in {t[j] : j \in DOMAIN t}
  BY <1>2
<1>4. t \in Seq({t[j] : j \in DOMAIN t})
  BY <1>1, <1>2, <1>3
<1> QED BY <1>1, <1>2, <1>4 DEF SequenceOf

\* The nodes are a sequence of records whose inputs are sequences of values.
LEMMA GraphShape ==
  /\ Len(Nodes) \in Nat \ {0}
  /\ DOMAIN Nodes = 1 .. Len(Nodes)
  /\ \A k \in DOMAIN Nodes :
       /\ Nodes[k].in \in Seq(DOMAIN Elems)
       /\ Nodes[k].out \in DOMAIN Elems
<1> DEFINE R == [op : DOMAIN Profiles, in : Seq(DOMAIN Elems), out : DOMAIN Elems]
<1>1. Nodes \in Seq(R) /\ Nodes # <<>>
  BY ScheduledGraphAssumption
<1> HIDE DEF R
<1>2. /\ Len(Nodes) \in Nat \ {0}
      /\ DOMAIN Nodes = 1 .. Len(Nodes)
      /\ \A k \in DOMAIN Nodes : Nodes[k] \in R
  BY <1>1
<1> QED BY <1>2 DEF R

\* The input in hand is an argument of the run or a tensor the run owns.
LEMMA InputInHand ==
  ASSUME GraphTypeOK, pc \in {"transfer", "transient"}
  PROVE  /\ arg \in DOMAIN Node.in
         /\ RawIns[arg] = storage[Node.in[arg]]
         /\ \/ \E i \in DOMAIN passed :
                 passed[i] \in Slots /\ RawIns[arg] = Host(passed[i])
            \/ \E k \in DOMAIN owned : RawIns[arg] = Owned(k)
<1>1. /\ pc # "idle"
      /\ arg \in DOMAIN Node.in
      /\ at \in DOMAIN Nodes
      /\ passed \in Callings /\ Len(passed) = NumInputs
  BY DEF GraphTypeOK, InNode
<1>2. RawIns[arg] = storage[Node.in[arg]]
  BY <1>1 DEF RawIns
<1>3. \/ Node.in[arg] \in 1 .. NumInputs
      \/ \E k \in 1 .. at - 1 : Node.in[arg] = Nodes[k].out
  BY <1>1, ScheduledGraphAssumption DEF Node
<1>4. Node.in[arg] \in DOMAIN storage
  BY <1>1, <1>3 DEF GraphTypeOK
<1>5. \A i \in DOMAIN passed : passed[i] \in Slots
  BY <1>1, ScheduledGraphAssumption
<1>6. \/ \E i \in DOMAIN passed : storage[Node.in[arg]] = Host(passed[i])
      \/ \E k \in DOMAIN owned : storage[Node.in[arg]] = Owned(k)
  BY <1>1, <1>4 DEF GraphTypeOK
<1> QED
  BY <1>1, <1>2, <1>5, <1>6

\* Hence what goes through acquire() is a variable of the caller.
LEMMA CacheInputIsSlot ==
  ASSUME GraphTypeOK, pc = "transfer", FromCache(RawIns[arg])
  PROVE  \E i \in DOMAIN passed :
           /\ passed[i] \in Slots
           /\ RawIns[arg] = Host(passed[i])
           /\ RawIns[arg].slot = passed[i]
<1>1. RawIns[arg].at = "host"
  BY DEF FromCache
<1>2. \/ \E i \in DOMAIN passed :
           passed[i] \in Slots /\ RawIns[arg] = Host(passed[i])
      \/ \E k \in DOMAIN owned : RawIns[arg] = Owned(k)
  BY InputInHand
<1>3. \A k : Owned(k).at = "owned"
  BY DEF Owned
<1>4. \A t : Host(t).slot = t
  BY DEF Host
<1> QED BY <1>1, <1>2, <1>3, <1>4

\* Every tensor a run builds for itself is a step of the program around the
\* cache.
LEMMA ElsewhereIsHostStep ==
  ASSUME ConstructElsewhere, UNCHANGED cacheVars
  PROVE  Next
<1>1. PICK s \in Slots : TRUE
  BY InitialTensorsAssumption
<1>2. HostStep(s)
  BY DEF HostStep
<1> QED BY <1>1, <1>2 DEF Next

\* One step of a run or of its caller is, to the tensors and to the cache, an
\* operation of theirs, so what is proved of the cache holds of it here.
LEMMA GraphStepUsesCache ==
  ASSUME GraphTypeOK, [GraphNext]_graphVars
  PROVE  [Next]_vars
<1>1. ASSUME NEW p \in Callings, Begin(p) PROVE [Next]_vars
  <2>1. {p[i] : i \in DOMAIN p} \in SUBSET Slots
    BY ScheduledGraphAssumption
  <2>2. CASE cacheOn
    BY <1>1, <2>1, <2>2 DEF Begin, Sweep, Next
  <2>3. CASE ~cacheOn
    BY <1>1, <2>3 DEF Begin, Sweep
  <2> QED BY <2>2, <2>3
<1>2. ASSUME NEW p \in Callings, BeginRejected(p) PROVE [Next]_vars
  BY <1>2 DEF BeginRejected
<1>3. CASE Place \/ RunNode \/ RunThrows \/ MoveOutput \/ Return
  BY <1>3 DEF Place, RunNode, RunThrows, MoveOutput, Return
<1>4. CASE TakeCached
  <2>1. PICK s \in Slots : RawIns[arg].slot = s
    BY <1>4, CacheInputIsSlot DEF TakeCached
  <2>2. Acquire(s)
    BY <1>4, <2>1 DEF TakeCached, Acquire
  <2> QED BY <2>2 DEF Next
<1>5. CASE CacheRefuses
  <2>1. PICK s \in Slots : RawIns[arg].slot = s
    BY <1>5, CacheInputIsSlot DEF CacheRefuses
  <2>2. Acquire(s)
    BY <1>5, <2>1 DEF CacheRefuses, Acquire
  <2> QED BY <2>2 DEF Next
<1>6. CASE CacheThrows
  <2>1. PICK s \in Slots : RawIns[arg].slot = s
    BY <1>6, CacheInputIsSlot DEF CacheThrows
  <2>2. Acquire(s)
    BY <1>6, <2>1 DEF CacheThrows, Acquire
  <2> QED BY <2>2 DEF Next
<1>7. CASE EnsureDevice
  BY <1>7, ElsewhereIsHostStep DEF EnsureDevice, Own
<1>8. CASE EnsureThrows \/ AllocOutput \/ AllocThrows \/ CopyOutput \/ CopyThrows
  BY <1>8, ElsewhereIsHostStep DEF EnsureThrows, AllocOutput, AllocThrows, CopyOutput,
                                   CopyThrows, Own
<1>9. ASSUME NEW s \in Slots, WriteTensor(s) \/ FreezeTensor(s) \/ ReplaceTensor(s)
      PROVE [Next]_vars
  <2>1. HostStep(s) /\ UNCHANGED cacheVars
    BY <1>9 DEF WriteTensor, FreezeTensor, ReplaceTensor, HostStep
  <2> QED BY <2>1 DEF Next
<1>10. CASE Configure
  BY <1>10 DEF Configure, Next
<1>11. CASE \/ SetVramBudgetBytes \/ SetTransferBandwidthBytesPerNs
            \/ SetWeightCacheEnabled \/ ReleaseDeviceWeights \/ ResetStats
  BY <1>11 DEF SetVramBudgetBytes, SetTransferBandwidthBytesPerNs, SetWeightCacheEnabled,
                  ReleaseDeviceWeights, ResetStats, Next
<1>12. CASE UNCHANGED graphVars
  BY <1>12 DEF graphVars
<1> QED
  BY <1>1, <1>2, <1>3, <1>4, <1>5, <1>6, <1>7, <1>8, <1>9, <1>10, <1>11, <1>12
  DEF GraphNext, RunStep, CallerStep

-----------------------------------------------------------------------------
\* A freed run: no tensor is owned, no input is in hand.
LEMMA Idle ==
  ASSUME GraphTypeOK, pc' = "idle", owned' = <<>>, ins' = <<>>, schedule' = schedule
  PROVE  GraphTypeOK'
  BY DEF GraphTypeOK, SequenceOf, InNode

\* Taking an input that is in hand, appended to what the run owns or not.
LEMMA TakeInputType ==
  ASSUME GraphTypeOK, pc \in {"transfer", "transient"}, NEW r, TakeInput(r),
         SequenceOf(owned'), \A k \in DOMAIN owned : k \in DOMAIN owned',
         UNCHANGED <<at, passed, storage, schedule>>
  PROVE  GraphTypeOK'
<1>1. SequenceOf(ins')
  BY AppendTo DEF GraphTypeOK, TakeInput
<1>2. at \in DOMAIN Nodes /\ arg \in DOMAIN Node.in
  BY DEF GraphTypeOK, InNode
<1>3. Node.in \in Seq(DOMAIN Elems)
  BY <1>2, GraphShape DEF Node
<1>4. /\ arg \in Nat
      /\ arg + 1 \in Nat
      /\ arg # Len(Node.in) => arg + 1 \in DOMAIN Node.in
  BY <1>2, <1>3
<1>5. /\ pc' \in {"alloc", "transfer"}
      /\ pc' = "transfer" => arg' \in DOMAIN Node.in
      /\ arg' \in Nat
  BY <1>4 DEF TakeInput
<1>6. /\ passed \in Callings /\ Len(passed) = NumInputs
      /\ at \in Nat \ {0}
      /\ 1 .. NumInputs \subseteq DOMAIN storage
      /\ \A k \in 1 .. at - 1 : k \in DOMAIN Nodes /\ Nodes[k].out \in DOMAIN storage
      /\ \A v \in DOMAIN storage :
           \/ \E i \in DOMAIN passed : storage[v] = Host(passed[i])
           \/ \E k \in DOMAIN owned : storage[v] = Owned(k)
  BY DEF GraphTypeOK
<1>7. schedule \in Seq({"CPU", "CUDA"}) /\ Len(schedule) = at
  BY DEF GraphTypeOK, InNode
<1> QED
  BY <1>1, <1>2, <1>5, <1>6, <1>7 DEF GraphTypeOK, InNode, Node

\* Going on to the next output.
LEMMA NextOutputType ==
  ASSUME GraphTypeOK, pc = "collect", NextOutput,
         SequenceOf(owned'), DOMAIN owned' = DOMAIN owned
  PROVE  GraphTypeOK'
<1>1. \A v \in DOMAIN storage :
         \/ \E i \in DOMAIN passed : storage[v] = Host(passed[i])
         \/ \E k \in DOMAIN owned' : storage[v] = Owned(k)
  BY DEF GraphTypeOK
<1>2. arg + 1 \in Nat \ {0}
  BY DEF GraphTypeOK
<1>3. /\ SequenceOf(ins) /\ schedule \in Seq({"CPU", "CUDA"})
      /\ passed \in Callings /\ Len(passed) = NumInputs
      /\ at \in Nat \ {0}
      /\ 1 .. NumInputs \subseteq DOMAIN storage
      /\ \A k \in 1 .. at - 1 : k \in DOMAIN Nodes /\ Nodes[k].out \in DOMAIN storage
      /\ at = Len(Nodes) + 1
  BY DEF GraphTypeOK
<1> QED
  BY <1>1, <1>2, <1>3 DEF NextOutput, GraphTypeOK, InNode

\* GraphTypeOK, one step.
LEMMA StepGraphTypeOK ==
  ASSUME GraphTypeOK, [GraphNext]_graphVars
  PROVE  GraphTypeOK'
<1>1. ASSUME NEW p \in Callings, Begin(p) PROVE GraphTypeOK'
  <2>1. p \in Seq(Slots) /\ Len(p) = NumInputs /\ DOMAIN p = 1 .. NumInputs
    BY <1>1, ScheduledGraphAssumption DEF Begin
  <2>2. 1 \in DOMAIN Nodes
    BY ScheduledGraphAssumption
  <2>3. DOMAIN storage' = 1 .. NumInputs /\ \A v \in 1 .. NumInputs : storage'[v] = Host(p[v])
    BY <1>1 DEF Begin
  <2> QED
    BY <1>1, <2>1, <2>2, <2>3 DEF Begin, GraphTypeOK, SequenceOf, InNode
<1>2. ASSUME NEW p \in Callings, BeginRejected(p) PROVE GraphTypeOK'
  BY <1>2 DEF BeginRejected, runVars, GraphTypeOK, Node
<1>3. CASE Place
  <2>1. at \in DOMAIN Nodes /\ at \in Nat \ {0} /\ Len(schedule) = at - 1
    BY <1>3 DEF Place, GraphTypeOK
  <2>2. Node.in \in Seq(DOMAIN Elems)
    BY <2>1, GraphShape DEF Node
  <2>3. Node.in # <<>> => 1 \in DOMAIN Node.in
    BY <2>2
  <2>4. schedule' \in Seq({"CPU", "CUDA"}) /\ Len(schedule') = at
    BY <1>3, <2>1 DEF Place, GraphTypeOK, Decide
  <2>5. SequenceOf(ins')
    BY <1>3 DEF Place, SequenceOf
  <2>6. /\ pc' \in {"alloc", "transfer"}
        /\ pc' = "transfer" => arg' \in DOMAIN Node.in
        /\ arg' \in Nat
    BY <1>3, <2>3 DEF Place
  <2>7. /\ SequenceOf(owned)
        /\ passed \in Callings /\ Len(passed) = NumInputs
        /\ 1 .. NumInputs \subseteq DOMAIN storage
        /\ \A k \in 1 .. at - 1 : k \in DOMAIN Nodes /\ Nodes[k].out \in DOMAIN storage
        /\ \A v \in DOMAIN storage :
             \/ \E i \in DOMAIN passed : storage[v] = Host(passed[i])
             \/ \E k \in DOMAIN owned : storage[v] = Owned(k)
    BY <1>3 DEF Place, GraphTypeOK
  <2>8. UNCHANGED <<at, passed, storage, owned>>
    BY <1>3 DEF Place
  <2> QED
    BY <2>1, <2>4, <2>5, <2>6, <2>7, <2>8 DEF GraphTypeOK, InNode, Node
<1>4. CASE TakeCached
  BY <1>4, TakeInputType DEF TakeCached, GraphTypeOK
<1>5. CASE CacheRefuses
  BY <1>5 DEF CacheRefuses, GraphTypeOK, InNode, Node
<1>6. CASE CacheThrows \/ EnsureThrows \/ AllocThrows \/ RunThrows \/ CopyThrows \/ Return
  BY <1>6, Idle DEF CacheThrows, EnsureThrows, AllocThrows, RunThrows, CopyThrows, Return, Unwind
<1>7. CASE EnsureDevice
  <2>1. pc \in {"transfer", "transient"}
    BY <1>7 DEF EnsureDevice, Ensuring
  <2>2. CASE DeviceOf(RawIns[arg]) = Target
    BY <1>7, <2>1, <2>2, TakeInputType DEF EnsureDevice, GraphTypeOK
  <2>3. CASE DeviceOf(RawIns[arg]) # Target
    <3>1. PICK x : owned' = Append(owned, x)
      BY <1>7, <2>3 DEF EnsureDevice, Own
    <3>2. SequenceOf(owned') /\ \A k \in DOMAIN owned : k \in DOMAIN owned'
      BY <3>1, AppendTo DEF GraphTypeOK
    <3> QED
      BY <1>7, <2>1, <2>3, <3>2, TakeInputType DEF EnsureDevice
  <2> QED BY <2>2, <2>3
<1>8. CASE AllocOutput
  <2>1. PICK x : owned' = Append(owned, x)
    BY <1>8 DEF AllocOutput, Own
  <2>2. /\ SequenceOf(owned')
        /\ \A k \in DOMAIN owned : k \in DOMAIN owned'
        /\ Len(owned) + 1 \in DOMAIN owned'
    BY <2>1, AppendTo DEF GraphTypeOK
  <2>3. /\ DOMAIN storage' = DOMAIN storage \cup {Node.out}
        /\ \A v \in DOMAIN storage' :
             storage'[v] = IF v = Node.out THEN Owned(Len(owned) + 1) ELSE storage[v]
    BY <1>8 DEF AllocOutput
  <2>4. \A v \in DOMAIN storage' :
           \/ \E i \in DOMAIN passed : storage'[v] = Host(passed[i])
           \/ \E k \in DOMAIN owned' : storage'[v] = Owned(k)
    BY <1>8, <2>2, <2>3 DEF AllocOutput, GraphTypeOK
  <2> QED
    BY <1>8, <2>2, <2>3, <2>4 DEF AllocOutput, GraphTypeOK, InNode, Node
<1>9. CASE RunNode
  <2>1. /\ at \in DOMAIN Nodes
        /\ Len(schedule) = at
        /\ Nodes[at].out \in DOMAIN storage
    BY <1>9 DEF RunNode, GraphTypeOK, InNode, Node
  <2>2. /\ at + 1 \in Nat \ {0}
        /\ at # Len(Nodes) => at + 1 \in DOMAIN Nodes
        /\ 1 .. at = (1 .. at - 1) \cup {at}
    BY <2>1, GraphShape
  <2>3. SequenceOf(owned') /\ DOMAIN owned' = DOMAIN owned
    <3>1. owned' = [i \in DOMAIN owned |-> owned'[i]]
      BY <1>9 DEF RunNode
    <3>2. SequenceOf(owned)
      BY DEF GraphTypeOK
    <3> QED BY <3>1, <3>2, ExceptSequence
  <2>4. \A k \in 1 .. at' - 1 : k \in DOMAIN Nodes /\ Nodes[k].out \in DOMAIN storage
    <3>1. at' = at + 1 /\ at' - 1 = at
      BY <1>9, <2>2 DEF RunNode, GraphTypeOK
    <3>2. \A k \in 1 .. at - 1 : k \in DOMAIN Nodes /\ Nodes[k].out \in DOMAIN storage
      BY <1>9 DEF RunNode, GraphTypeOK
    <3> QED BY <3>1, <3>2, <2>1, <2>2
  <2>5. \A v \in DOMAIN storage :
           \/ \E i \in DOMAIN passed : storage[v] = Host(passed[i])
           \/ \E k \in DOMAIN owned' : storage[v] = Owned(k)
    BY <1>9, <2>3 DEF RunNode, GraphTypeOK
  <2> QED
    BY <1>9, <2>1, <2>2, <2>3, <2>4, <2>5 DEF RunNode, GraphTypeOK, InNode
<1>10. CASE MoveOutput
  <2>1. SequenceOf(owned') /\ DOMAIN owned' = DOMAIN owned
    <3>1. owned' = [i \in DOMAIN owned |-> owned'[i]] \/ owned' = owned
      BY <1>10 DEF MoveOutput
    <3>2. SequenceOf(owned)
      BY DEF GraphTypeOK
    <3> QED BY <3>1, <3>2, ExceptSequence
  <2> QED
    BY <1>10, <2>1, NextOutputType DEF MoveOutput
<1>11. CASE CopyOutput
  <2>1. SequenceOf(owned') /\ DOMAIN owned' = DOMAIN owned
    BY <1>11 DEF CopyOutput, GraphTypeOK
  <2> QED
    BY <1>11, <2>1, NextOutputType DEF CopyOutput
<1>12. CASE CallerStep
  BY <1>12 DEF CallerStep, WriteTensor, FreezeTensor, ReplaceTensor, Configure,
       SetVramBudgetBytes, SetTransferBandwidthBytesPerNs,
       SetWeightCacheEnabled, ReleaseDeviceWeights, ResetStats,
       Edit, runVars, GraphTypeOK, Node
<1>13. CASE UNCHANGED graphVars
  BY <1>13 DEF graphVars, runVars, GraphTypeOK, Node
<1> QED
  BY <1>1, <1>2, <1>3, <1>4, <1>5, <1>6, <1>7, <1>8, <1>9, <1>10, <1>11, <1>12, <1>13
  DEF GraphNext, RunStep

\* Where a run is and what it has at every point: GraphTypeOK, for every graph.
THEOREM GraphSpecTypeOK == GraphSpec => []GraphTypeOK
<1>1. GraphInit => GraphTypeOK
  BY DEF GraphInit, GraphTypeOK, SequenceOf, InNode
<1>2. GraphTypeOK /\ [GraphNext]_graphVars => GraphTypeOK'
  BY StepGraphTypeOK
<1> QED BY <1>1, <1>2, PTL DEF GraphSpec

-----------------------------------------------------------------------------
\* The tensors the program starts with satisfy the cache's invariants.
LEMMA GraphInitCache == GraphInit => TypeOK /\ CacheInv
<1> SUFFICES ASSUME GraphInit PROVE TypeOK /\ CacheInv
  OBVIOUS
<1> DEFINE n == Cardinality(Slots)
<1>1. /\ n \in Nat
      /\ \A s \in Slots : s \in 1 .. n
  BY InitialTensorsAssumption, FS_CardinalityType
<1> HIDE DEF n
<1>2. \A s \in Slots :
        /\ Initially[s].bytes \in Nat
        /\ Initially[s].frozen \in BOOLEAN
        /\ Initially[s].val \in Contents
  BY InitialTensorsAssumption
<1>3. /\ tensors = [s \in Slots |->
           [id |-> s, gen |-> IF Initially[s].frozen THEN n + s ELSE 0, owns |-> TRUE,
            device |-> "CPU", bytes |-> Initially[s].bytes, val |-> Initially[s].val]]
      /\ nextId = 2 * n + 1
  BY DEF GraphInit, n
<1>4. /\ tensors \in [Slots -> Tensor]
      /\ nextId \in Nat \ {0}
  BY <1>1, <1>2, <1>3 DEF Tensor
<1>5. /\ entries = [id \in {} |-> {}]
      /\ budget \in Budgets
      /\ verify \in VerifyModes
      /\ stats \in [Counter -> Nat]
      /\ answer = NullPtr
  BY DEF GraphInit
<1>6. TypeOK
  BY <1>4, <1>5, FS_EmptySet DEF TypeOK, HostTypeOK
<1>7. IdsDistinct /\ TensorsDrawn /\ FrozenOwned
  BY <1>1, <1>3 DEF IdsDistinct, TensorsDrawn, FrozenOwned
<1>8. CacheInv
  BY <1>5, <1>7 DEF CacheInv, EntriesDrawn, HashesMatch, Coherent, IsResident
<1> QED BY <1>6, <1>8

\* The cache's invariants in every state of every run.
LEMMA GraphCacheInv == GraphSpec => [](GraphTypeOK /\ TypeOK /\ CacheInv)
<1>1. GraphTypeOK /\ TypeOK /\ CacheInv /\ [GraphNext]_graphVars => TypeOK' /\ CacheInv'
  BY GraphStepUsesCache, StepTypeOK, StepCacheInv
<1> QED BY <1>1, GraphInitCache, GraphSpecTypeOK, PTL DEF GraphSpec

\* Coherent, in every state of every run of every graph: as long as nothing is
\* written behind a freeze, what the cache would serve is the tensor's bytes.
THEOREM GraphCoherent ==
  ASSUME Escapes = FALSE
  PROVE  GraphSpec => []Coherent
<1>1. CacheInv => Coherent
  BY DEF CacheInv
<1> QED BY <1>1, GraphCacheInv, PTL

-----------------------------------------------------------------------------
\* acquire() of a tensor of the run may add an entry for that tensor and
\* changes no other but by erasing it.
LEMMA AcquireEntries ==
  ASSUME NEW s \in Slots,
         \/ AcquireHit(s) \/ AcquireUpload(s)
         \/ AcquireOverBudget(s) \/ AcquireThrows(s)
  PROVE  /\ UNCHANGED tensors
         /\ DOMAIN entries' \subseteq DOMAIN entries \cup {tensors[s].id}
BY DEF AcquireHit, AcquireUpload, AcquireOverBudget, AcquireThrows, Without, hostVars

\* OnlyLiveWeights, for every graph: between the sweep and the end of a run
\* the cache holds nothing but weights of that run, and nothing if disabled.
THEOREM GraphOnlyLiveWeights == GraphSpec => []OnlyLiveWeights
<1>1. GraphInit => OnlyLiveWeights
  BY DEF GraphInit, OnlyLiveWeights
<1>2. GraphTypeOK /\ OnlyLiveWeights /\ [GraphNext]_graphVars => OnlyLiveWeights'
  <2> SUFFICES ASSUME GraphTypeOK, OnlyLiveWeights, [GraphNext]_graphVars
               PROVE  OnlyLiveWeights'
    OBVIOUS
  <2>1. ASSUME NEW p \in Callings, Begin(p) PROVE OnlyLiveWeights'
    <3>1. UNCHANGED <<tensors, cacheOn>> /\ passed' = p
      BY <2>1 DEF Begin, Sweep, RetainOnly, hostVars, vars, configVars
    <3>2. CASE cacheOn
      <4>1. \A id \in DOMAIN entries' :
              \E i \in DOMAIN p : IsCacheable(tensors[p[i]]) /\ tensors[p[i]].id = id
        BY <2>1, <3>2 DEF Begin, Sweep, RetainOnly, Without
      <4> QED BY <3>1, <3>2, <4>1 DEF OnlyLiveWeights
    <3>3. CASE ~cacheOn
      <4>1. entries' = entries
        BY <2>1, <3>3 DEF Begin, Sweep, vars, cacheVars
      <4> QED BY <3>1, <3>3, <4>1 DEF OnlyLiveWeights
    <3> QED BY <3>2, <3>3
  <2>2. ASSUME pc # "idle", cacheOn, pc = "transfer", FromCache(RawIns[arg]),
               UNCHANGED <<cacheOn, passed>>,
               LET s == RawIns[arg].slot IN
               \/ AcquireHit(s) \/ AcquireUpload(s)
               \/ AcquireOverBudget(s) \/ AcquireThrows(s)
        PROVE  OnlyLiveWeights'
    <3>1. PICK j \in DOMAIN passed :
            passed[j] \in Slots /\ RawIns[arg].slot = passed[j]
      BY <2>2, CacheInputIsSlot
    <3>2. IsCacheable(tensors[passed[j]])
      BY <2>2, <3>1 DEF FromCache
    <3>3. /\ UNCHANGED tensors
          /\ DOMAIN entries' \subseteq DOMAIN entries \cup {tensors[passed[j]].id}
      BY <2>2, <3>1, AcquireEntries
    <3> QED BY <2>2, <3>1, <3>2, <3>3 DEF OnlyLiveWeights
  <2>3. CASE TakeCached \/ CacheRefuses \/ CacheThrows
    <3>1. /\ pc = "transfer" /\ FromCache(RawIns[arg])
          /\ LET s == RawIns[arg].slot IN
             \/ AcquireHit(s) \/ AcquireUpload(s)
             \/ AcquireOverBudget(s) \/ AcquireThrows(s)
      BY <2>3 DEF TakeCached, CacheRefuses, CacheThrows
    <3>2. UNCHANGED <<cacheOn, passed>>
      BY <2>3 DEF TakeCached, CacheRefuses, CacheThrows, Unwind, configVars
    <3>3. cacheOn
      BY <3>1 DEF FromCache
    <3> QED BY <2>2, <3>1, <3>2, <3>3
  <2>4. ASSUME UNCHANGED <<tensors, entries, cacheOn, passed>>, pc' # "idle" => pc # "idle"
        PROVE  OnlyLiveWeights'
    BY <2>4 DEF OnlyLiveWeights
  <2>5. CASE EnsureDevice
    BY <2>4, <2>5 DEF EnsureDevice, Ensuring, Own, ConstructElsewhere, vars, hostVars,
                      cacheVars, configVars
  <2>6. CASE EnsureThrows \/ AllocOutput \/ AllocThrows \/ CopyOutput \/ CopyThrows
    BY <2>4, <2>6 DEF EnsureThrows, AllocOutput, AllocThrows, CopyOutput, CopyThrows, Own,
                      ConstructElsewhere, NextOutput, Unwind, cacheVars, configVars
  <2>7. CASE Place \/ RunNode \/ RunThrows \/ MoveOutput \/ Return
    BY <2>4, <2>7 DEF Place, RunNode, RunThrows, MoveOutput, Return, NextOutput, Unwind,
                      vars, hostVars, cacheVars, configVars
  <2>8. CASE CallerStep
    <3>1. pc' = "idle"
      BY <2>8 DEF CallerStep, WriteTensor, FreezeTensor, ReplaceTensor, Configure,
         SetVramBudgetBytes, SetTransferBandwidthBytesPerNs,
         SetWeightCacheEnabled, ReleaseDeviceWeights, ResetStats,
         Edit, runVars
    <3>2. CASE SetWeightCacheEnabled \/ ReleaseDeviceWeights
      BY <2>8, <3>1, <3>2 DEF SetWeightCacheEnabled, ReleaseDeviceWeights, Clear, Without,
         OnlyLiveWeights, vars, cacheVars, configVars
    <3>3. CASE ~(SetWeightCacheEnabled \/ ReleaseDeviceWeights)
      <4>1. UNCHANGED <<entries, cacheOn>>
        BY <2>8, <3>3 DEF CallerStep, WriteTensor, FreezeTensor, ReplaceTensor, Configure,
           SetVramBudgetBytes, SetTransferBandwidthBytesPerNs, ResetStats,
           SetBudgetBytes, SetVerifyContent,
           vars, cacheVars, configVars
      <4> QED BY <3>1, <4>1 DEF OnlyLiveWeights
    <3> QED BY <3>2, <3>3
  <2>9. ASSUME NEW p \in Callings, BeginRejected(p) PROVE OnlyLiveWeights'
    BY <2>4, <2>9 DEF BeginRejected, vars, hostVars, cacheVars, configVars, runVars
  <2>10. CASE UNCHANGED graphVars
    BY <2>4, <2>10 DEF graphVars, vars, hostVars, cacheVars, configVars, runVars
  <2> QED
    BY <2>1, <2>3, <2>5, <2>6, <2>7, <2>8, <2>9, <2>10 DEF GraphNext, RunStep
<1> QED BY <1>1, <1>2, GraphSpecTypeOK, PTL DEF GraphSpec

-----------------------------------------------------------------------------
\* What acquire() of one tensor leaves of the valid copies of the others: all
\* of them.  A valid copy of the same tensor would have been a hit.
LEMMA ValidCopiesStay ==
  ASSUME HostTypeOK, IdsDistinct, NEW r \in Slots, NEW s \in Slots, Valid(tensors[s]),
         \/ AcquireHit(r) \/ AcquireUpload(r)
         \/ AcquireOverBudget(r) \/ AcquireThrows(r)
  PROVE  tensors'[s] = tensors[s] /\ Valid(tensors[s])'
<1>1. UNCHANGED <<tensors, verify>>
  BY DEF AcquireHit, AcquireUpload, AcquireOverBudget, AcquireThrows, hostVars
<1>2. tensors[s].id \in DOMAIN entries
  BY DEF Valid, IsResident
<1>3. CASE AcquireHit(r)
  BY <1>1, <1>3 DEF AcquireHit, Valid, IsResident, Tampered
<1>4. CASE ~AcquireHit(r)
  <2>1. IsCacheable(tensors[r]) /\ ~Valid(tensors[r])
    BY <1>4 DEF AcquireUpload, AcquireOverBudget, AcquireThrows
  <2>2. s # r
    BY <2>1
  <2>3. tensors[s].id # tensors[r].id
    <3>1. Live(r)
      BY <2>1, CacheableType DEF Tensor, Live
    <3> QED BY <2>2, <3>1 DEF IdsDistinct
  <2>4. tensors[s].id \in DOMAIN entries' /\ entries'[tensors[s].id] = entries[tensors[s].id]
    BY <1>2, <1>4, <2>3 DEF AcquireUpload, AcquireOverBudget, AcquireThrows, Without
  <2> QED BY <1>1, <2>4 DEF Valid, IsResident, Tampered
<1> QED BY <1>3, <1>4

\* An input of the run that acquire() answers is a valid copy from then on.
LEMMA AnswerValid ==
  ASSUME NEW r \in Slots, AcquireHit(r) \/ AcquireUpload(r)
  PROVE  Valid(tensors[r])'
<1>1. CASE AcquireHit(r)
  BY <1>1 DEF AcquireHit, hostVars, Valid, IsResident, Tampered
<1>2. CASE AcquireUpload(r)
  BY <1>2 DEF AcquireUpload, Valid, IsResident, IsCacheable, Tampered
<1> QED BY <1>1, <1>2

\* Input arg of the node is taken: the inputs so far and the new one are in
\* place if they were.
LEMMA TakeInputHeld ==
  ASSUME GraphTypeOK, pc \in {"transfer", "transient"}, NEW x, TakeInput(x),
         UNCHANGED <<at, schedule>>,
         \A y \in {ins[i] : i \in DOMAIN ins} : Held(y)',
         Held(x)'
  PROVE  InputsHeld'
<1>1. SequenceOf(ins) /\ ins' = Append(ins, x)
  BY DEF GraphTypeOK, TakeInput
<1>2. /\ DOMAIN ins = 1 .. Len(ins)
      /\ DOMAIN ins' = 1 .. Len(ins) + 1
      /\ Len(ins) \in Nat
      /\ \A i \in DOMAIN ins : ins'[i] = ins[i]
      /\ ins'[Len(ins) + 1] = x
  BY <1>1, AppendTo
<1>3. \A i \in DOMAIN ins' : ins'[i] \in {ins[j] : j \in DOMAIN ins} \cup {x}
  BY <1>2
<1>4. \A y \in {ins[j] : j \in DOMAIN ins} \cup {x} : Held(y)'
  OBVIOUS
<1>5. (\A i \in DOMAIN ins : Held(ins[i]))'
  BY <1>3, <1>4
<1> QED BY <1>5 DEF InputsHeld

\* An input in place stays there while valid copies stay valid and the run
\* only adds to what it owns.
LEMMA HeldKept ==
  ASSUME NEW y, Held(y),
         UNCHANGED <<tensors, at, schedule>>,
         \A k \in DOMAIN owned : k \in DOMAIN owned' /\ owned'[k] = owned[k],
         \A s \in Slots : Valid(tensors[s]) => Valid(tensors[s])'
  PROVE  Held(y)'
<1>1. Target' = Target
  BY DEF Target
<1>2. CASE y.at = "cache"
  BY <1>1, <1>2 DEF Held
<1>3. CASE y.at = "host"
  BY <1>1, <1>3 DEF Held, DeviceOf
<1>4. CASE y.at = "owned"
  BY <1>1, <1>4 DEF Held, DeviceOf
<1> QED BY <1>2, <1>3, <1>4 DEF Held

\* A new tensor joins what the run owns; no valid copy is touched.
LEMMA OwnHeld ==
  ASSUME GraphTypeOK, NEW d, NEW n, NEW v, Own(d, n, v), UNCHANGED <<at, schedule>>
  PROVE  /\ \A y : Held(y) => Held(y)'
         /\ d = Target => \A y : y = Owned(Len(owned) + 1) => Held(y)'
<1> DEFINE new == [device |-> d, bytes |-> n, val |-> v, held |-> TRUE]
<1>1. /\ SequenceOf(owned)
      /\ owned' = Append(owned, new)
      /\ UNCHANGED <<tensors, entries, verify>>
  BY DEF GraphTypeOK, Own, ConstructElsewhere, cacheVars
<1>2. /\ \A k \in DOMAIN owned : k \in DOMAIN owned' /\ owned'[k] = owned[k]
      /\ Len(owned) + 1 \in DOMAIN owned'
      /\ owned'[Len(owned) + 1] = new
  BY <1>1, AppendTo
<1>3. \A s \in Slots : Valid(tensors[s]) => Valid(tensors[s])'
  BY <1>1 DEF Valid, IsResident, Tampered
<1>4. ASSUME NEW y, Held(y) PROVE Held(y)'
  BY <1>1, <1>2, <1>3, <1>4, HeldKept
<1>5. ASSUME d = Target, NEW y, y = Owned(Len(owned) + 1) PROVE Held(y)'
  <2>1. y.at = "owned" /\ y.k = Len(owned) + 1
    BY <1>5 DEF Owned
  <2>2. Target' = d
    BY <1>5 DEF Target
  <2>3. owned'[y.k].device = d
    BY <1>2, <2>1
  <2> QED BY <1>2, <2>1, <2>2, <2>3 DEF Held, DeviceOf
<1> QED BY <1>4, <1>5

\* InputsHeld, one step.
LEMMA StepInputsHeld ==
  ASSUME GraphTypeOK, TypeOK, CacheInv, InputsHeld, [GraphNext]_graphVars
  PROVE  InputsHeld'
<1>0. HostTypeOK /\ IdsDistinct
  BY DEF TypeOK, CacheInv
<1>1. ASSUME pc' \notin InNode PROVE InputsHeld'
  BY <1>1 DEF InputsHeld
<1>2. ASSUME pc \in InNode, UNCHANGED ins, \A y : Held(y) => Held(y)' PROVE InputsHeld'
  BY <1>2 DEF InputsHeld
<1>3. pc \in {"transfer", "transient"} => \A y \in {ins[i] : i \in DOMAIN ins} : Held(y)
  BY DEF InputsHeld, InNode
<1>4. ASSUME NEW r \in Slots,
             \/ AcquireHit(r) \/ AcquireUpload(r)
             \/ AcquireOverBudget(r) \/ AcquireThrows(r),
             UNCHANGED <<at, schedule, owned>>
      PROVE  \A y : Held(y) => Held(y)'
  <2>1. UNCHANGED tensors
    BY <1>4, AcquireEntries
  <2>2. \A s \in Slots : Valid(tensors[s]) => Valid(tensors[s])'
    BY <1>0, <1>4, ValidCopiesStay
  <2> QED BY <1>4, <2>1, <2>2, HeldKept
<1>5. CASE Place
  BY <1>5 DEF Place, InputsHeld
<1>6. CASE TakeCached
  <2>1. PICK s \in Slots : RawIns[arg].slot = s
    BY <1>6, CacheInputIsSlot DEF TakeCached
  <2>2. AcquireHit(s) \/ AcquireUpload(s)
    BY <1>6, <2>1 DEF TakeCached
  <2>3. UNCHANGED <<at, schedule, owned>> /\ pc = "transfer" /\ Target = "CUDA"
    BY <1>6 DEF TakeCached, FromCache
  <2>4. PICK x : x = Cached(tensors[s].id)
    OBVIOUS
  <2>5. TakeInput(x)
    BY <1>6, <2>1, <2>4 DEF TakeCached
  <2>6. tensors' = tensors /\ Target' = "CUDA"
    BY <2>2, <2>3, AcquireEntries DEF Target
  <2>7. Held(x)'
    BY <2>2, <2>4, <2>6, AnswerValid DEF Held, Cached
  <2> QED BY <1>3, <1>4, <2>2, <2>3, <2>5, <2>7, TakeInputHeld
<1>7. CASE CacheRefuses
  <2>1. PICK s \in Slots : RawIns[arg].slot = s
    BY <1>7, CacheInputIsSlot DEF CacheRefuses
  <2>2. AcquireOverBudget(s)
    BY <1>7, <2>1 DEF CacheRefuses
  <2>3. UNCHANGED <<at, schedule, owned, ins>> /\ pc \in InNode
    BY <1>7 DEF CacheRefuses, InNode
  <2> QED BY <1>2, <1>4, <2>2, <2>3
<1>8. CASE EnsureDevice
  <2>1. pc \in {"transfer", "transient"} /\ UNCHANGED <<at, schedule>>
    BY <1>8 DEF EnsureDevice, Ensuring
  <2>2. CASE DeviceOf(RawIns[arg]) = Target
    <3>1. PICK x : x = RawIns[arg]
      OBVIOUS
    <3>2. TakeInput(x) /\ UNCHANGED <<vars, owned>>
      BY <1>8, <2>2, <3>1 DEF EnsureDevice
    <3>3. Held(x)
      <4>1. \/ \E i \in DOMAIN passed : x = Host(passed[i])
            \/ \E k \in DOMAIN owned : x = Owned(k)
        BY <2>1, <3>1, InputInHand
      <4>2. \/ x.at = "host"
            \/ x.at = "owned" /\ x.k \in DOMAIN owned
        BY <4>1 DEF Host, Owned
      <4>3. DeviceOf(x) = Target
        BY <2>2, <3>1
      <4> QED BY <4>2, <4>3 DEF Held
    <3>4. UNCHANGED <<tensors, entries, verify>>
      BY <3>2 DEF vars, hostVars, cacheVars
    <3>5. \A s \in Slots : Valid(tensors[s]) => Valid(tensors[s])'
      BY <3>4 DEF Valid, IsResident, Tampered
    <3>6. \A y : Held(y) => Held(y)'
      BY <2>1, <3>2, <3>4, <3>5, HeldKept
    <3> QED BY <1>3, <2>1, <3>2, <3>3, <3>6, TakeInputHeld
  <2>3. CASE DeviceOf(RawIns[arg]) # Target
    <3>1. PICK x : x = Owned(Len(owned) + 1)
      OBVIOUS
    <3>2. TakeInput(x) /\ Own(Target, BytesAt(RawIns[arg]), ContentsOf(RawIns[arg]))
      BY <1>8, <2>3, <3>1 DEF EnsureDevice
    <3>3. Held(x)' /\ \A y : Held(y) => Held(y)'
      BY <2>1, <3>1, <3>2, OwnHeld
    <3> QED BY <1>3, <2>1, <3>2, <3>3, TakeInputHeld
  <2> QED BY <2>2, <2>3
<1>9. CASE AllocOutput
  <2>1. Own(Target, Elems[Node.out], None) /\ UNCHANGED <<at, schedule, ins>> /\ pc \in InNode
    BY <1>9 DEF AllocOutput, InNode
  <2> QED BY <1>2, <2>1, OwnHeld
<1>10. CASE CacheThrows \/ EnsureThrows \/ AllocThrows \/ RunThrows \/ CopyThrows \/ Return
  BY <1>1, <1>10 DEF CacheThrows, EnsureThrows, AllocThrows, RunThrows, CopyThrows, Return,
                     Unwind, InNode
<1>11. CASE RunNode \/ MoveOutput \/ CopyOutput \/ \E p \in Callings : Begin(p)
  BY <1>1, <1>11 DEF RunNode, MoveOutput, CopyOutput, NextOutput, Begin, InNode
<1>12. CASE CallerStep \/ \E p \in Callings : BeginRejected(p)
  BY <1>1, <1>12 DEF CallerStep, WriteTensor, FreezeTensor, ReplaceTensor, Configure,
       SetVramBudgetBytes, SetTransferBandwidthBytesPerNs,
       SetWeightCacheEnabled, ReleaseDeviceWeights, ResetStats,
       BeginRejected, Edit, runVars, InNode
<1>13. CASE UNCHANGED graphVars
  BY <1>13 DEF graphVars, vars, hostVars, cacheVars, runVars, InputsHeld, Held, Target,
               DeviceOf, Valid, IsResident, Tampered
<1> QED
  BY <1>5, <1>6, <1>7, <1>8, <1>9, <1>10, <1>11, <1>12, <1>13 DEF GraphNext, RunStep

\* InputsInPlace, for every graph: whatever an operator reads is on its own
\* device and still resident, though other acquire() calls came in between.
THEOREM GraphInputsInPlace == GraphSpec => []InputsInPlace
<1>1. GraphInit => InputsHeld
  BY DEF GraphInit, InputsHeld, InNode
<1>2. GraphTypeOK /\ TypeOK /\ CacheInv /\ InputsHeld /\ [GraphNext]_graphVars => InputsHeld'
  BY StepInputsHeld
<1>3. GraphTypeOK /\ InputsHeld => InputsInPlace
  BY DEF InputsHeld, InputsInPlace, Held, InNode, DeviceOf, Valid, IsResident
<1> QED BY <1>1, <1>2, <1>3, GraphCacheInv, PTL DEF GraphSpec

-----------------------------------------------------------------------------
(* Device bytes *)

\* What MemoryStats counts, c, is t bytes, or after a reset at most that.
Accounts(r, c, t) == c \in Nat /\ (~r => c = t) /\ c <= t

\* It goes up with what is allocated.
LEMMA AccountsAllocated ==
  ASSUME NEW r, NEW c, NEW t \in Nat, Accounts(r, c, t), NEW x \in Nat
  PROVE  Accounts(r, Allocated(c, x), t + x)
BY DEF Accounts, Allocated

\* Freeing takes off what was counted.
LEMMA AccountsFreed ==
  ASSUME NEW r, NEW c, NEW t \in Nat, Accounts(r, c, t), NEW x \in Nat, x <= t
  PROVE  Accounts(r, Deallocated(c, x), t - x)
BY DEF Accounts, Deallocated

\* The tensors of the run that sit on the device.
OnDevice == {k \in DOMAIN owned : owned[k].held /\ owned[k].device = "CUDA"}

\* A tensor that the run owns.
IsOwned(x) ==
  /\ x = [device |-> x.device, bytes |-> x.bytes, val |-> x.val, held |-> x.held]
  /\ x.bytes \in Nat

\* With CudaAccounted: what a run owns has bytes, and between runs nothing is owned.
AccountedInv ==
  /\ \A k \in DOMAIN owned : IsOwned(owned[k])
  /\ pc = "idle" => owned = <<>>
  /\ Accounts(reset, cuda, resident + OwnedCuda)

\* OwnedCuda is a sum over finitely many tensors.
LEMMA OwnedBytes ==
  ASSUME SequenceOf(owned), \A k \in DOMAIN owned : owned[k].bytes \in Nat
  PROVE  /\ IsFiniteSet(OnDevice)
         /\ OwnedCuda = Bytes(owned, OnDevice)
         /\ OwnedCuda \in Nat
<1>1. IsFiniteSet(OnDevice)
  <2>1. IsFiniteSet(1 .. Len(owned))
    BY FS_Interval DEF SequenceOf
  <2>2. OnDevice \subseteq 1 .. Len(owned)
    BY DEF OnDevice, SequenceOf
  <2> QED BY <2>1, <2>2, FS_Subset
<1>2. OwnedCuda = Bytes(owned, OnDevice)
  BY DEF OwnedCuda, OnDevice, Bytes, MapThenSumSet, MapThenFoldSet
<1>3. \A k \in OnDevice : owned[k].bytes \in Nat
  BY DEF OnDevice
<1>4. Bytes(owned, OnDevice) \in Nat
  BY <1>1, <1>3, BytesNatural
<1> QED BY <1>1, <1>2, <1>4

\* The same tensors with the same bytes, the same sum.
LEMMA OwnedCudaSame ==
  ASSUME OnDevice' = OnDevice, \A k \in OnDevice : owned'[k].bytes = owned[k].bytes
  PROVE  OwnedCuda' = OwnedCuda
<1>1. OwnedCuda = Bytes(owned, OnDevice)
  BY DEF OwnedCuda, OnDevice, Bytes, MapThenSumSet, MapThenFoldSet
<1>2. OwnedCuda' = Bytes(owned', OnDevice')
  BY DEF OwnedCuda, OnDevice, Bytes, MapThenSumSet, MapThenFoldSet
<1>3. Bytes(owned', OnDevice) = Bytes(owned, OnDevice)
  BY BytesSame
<1> QED BY <1>1, <1>2, <1>3

\* A run that owns nothing has no bytes on the device.
LEMMA OwnedCudaNone ==
  /\ owned = <<>> => OwnedCuda = 0
  /\ owned' = <<>> => OwnedCuda' = 0
<1>1. OwnedCuda = Bytes(owned, OnDevice) /\ OwnedCuda' = Bytes(owned', OnDevice')
  BY DEF OwnedCuda, OnDevice, Bytes, MapThenSumSet, MapThenFoldSet
<1>2. /\ owned = <<>> => OnDevice = {}
      /\ owned' = <<>> => OnDevice' = {}
  BY DEF OnDevice
<1> QED BY <1>1, <1>2, BytesNone

\* A tensor built by the run adds its bytes on the device it is built on.
LEMMA OwnAccounted ==
  ASSUME TypeOK, ResidentExact, SequenceOf(owned), AccountedInv, pc' # "idle",
         NEW d \in {"CPU", "CUDA"}, NEW n \in Nat, NEW v, Own(d, n, v), reset' = reset
  PROVE  AccountedInv'
<1> DEFINE new == [device |-> d, bytes |-> n, val |-> v, held |-> TRUE]
           k == Len(owned) + 1
<1>1. /\ owned' = Append(owned, new)
      /\ resident' = resident
      /\ cuda' = IF d = "CUDA" THEN Allocated(cuda, n) ELSE cuda
  BY DEF Own, cacheVars
<1>2. /\ SequenceOf(owned') /\ DOMAIN owned' = DOMAIN owned \cup {k} /\ k \notin DOMAIN owned
      /\ \A i \in DOMAIN owned : owned'[i] = owned[i]
      /\ owned'[k] = new
  BY <1>1, AppendTo
<1>3. \A i \in DOMAIN owned' : IsOwned(owned'[i]) /\ owned'[i].bytes \in Nat
  BY <1>2 DEF AccountedInv, IsOwned
<1>4. OnDevice' = IF d = "CUDA" THEN OnDevice \cup {k} ELSE OnDevice
  BY <1>2 DEF OnDevice
<1>5. \A i \in OnDevice : owned'[i] = owned[i]
  BY <1>2 DEF OnDevice
<1>6. resident \in Nat /\ OwnedCuda \in Nat /\ OwnedCuda = Bytes(owned, OnDevice)
  BY EntryBytes, OwnedBytes DEF AccountedInv, IsOwned
<1>7. Accounts(reset, cuda, resident + OwnedCuda)
  BY DEF AccountedInv
<1>8. OwnedCuda' = OwnedCuda + (IF d = "CUDA" THEN n ELSE 0)
  <2>1. CASE d = "CPU"
    <3>1. OnDevice' = OnDevice
      BY <1>4, <2>1
    <3>2. OwnedCuda' = OwnedCuda
      BY <1>5, <3>1, OwnedCudaSame
    <3> QED BY <1>6, <2>1, <3>2
  <2>2. CASE d = "CUDA"
    <3>1. IsFiniteSet(OnDevice') /\ OwnedCuda' = Bytes(owned', OnDevice')
      <4>1. IsFiniteSet(OnDevice) /\ OnDevice' = OnDevice \cup {k}
        BY <1>4, <2>2, OwnedBytes DEF AccountedInv, IsOwned
      <4>2. OwnedCuda' = Bytes(owned', OnDevice')
        BY DEF OwnedCuda, OnDevice, Bytes, MapThenSumSet, MapThenFoldSet
      <4> QED BY <4>1, <4>2, FS_AddElement
    <3>2. k \in OnDevice' /\ OnDevice' \ {k} = OnDevice /\ owned'[k].bytes = n
      BY <1>2, <1>4, <2>2 DEF OnDevice
    <3>3. \A i \in OnDevice' : owned'[i].bytes \in Nat
      BY <1>3 DEF OnDevice
    <3>4. Bytes(owned', OnDevice') = owned'[k].bytes + Bytes(owned', OnDevice' \ {k})
      BY <3>1, <3>2, <3>3, BytesWithout
    <3>5. Bytes(owned', OnDevice) = Bytes(owned, OnDevice)
      BY <1>5, BytesSame
    <3>6. OwnedCuda' = n + OwnedCuda
      BY <1>6, <3>1, <3>2, <3>4, <3>5
    <3> QED BY <1>6, <2>2, <3>6
  <2> QED BY <2>1, <2>2
<1>9. Accounts(reset, cuda', resident + OwnedCuda')
  <2>1. CASE d = "CPU"
    BY <1>1, <1>6, <1>7, <1>8, <2>1
  <2>2. CASE d = "CUDA"
    <3>1. Accounts(reset, Allocated(cuda, n), (resident + OwnedCuda) + n)
      BY <1>6, <1>7, AccountsAllocated
    <3>2. resident + OwnedCuda' = (resident + OwnedCuda) + n
      BY <1>6, <1>8, <2>2
    <3> QED BY <1>1, <2>2, <3>1, <3>2
  <2> QED BY <2>1, <2>2
<1>10. (Accounts(reset, cuda, resident + OwnedCuda))'
  BY <1>1, <1>9
<1> QED BY <1>3, <1>10 DEF AccountedInv

\* The numbers the accounting speaks of.
LEMMA AccountedNumbers ==
  ASSUME TypeOK, ResidentExact, GraphTypeOK, AccountedInv
  PROVE  /\ resident \in Nat /\ OwnedCuda \in Nat /\ cuda \in Nat
         /\ \A t : StaleBytes(t) \in Nat /\ StaleBytes(t) <= resident
<1>1. resident \in Nat /\ \A t : StaleBytes(t) \in Nat
  BY EntryBytes
<1>2. OwnedCuda \in Nat
  BY OwnedBytes DEF AccountedInv, IsOwned, GraphTypeOK
<1>3. ASSUME NEW t PROVE StaleBytes(t) <= resident
  <2>1. CASE t.id \in DOMAIN entries
    <3> DEFINE others == DOMAIN entries \ {t.id}
    <3>1. Bytes(entries, DOMAIN entries) = entries[t.id].bytes + Bytes(entries, others)
      BY <2>1, EntryBytes, BytesWithout
    <3>2. Bytes(entries, others) \in Nat /\ resident = Bytes(entries, DOMAIN entries)
      BY EntryBytes DEF ResidentExact
    <3>3. StaleBytes(t) = entries[t.id].bytes
      BY <2>1 DEF StaleBytes
    <3> HIDE DEF others
    <3> QED BY <1>1, <3>1, <3>2, <3>3
  <2>2. CASE t.id \notin DOMAIN entries
    BY <1>1, <2>2 DEF StaleBytes
  <2> QED BY <2>1, <2>2
<1> QED BY <1>1, <1>2, <1>3 DEF AccountedInv, Accounts

\* What the cache frees, MemoryStats hears of.
LEMMA CacheFrees ==
  ASSUME TypeOK, ResidentExact, GraphTypeOK, AccountedInv, NEW n \in Nat, n <= resident,
         resident' = resident - n, cuda' = Deallocated(cuda, n), UNCHANGED <<owned, reset>>,
         pc' = "idle" => pc = "idle"
  PROVE  AccountedInv'
<1>1. resident \in Nat /\ OwnedCuda \in Nat
  BY AccountedNumbers
<1>2. OwnedCuda' = OwnedCuda
  BY OwnedCudaSame DEF OnDevice
<1>3. Accounts(reset, Deallocated(cuda, n), (resident + OwnedCuda) - n)
  BY <1>1, AccountsFreed DEF AccountedInv
<1>4. (resident + OwnedCuda) - n = resident' + OwnedCuda'
  BY <1>1, <1>2
<1>5. Accounts(reset', cuda', resident' + OwnedCuda')
  BY <1>3, <1>4
<1>6. (Accounts(reset, cuda, resident + OwnedCuda))'
  BY <1>5
<1> QED BY <1>6 DEF AccountedInv

\* A run that throws frees what it owns, after the cache freed n bytes.
LEMMA UnwindAccounted ==
  ASSUME TypeOK, ResidentExact, GraphTypeOK, AccountedInv, NEW n \in Nat, n <= resident,
         resident' = resident - n, Unwind(Deallocated(cuda, n))
  PROVE  AccountedInv'
<1>1. resident \in Nat /\ OwnedCuda \in Nat
  BY AccountedNumbers
<1>2. owned' = <<>> /\ reset' = reset /\ cuda' = Deallocated(Deallocated(cuda, n), OwnedCuda)
  BY DEF Unwind
<1>3. OwnedCuda' = 0
  BY <1>2, OwnedCudaNone
<1>4. Accounts(reset, Deallocated(cuda, n), (resident + OwnedCuda) - n)
  BY <1>1, AccountsFreed DEF AccountedInv
<1>5. (resident + OwnedCuda) - n \in Nat /\ OwnedCuda <= (resident + OwnedCuda) - n
      /\ ((resident + OwnedCuda) - n) - OwnedCuda = resident' + OwnedCuda'
  BY <1>1, <1>3
<1>6. Accounts(reset, cuda', resident' + OwnedCuda')
  BY <1>1, <1>2, <1>4, <1>5, AccountsFreed
<1>7. (Accounts(reset, cuda, resident + OwnedCuda))'
  BY <1>2, <1>6
<1> QED BY <1>2, <1>7 DEF AccountedInv

\* So does one that throws at a point where the cache frees nothing.
LEMMA ThrowAccounted ==
  ASSUME TypeOK, ResidentExact, GraphTypeOK, AccountedInv, resident' = resident, Unwind(cuda)
  PROVE  AccountedInv'
<1>1. resident \in Nat /\ cuda \in Nat
  BY AccountedNumbers
<1>2. cuda = Deallocated(cuda, 0) /\ resident' = resident - 0 /\ 0 <= resident
  BY <1>1 DEF Deallocated
<1>3. Unwind(Deallocated(cuda, 0))
  BY <1>2
<1> QED BY <1>2, <1>3, UnwindAccounted

\* Nothing is allocated or freed.
LEMMA AccountedSame ==
  ASSUME AccountedInv, UNCHANGED <<resident, cuda, reset>>, DOMAIN owned' = DOMAIN owned,
         \A k \in DOMAIN owned :
           IsOwned(owned[k]) =>
           /\ IsOwned(owned'[k])
           /\ owned'[k].bytes = owned[k].bytes
           /\ owned'[k].device = owned[k].device
           /\ owned[k].device = "CUDA" => owned'[k].held = owned[k].held,
         pc' = "idle" => pc = "idle" /\ owned' = owned
  PROVE  AccountedInv'
<1>0. \A k \in DOMAIN owned : IsOwned(owned[k])
  BY DEF AccountedInv
<1>1. OnDevice' = OnDevice
  BY <1>0 DEF OnDevice
<1>2. OwnedCuda' = OwnedCuda
  BY <1>0, <1>1, OwnedCudaSame DEF OnDevice
<1>3. (Accounts(reset, cuda, resident + OwnedCuda))'
  BY <1>2 DEF AccountedInv
<1> QED BY <1>0, <1>3 DEF AccountedInv

\* Bytes of an input that is to be copied.
LEMMA InputBytes ==
  ASSUME TypeOK, GraphTypeOK, AccountedInv, pc \in {"transfer", "transient"}
  PROVE  BytesAt(RawIns[arg]) \in Nat
<1>1. \/ \E i \in DOMAIN passed : passed[i] \in Slots /\ RawIns[arg] = Host(passed[i])
      \/ \E k \in DOMAIN owned : RawIns[arg] = Owned(k)
  BY InputInHand
<1>2. \A s \in Slots : tensors[s].bytes \in Nat
  BY DEF TypeOK, HostTypeOK, Tensor, NoTensor
<1>3. \A k \in DOMAIN owned : owned[k].bytes \in Nat
  BY DEF AccountedInv, IsOwned
<1>4. CASE \E i \in DOMAIN passed : passed[i] \in Slots /\ RawIns[arg] = Host(passed[i])
  <2>1. PICK s \in Slots : RawIns[arg] = Host(s)
    BY <1>4
  <2>2. Host(s).at = "host" /\ Host(s).slot = s
    BY DEF Host
  <2> QED BY <1>2, <2>1, <2>2 DEF BytesAt
<1>5. CASE \E k \in DOMAIN owned : RawIns[arg] = Owned(k)
  <2>1. PICK k \in DOMAIN owned : RawIns[arg] = Owned(k)
    BY <1>5
  <2>2. Owned(k).at = "owned" /\ Owned(k).k = k
    BY DEF Owned
  <2> QED BY <1>3, <2>1, <2>2 DEF BytesAt
<1> QED BY <1>1, <1>4, <1>5

\* The device a node is placed on.
LEMMA TargetType ==
  ASSUME GraphTypeOK, pc \in InNode
  PROVE  Target \in {"CPU", "CUDA"}
<1>1. schedule \in Seq({"CPU", "CUDA"}) /\ at \in DOMAIN Nodes /\ Len(schedule) = at
  BY DEF GraphTypeOK, InNode
<1>2. at \in 1 .. Len(schedule)
  BY <1>1, GraphShape
<1> QED BY <1>1, <1>2 DEF Target

\* AccountedInv, one step.
LEMMA StepAccounted ==
  ASSUME TypeOK, ResidentExact, GraphTypeOK, AccountedInv, [GraphNext]_graphVars
  PROVE  AccountedInv'
<1>0. /\ TypeOK' /\ ResidentExact'
      /\ resident \in Nat /\ resident' \in Nat /\ cuda \in Nat /\ OwnedCuda \in Nat
      /\ \A t : StaleBytes(t) \in Nat /\ StaleBytes(t) <= resident
  <2>1. TypeOK' /\ ResidentExact'
    BY GraphStepUsesCache, StepTypeOK, StepResidentExact
  <2>2. resident' \in Nat
    <3>1. IsFiniteSet(DOMAIN entries') /\ \A id \in DOMAIN entries' : entries'[id].bytes \in Nat
      BY <2>1 DEF TypeOK, Entry
    <3>2. resident' = Bytes(entries', DOMAIN entries')
      BY <2>1 DEF ResidentExact, BytesOf, Bytes, MapThenSumSet, MapThenFoldSet
    <3> QED BY <3>1, <3>2, BytesNatural
  <2> QED BY <2>1, <2>2, AccountedNumbers
<1>1. ASSUME NEW p \in Callings, Begin(p) PROVE AccountedInv'
  <2> DEFINE n == resident - resident'
  <2>1. n \in Nat /\ n <= resident /\ resident' = resident - n
    <3>1. CASE cacheOn
      <4>1. PICK ids \in SUBSET DOMAIN entries : resident' = resident - BytesOf(ids)
        BY <1>1, <3>1 DEF Begin, Sweep, RetainOnly
      <4>2. BytesOf(ids) \in Nat
        BY EntryBytes
      <4> QED BY <1>0, <4>1, <4>2
    <3>2. CASE ~cacheOn
      BY <1>0, <1>1, <3>2 DEF Begin, Sweep, vars, cacheVars
    <3> QED BY <3>1, <3>2
  <2>2. /\ cuda' = Deallocated(cuda, n)
        /\ UNCHANGED <<owned, reset>> /\ pc = "idle"
    BY <1>1 DEF Begin, Sweep
  <2> HIDE DEF n
  <2> QED BY <2>1, <2>2, CacheFrees
<1>2. ASSUME NEW p \in Callings, BeginRejected(p) PROVE AccountedInv'
  BY <1>2, AccountedSame DEF BeginRejected, runVars, vars, cacheVars
<1>3. CASE Place
  BY <1>3, AccountedSame DEF Place, historyVars, vars, cacheVars
<1>4. CASE TakeCached
  <2> DEFINE t == tensors[RawIns[arg].slot]
  <2>1. UNCHANGED <<owned, reset>> /\ pc' # "idle" /\ TakeInput(Cached(t.id))
    BY <1>4 DEF TakeCached, historyVars, TakeInput
  <2>2. CASE AcquireHit(RawIns[arg].slot) /\ UNCHANGED cuda
    BY <2>1, <2>2, AccountedSame DEF AcquireHit
  <2>3. CASE /\ AcquireUpload(RawIns[arg].slot)
             /\ cuda' = Allocated(Deallocated(cuda, StaleBytes(t)), t.bytes)
    <3>1. PICK s \in Slots : RawIns[arg].slot = s
      BY <1>4, CacheInputIsSlot DEF TakeCached
    <3>2. t.bytes \in Nat
      BY <3>1 DEF TypeOK, HostTypeOK, Tensor, NoTensor
    <3>3. resident' = resident - StaleBytes(t) + t.bytes
      BY <2>3 DEF AcquireUpload
    <3>4. OwnedCuda' = OwnedCuda
      BY <2>1, OwnedCudaSame DEF OnDevice
    <3> DEFINE x == StaleBytes(t)
    <3>5. x \in Nat /\ x <= resident
      BY <1>0
    <3>6. Accounts(reset, Deallocated(cuda, x), (resident + OwnedCuda) - x)
      BY <1>0, <3>5, AccountsFreed DEF AccountedInv
    <3> HIDE DEF x
    <3>7. (resident + OwnedCuda) - x \in Nat
      BY <1>0, <3>5
    <3>8. Accounts(reset, Allocated(Deallocated(cuda, x), t.bytes), ((resident + OwnedCuda) - x) + t.bytes)
      BY <3>2, <3>6, <3>7, AccountsAllocated
    <3>9. ((resident + OwnedCuda) - x) + t.bytes = resident' + OwnedCuda'
      BY <1>0, <3>2, <3>3, <3>4, <3>5 DEF x
    <3>10. (Accounts(reset, cuda, resident + OwnedCuda))'
      BY <2>1, <2>3, <3>8, <3>9 DEF x
    <3> QED BY <2>1, <3>10 DEF AccountedInv
  <2> QED BY <1>4, <2>2, <2>3 DEF TakeCached
<1>5. CASE CacheRefuses
  <2> DEFINE n == StaleBytes(tensors[RawIns[arg].slot])
  <2>1. /\ resident' = resident - n /\ cuda' = Deallocated(cuda, n)
        /\ UNCHANGED <<owned, reset>> /\ pc' = "transient"
    BY <1>5 DEF CacheRefuses, AcquireOverBudget, historyVars
  <2>2. n \in Nat /\ n <= resident
    BY <1>0
  <2> HIDE DEF n
  <2> QED BY <2>1, <2>2, CacheFrees
<1>6. CASE CacheThrows
  <2> DEFINE n == StaleBytes(tensors[RawIns[arg].slot])
  <2>1. resident' = resident - n /\ Unwind(Deallocated(cuda, n))
    BY <1>6 DEF CacheThrows, AcquireThrows
  <2>2. n \in Nat /\ n <= resident
    BY <1>0
  <2> HIDE DEF n
  <2> QED BY <2>1, <2>2, UnwindAccounted
<1>7. CASE EnsureDevice
  <2>1. pc \in {"transfer", "transient"} /\ reset' = reset
    BY <1>7 DEF EnsureDevice, Ensuring, historyVars
  <2>2. CASE DeviceOf(RawIns[arg]) = Target
    BY <1>7, <2>1, <2>2, AccountedSame DEF EnsureDevice, TakeInput, vars, cacheVars
  <2>3. CASE DeviceOf(RawIns[arg]) # Target
    <3>1. Own(Target, BytesAt(RawIns[arg]), ContentsOf(RawIns[arg])) /\ pc' # "idle"
      BY <1>7, <2>3 DEF EnsureDevice, TakeInput
    <3>2. Target \in {"CPU", "CUDA"} /\ BytesAt(RawIns[arg]) \in Nat
      BY <2>1, InputBytes, TargetType DEF InNode
    <3> QED BY <2>1, <3>1, <3>2, OwnAccounted DEF GraphTypeOK
  <2> QED BY <2>2, <2>3
<1>8. CASE AllocOutput
  <2>1. Own(Target, Elems[Node.out], None) /\ pc' # "idle" /\ reset' = reset /\ pc \in InNode
    BY <1>8 DEF AllocOutput, historyVars, InNode
  <2>2. Elems[Node.out] \in Nat
    <3>1. at \in DOMAIN Nodes
      BY <2>1 DEF GraphTypeOK
    <3>2. Node.out \in DOMAIN Elems
      BY <3>1, GraphShape DEF Node
    <3>3. Elems \in Seq(Nat \ {0})
      BY ScheduledGraphAssumption
    <3> QED BY <3>2, <3>3
  <2> QED BY <2>1, <2>2, TargetType, OwnAccounted DEF GraphTypeOK
<1>9. CASE EnsureThrows \/ AllocThrows \/ RunThrows \/ CopyThrows
  <2>1. resident' = resident /\ Unwind(cuda)
    BY <1>9 DEF EnsureThrows, AllocThrows, RunThrows, CopyThrows, vars, cacheVars
  <2> QED BY <2>1, ThrowAccounted
<1>10. CASE RunNode
  <2>1. UNCHANGED <<resident, cuda, reset>> /\ pc' # "idle"
    BY <1>10 DEF RunNode, vars, cacheVars, historyVars
  <2>2. /\ DOMAIN owned' = DOMAIN owned
        /\ \A k \in DOMAIN owned :
             \/ owned'[k] = owned[k]
             \/ \E v : owned'[k] = [owned[k] EXCEPT !.val = v]
    BY <1>10 DEF RunNode
  <2>3. ASSUME NEW x, IsOwned(x), NEW v, NEW y, y = [x EXCEPT !.val = v]
        PROVE  IsOwned(y) /\ y.bytes = x.bytes /\ y.device = x.device /\ y.held = x.held
    <3>1. y = [device |-> x.device, bytes |-> x.bytes, val |-> v, held |-> x.held]
      BY <2>3 DEF IsOwned
    <3> QED BY <2>3, <3>1 DEF IsOwned
  <2> QED BY <2>1, <2>2, <2>3, AccountedSame
<1>11. CASE MoveOutput
  <2>1. UNCHANGED <<resident, cuda, reset>> /\ pc' # "idle"
    BY <1>11 DEF MoveOutput, NextOutput, vars, cacheVars, historyVars
  <2>2. CASE owned' = owned
    BY <2>1, <2>2, AccountedSame
  <2>3. CASE owned' # owned
    <3> DEFINE r == OutputRef
    <3>1. /\ r.at = "owned" /\ DeviceOf(r) = "CPU"
          /\ owned' = [owned EXCEPT ![r.k].held = FALSE]
      BY <1>11, <2>3 DEF MoveOutput
    <3>2. owned[r.k].device = "CPU"
      BY <3>1 DEF DeviceOf
    <3>3. /\ DOMAIN owned' = DOMAIN owned
          /\ \A k \in DOMAIN owned :
               IF k = r.k THEN owned'[k] = [owned[k] EXCEPT !.held = FALSE]
               ELSE owned'[k] = owned[k]
      BY <3>1
    <3> HIDE DEF r
    <3>4. ASSUME NEW x, IsOwned(x), NEW y, y = [x EXCEPT !.held = FALSE]
          PROVE  IsOwned(y) /\ y.bytes = x.bytes /\ y.device = x.device
      <4>1. y = [device |-> x.device, bytes |-> x.bytes, val |-> x.val, held |-> FALSE]
        BY <3>4 DEF IsOwned
      <4> QED BY <3>4, <4>1 DEF IsOwned
    <3>5. \A k \in DOMAIN owned : IsOwned(owned[k]) =>
            /\ IsOwned(owned'[k])
            /\ owned'[k].bytes = owned[k].bytes /\ owned'[k].device = owned[k].device
            /\ owned[k].device = "CUDA" => owned'[k].held = owned[k].held
      BY <3>2, <3>3, <3>4
    <3> QED BY <2>1, <3>3, <3>5, AccountedSame
  <2> QED BY <2>2, <2>3
<1>12. CASE CopyOutput
  BY <1>12, AccountedSame DEF CopyOutput, NextOutput, cacheVars, historyVars
<1>13. CASE Return
  <2>1. resident' = resident /\ owned' = <<>> /\ reset' = reset /\ cuda' = Deallocated(cuda, OwnedCuda)
    BY <1>13 DEF Return, vars, cacheVars
  <2>2. OwnedCuda' = 0
    BY <2>1, OwnedCudaNone
  <2>3. Accounts(reset, cuda', (resident + OwnedCuda) - OwnedCuda)
    BY <1>0, <2>1, AccountsFreed DEF AccountedInv
  <2>4. (resident + OwnedCuda) - OwnedCuda = resident' + OwnedCuda'
    BY <1>0, <2>1, <2>2
  <2>5. (Accounts(reset, cuda, resident + OwnedCuda))'
    BY <2>1, <2>3, <2>4
  <2> QED BY <2>1, <2>5 DEF AccountedInv
<1>14. CASE CallerStep
  <2>0. UNCHANGED owned /\ pc = "idle" /\ owned = <<>>
    BY <1>14 DEF CallerStep, WriteTensor, FreezeTensor, ReplaceTensor, Configure,
       SetVramBudgetBytes, SetTransferBandwidthBytesPerNs,
       SetWeightCacheEnabled, ReleaseDeviceWeights, ResetStats,
       Edit, runVars, AccountedInv
  <2>1. CASE ResetStats
    <3>1. reset' = TRUE /\ cuda' = 0 /\ OwnedCuda' = 0
      BY <2>0, <2>1, OwnedCudaNone DEF ResetStats
    <3>2. \A n \in Nat : Accounts(TRUE, 0, n + 0)
      BY DEF Accounts
    <3>3. Accounts(TRUE, 0, resident' + 0)
      BY <1>0, <3>2
    <3>4. (Accounts(reset, cuda, resident + OwnedCuda))'
      BY <3>1, <3>3
    <3> QED BY <2>0, <3>4 DEF AccountedInv
  <2>2. CASE SetWeightCacheEnabled \/ ReleaseDeviceWeights
    <3>1. CASE Clear /\ cuda' = Deallocated(cuda, resident)
      <4>1. resident' = resident - resident /\ reset' = reset
        BY <1>0, <2>2, <3>1 DEF Clear, SetWeightCacheEnabled, ReleaseDeviceWeights
      <4> QED BY <1>0, <2>0, <3>1, <4>1, CacheFrees
    <3>2. CASE UNCHANGED <<vars, cuda>>
      BY <2>0, <2>2, <3>2, AccountedSame DEF SetWeightCacheEnabled, ReleaseDeviceWeights,
         vars, cacheVars
    <3> QED BY <2>2, <3>1, <3>2 DEF SetWeightCacheEnabled, ReleaseDeviceWeights
  <2>3. CASE Configure \/ SetVramBudgetBytes \/ SetTransferBandwidthBytesPerNs
             \/ \E s \in Slots : WriteTensor(s) \/ FreezeTensor(s) \/ ReplaceTensor(s)
    <3>1. UNCHANGED <<resident, cuda, reset>>
      BY <2>3 DEF Configure, SetVramBudgetBytes, SetTransferBandwidthBytesPerNs,
         WriteTensor, FreezeTensor, ReplaceTensor, SetBudgetBytes, SetVerifyContent, vars, cacheVars
    <3> QED BY <2>0, <3>1, AccountedSame
  <2> QED BY <1>14, <2>1, <2>2, <2>3 DEF CallerStep
<1>15. CASE UNCHANGED graphVars
  BY <1>15, AccountedSame DEF graphVars, runVars, historyVars, vars, cacheVars
<1> QED
  BY <1>1, <1>2, <1>3, <1>4, <1>5, <1>6, <1>7, <1>8, <1>9, <1>10, <1>11, <1>12, <1>13,
     <1>14, <1>15 DEF GraphNext, RunStep

\* resident_bytes_ stays exact in every run of every graph.
LEMMA GraphResidentExact == GraphSpec => []ResidentExact
<1>1. GraphInit => ResidentExact
  <2> SUFFICES ASSUME GraphInit PROVE ResidentExact
    OBVIOUS
  <2>1. DOMAIN entries = {} /\ resident = 0
    BY DEF GraphInit
  <2>2. BytesOf({}) = Bytes(entries, {})
    BY DEF BytesOf, Bytes, MapThenSumSet, MapThenFoldSet
  <2> QED BY <2>1, <2>2, BytesNone DEF ResidentExact
<1>2. GraphTypeOK /\ TypeOK /\ ResidentExact /\ [GraphNext]_graphVars => ResidentExact'
  BY GraphStepUsesCache, StepResidentExact
<1> QED BY <1>1, <1>2, GraphCacheInv, PTL DEF GraphSpec

\* AccountedInv holds in every run.
LEMMA GraphAccounted == GraphSpec => []AccountedInv
<1>1. GraphInit => AccountedInv
  <2> SUFFICES ASSUME GraphInit PROVE AccountedInv
    OBVIOUS
  <2>1. owned = <<>> /\ resident = 0 /\ cuda = 0
    BY DEF GraphInit
  <2>2. OwnedCuda = 0
    BY <2>1, OwnedCudaNone
  <2> QED BY <2>1, <2>2 DEF AccountedInv, Accounts
<1>2. TypeOK /\ ResidentExact /\ GraphTypeOK /\ AccountedInv /\ [GraphNext]_graphVars => AccountedInv'
  BY StepAccounted
<1> QED BY <1>1, <1>2, GraphCacheInv, GraphResidentExact, PTL DEF GraphSpec

\* CudaAccounted, for every graph: whatever throws and wherever, MemoryStats reports
\* the device bytes that the cache and the run hold, or less once it was reset.
THEOREM GraphCudaAccounted == GraphSpec => []CudaAccounted
<1>1. AccountedInv => CudaAccounted
  BY DEF AccountedInv, Accounts, CudaAccounted
<1> QED BY <1>1, GraphAccounted, PTL

-----------------------------------------------------------------------------
(* What a run returns *)

\* The value v of the graph, ts being the tensors, ps the slots passed and f
\* what the other values denote.
ValueOf(ts, ps, f, v) ==
  IF v <= NumInputs THEN ts[ps[v]].val
  ELSE LET n == CHOOSE k \in DOMAIN Nodes : Nodes[k].out = v IN
       <<Nodes[n].op, [i \in DOMAIN Nodes[n].in |-> f[Nodes[n].in[i]]]>>

\* f gives every value of the graph its meaning.
Denotes(ts, ps, f) == f = [v \in DOMAIN Elems |-> ValueOf(ts, ps, f, v)]

\* A value is an input or the output of one node, whose inputs are inputs or
\* outputs of nodes before it.
LEMMA ValueShape ==
  /\ DOMAIN Elems = 1 .. NumInputs \cup {Nodes[k].out : k \in DOMAIN Nodes}
  /\ \A k \in DOMAIN Nodes :
       /\ Nodes[k].out \in Nat /\ ~ (Nodes[k].out <= NumInputs)
       /\ (CHOOSE l \in DOMAIN Nodes : Nodes[l].out = Nodes[k].out) = k
       /\ \A l \in DOMAIN Nodes : l # k => Nodes[l].out # Nodes[k].out
       /\ \A i \in DOMAIN Nodes[k].in :
            \/ Nodes[k].in[i] \in 1 .. NumInputs
            \/ \E l \in 1 .. k - 1 : l \in DOMAIN Nodes /\ Nodes[k].in[i] = Nodes[l].out
<1>1. DOMAIN Elems = 1 .. NumInputs \cup {Nodes[k].out : k \in DOMAIN Nodes}
  BY ScheduledGraphAssumption
<1>2. NumInputs \in Nat /\ DOMAIN Elems = 1 .. Len(Elems) /\ Len(Elems) \in Nat
  <2>1. NumInputs \in Nat /\ Elems \in Seq(Nat \ {0})
    BY ScheduledGraphAssumption
  <2> QED BY <2>1
<1>3. ASSUME NEW k \in DOMAIN Nodes
      PROVE  /\ Nodes[k].out \in Nat /\ ~ (Nodes[k].out <= NumInputs)
             /\ (CHOOSE l \in DOMAIN Nodes : Nodes[l].out = Nodes[k].out) = k
             /\ \A l \in DOMAIN Nodes : l # k => Nodes[l].out # Nodes[k].out
             /\ \A i \in DOMAIN Nodes[k].in :
                  \/ Nodes[k].in[i] \in 1 .. NumInputs
                  \/ \E l \in 1 .. k - 1 : l \in DOMAIN Nodes /\ Nodes[k].in[i] = Nodes[l].out
  <2>1. Nodes[k].out \in DOMAIN Elems /\ Nodes[k].out \notin 1 .. NumInputs
    BY ScheduledGraphAssumption, GraphShape
  <2>2. \A l \in DOMAIN Nodes : l # k => Nodes[l].out # Nodes[k].out
    BY ScheduledGraphAssumption
  <2>3. k \in Nat /\ 1 .. k - 1 \subseteq DOMAIN Nodes
    BY GraphShape
  <2>4. \A i \in DOMAIN Nodes[k].in :
          \/ Nodes[k].in[i] \in 1 .. NumInputs
          \/ \E l \in 1 .. k - 1 : Nodes[k].in[i] = Nodes[l].out
    BY ScheduledGraphAssumption
  <2>5. Nodes[k].out \in Nat /\ ~ (Nodes[k].out <= NumInputs)
    BY <1>2, <2>1
  <2>6. (CHOOSE l \in DOMAIN Nodes : Nodes[l].out = Nodes[k].out) = k
    BY <2>2
  <2> QED BY <2>2, <2>3, <2>4, <2>5, <2>6
<1> QED BY <1>1, <1>3

\* What the output of a node denotes.
LEMMA NodeValue ==
  ASSUME NEW ts, NEW ps, NEW f, NEW k \in DOMAIN Nodes
  PROVE  ValueOf(ts, ps, f, Nodes[k].out)
           = <<Nodes[k].op, [i \in DOMAIN Nodes[k].in |-> f[Nodes[k].in[i]]]>>
BY ValueShape DEF ValueOf

\* The graph gives its values a meaning: one node after the other.
LEMMA DenotationExists ==
  ASSUME NEW ts, NEW ps
  PROVE  \E f : Denotes(ts, ps, f)
<1> DEFINE Upto(m) == 1 .. NumInputs \cup {Nodes[k].out : k \in DOMAIN Nodes \cap (1 .. m)}
           S == {m \in Nat : \E f : /\ f = [v \in DOMAIN Elems |-> f[v]]
                                    /\ \A v \in Upto(m) : f[v] = ValueOf(ts, ps, f, v)}
<1>0. NumInputs \in Nat
  BY ScheduledGraphAssumption
<1>1. 0 \in S
  <2>1. \A v \in Upto(0) : v \in 1 .. NumInputs /\ v \in DOMAIN Elems
    BY ValueShape
  <2> DEFINE f == [v \in DOMAIN Elems |-> ts[ps[v]].val]
  <2>2. f = [v \in DOMAIN Elems |-> f[v]] /\ \A v \in 1 .. NumInputs : f[v] = ValueOf(ts, ps, f, v)
    BY <1>0, ValueShape DEF ValueOf
  <2> QED BY <2>1, <2>2
<1>2. ASSUME NEW m \in Nat, m \in S PROVE m + 1 \in S
  <2>1. PICK f : /\ f = [v \in DOMAIN Elems |-> f[v]]
                 /\ \A v \in Upto(m) : f[v] = ValueOf(ts, ps, f, v)
    BY <1>2
  <2>2. CASE m + 1 \notin DOMAIN Nodes
    <3>1. Upto(m + 1) = Upto(m)
      BY <2>2
    <3> QED BY <2>1, <3>1
  <2>3. CASE m + 1 \in DOMAIN Nodes
    <3> DEFINE o == Nodes[m + 1].out
               g == [v \in DOMAIN Elems |-> IF v = o THEN ValueOf(ts, ps, f, o) ELSE f[v]]
    <3>1. Upto(m + 1) = Upto(m) \cup {o} /\ o \in DOMAIN Elems
      BY <2>3, GraphShape
    <3>2. ASSUME NEW v \in Upto(m) PROVE v \in DOMAIN Elems /\ v # o
      <4>1. CASE v \in 1 .. NumInputs
        BY <2>3, <4>1, <1>0, ValueShape
      <4>2. ASSUME NEW k \in DOMAIN Nodes \cap (1 .. m), v = Nodes[k].out PROVE v \in DOMAIN Elems /\ v # o
        <5>1. k # m + 1
          OBVIOUS
        <5> QED BY <2>3, <4>2, <5>1, ValueShape
      <4> QED BY <4>1, <4>2
    <3>3. ASSUME NEW k \in DOMAIN Nodes \cap (1 .. m + 1), NEW i \in DOMAIN Nodes[k].in
          PROVE  Nodes[k].in[i] \in Upto(m)
      BY <3>3, ValueShape
    <3>4. \A v \in Upto(m) : g[v] = f[v]
      BY <3>2
    <3>5. g[o] = ValueOf(ts, ps, f, o)
      BY <3>1
    <3>6. g = [v \in DOMAIN Elems |-> g[v]]
      OBVIOUS
    <3> HIDE DEF g, Upto
    <3>7. ASSUME NEW k \in DOMAIN Nodes \cap (1 .. m + 1)
          PROVE  ValueOf(ts, ps, g, Nodes[k].out) = ValueOf(ts, ps, f, Nodes[k].out)
      <4>1. \A i \in DOMAIN Nodes[k].in : g[Nodes[k].in[i]] = f[Nodes[k].in[i]]
        BY <3>3, <3>4
      <4>2. [i \in DOMAIN Nodes[k].in |-> g[Nodes[k].in[i]]] = [i \in DOMAIN Nodes[k].in |-> f[Nodes[k].in[i]]]
        BY <4>1
      <4>3. ASSUME NEW h
            PROVE  ValueOf(ts, ps, h, Nodes[k].out)
                     = <<Nodes[k].op, [i \in DOMAIN Nodes[k].in |-> h[Nodes[k].in[i]]]>>
        BY NodeValue
      <4> QED BY <4>2, <4>3
    <3>8. ASSUME NEW v \in 1 .. NumInputs
          PROVE  ValueOf(ts, ps, g, v) = ValueOf(ts, ps, f, v)
      BY <1>0 DEF ValueOf
    <3>9. m + 1 \in DOMAIN Nodes \cap (1 .. m + 1)
      BY <2>3
    <3>10. \A v \in Upto(m) : ValueOf(ts, ps, g, v) = ValueOf(ts, ps, f, v)
      <4>1. \A k \in DOMAIN Nodes \cap (1 .. m) : k \in DOMAIN Nodes \cap (1 .. m + 1)
        OBVIOUS
      <4> QED BY <3>7, <3>8, <4>1 DEF Upto
    <3>11. \A v \in Upto(m + 1) : g[v] = ValueOf(ts, ps, g, v)
      BY <2>1, <3>1, <3>4, <3>5, <3>7, <3>9, <3>10
    <3> QED BY <3>6, <3>11
  <2> QED BY <2>2, <2>3
<1>3. Len(Nodes) \in S
  <2> HIDE DEF S
  <2> QED BY <1>1, <1>2, Sums!SetInduction, GraphShape
<1>4. PICK f : /\ f = [v \in DOMAIN Elems |-> f[v]]
               /\ \A v \in Upto(Len(Nodes)) : f[v] = ValueOf(ts, ps, f, v)
  BY <1>3
<1>5. Upto(Len(Nodes)) = DOMAIN Elems
  BY GraphShape, ValueShape
<1>6. \A v \in DOMAIN Elems : f[v] = ValueOf(ts, ps, f, v)
  BY <1>4, <1>5
<1>7. f = [v \in DOMAIN Elems |-> ValueOf(ts, ps, f, v)]
  BY <1>4, <1>6
<1> QED BY <1>7 DEF Denotes

\* The contents of the values when the tensors are ts and the arguments ps.
Meaning(ts, ps) == CHOOSE f : Denotes(ts, ps, f)

\* This is the model's recursive definition,
LEMMA DenotationMeaning == Denotation = Meaning(tensors, passed)
BY DEF Denotation, Meaning, Denotes, ValueOf

\* which is therefore what its equations say,
LEMMA DenotationUnfolds ==
  /\ \A v \in 1 .. NumInputs : v \in DOMAIN Elems /\ Denotation[v] = tensors[passed[v]].val
  /\ \A k \in DOMAIN Nodes :
       Denotation[Nodes[k].out] =
         <<Nodes[k].op, [i \in DOMAIN Nodes[k].in |-> Denotation[Nodes[k].in[i]]]>>
<1>1. Denotes(tensors, passed, Denotation)
  BY DenotationExists, DenotationMeaning DEF Meaning
<1>2. PICK f : f = Denotation
  OBVIOUS
<1>3. f = [v \in DOMAIN Elems |-> ValueOf(tensors, passed, f, v)]
  BY <1>1, <1>2 DEF Denotes
<1>4. \A v \in DOMAIN Elems : f[v] = ValueOf(tensors, passed, f, v)
  BY <1>3
<1>5. \A v \in 1 .. NumInputs : v \in DOMAIN Elems /\ f[v] = tensors[passed[v]].val
  <2>1. \A v \in 1 .. NumInputs : v \in DOMAIN Elems /\ v <= NumInputs
    BY ValueShape
  <2> QED BY <1>4, <2>1 DEF ValueOf
<1>6. ASSUME NEW k \in DOMAIN Nodes
      PROVE  f[Nodes[k].out] = <<Nodes[k].op, [i \in DOMAIN Nodes[k].in |-> f[Nodes[k].in[i]]]>>
  <2>1. f[Nodes[k].out] = ValueOf(tensors, passed, f, Nodes[k].out)
    BY <1>4, ValueShape
  <2> QED BY <2>1, NodeValue
<1> QED BY <1>2, <1>5, <1>6

\* and it depends on nothing but the tensors and the arguments.
LEMMA DenotationSame ==
  ASSUME UNCHANGED <<tensors, passed>>
  PROVE  Denotation' = Denotation
<1>1. Denotation' = Meaning(tensors, passed)'
  BY DEF Denotation, Meaning, Denotes, ValueOf
<1> QED BY <1>1, DenotationMeaning

\* A reference stands for the contents d: those of the tensor or, for a copy in
\* the cache, of the tensor it is the valid copy of.
Stands(r, d) ==
  \/ r.at = "host" /\ tensors[r.slot].val = d
  \/ r.at = "owned" /\ r.k \in DOMAIN owned /\ owned[r.k].val = d
  \/ r.at = "cache" /\ \E s \in Slots :
       tensors[s].id = r.id /\ Valid(tensors[s]) /\ tensors[s].val = d

\* Storage has the arguments, and for every node that ran a tensor of its own
\* with what its output denotes.
StoredRight ==
  /\ \A v \in 1 .. NumInputs : storage[v] = Host(passed[v])
  /\ \A k \in 1 .. at - 1 : LET r == storage[Nodes[k].out] IN
       /\ r.at = "owned"
       /\ Stands(r, Denotation[Nodes[k].out])
       /\ \A l \in 1 .. at - 1 : k # l => storage[Nodes[l].out].k # r.k

\* The inputs so far of the node stand for what they denote.
InputsRight ==
  /\ \A i \in DOMAIN ins :
       i \in DOMAIN Node.in /\ Stands(ins[i], Denotation[Node.in[i]])
  /\ Len(ins) = IF pc \in {"transfer", "transient"} THEN arg - 1 ELSE Len(Node.in)

\* The output about to be written is a tensor of its own.
OutputFresh ==
  /\ owned # <<>>
  /\ storage[Node.out] = Owned(Len(owned))
  /\ \A k \in 1 .. at - 1 : storage[Nodes[k].out].k # Len(owned)

\* The results so far are right, and the outputs still to come can be moved.
CollectedRight ==
  /\ arg <= Len(Outputs) + 1
  /\ results = [i \in 1 .. arg - 1 |-> Denotation[Outputs[i]]]
  /\ \A i \in arg .. Len(Outputs) : owned[storage[Outputs[i]].k].held

\* What makes ResultsCorrect inductive.
ResultsInv ==
  /\ pc # "idle" => StoredRight
  /\ pc \in InNode => InputsRight
  /\ pc = "run" => OutputFresh
  /\ pc \notin {"idle", "collect"} => \A k \in DOMAIN owned : owned[k].held
  /\ pc \notin {"idle", "collect"} => results = <<>>
  /\ pc = "collect" => CollectedRight

\* Every output a value some node computes, marked once.
DistinctOutputs ==
  \A i, j \in DOMAIN Outputs :
    Outputs[i] \notin 1 .. NumInputs /\ (i # j => Outputs[i] # Outputs[j])

\* What is read through a reference is what it stands for.
LEMMA StandsContents ==
  ASSUME Trustworthy, TypeOK, CacheInv, NEW r, NEW d, Stands(r, d)
  PROVE  ContentsOf(r) = d
<1>1. CASE r.at = "cache"
  <2>1. PICK s \in Slots : tensors[s].id = r.id /\ Valid(tensors[s]) /\ tensors[s].val = d
    BY <1>1 DEF Stands
  <2>2. entries[tensors[s].id].val = tensors[s].val
    BY <2>1, HitFresh
  <2> QED BY <1>1, <2>1, <2>2 DEF ContentsOf
<1>2. CASE r.at = "host"
  BY <1>2 DEF Stands, ContentsOf
<1>3. CASE r.at = "owned"
  BY <1>3 DEF Stands, ContentsOf
<1> QED BY <1>1, <1>2, <1>3 DEF Stands

\* It stays so while the tensors stay as they are and valid copies stay valid.
LEMMA StandsKept ==
  ASSUME UNCHANGED tensors,
         \A k \in DOMAIN owned : k \in DOMAIN owned' /\ owned'[k].val = owned[k].val,
         \A s \in Slots : Valid(tensors[s]) => Valid(tensors[s])'
  PROVE  \A r, d : Stands(r, d) => Stands(r, d)'
<1> SUFFICES ASSUME NEW r, NEW d, Stands(r, d) PROVE Stands(r, d)'
  OBVIOUS
<1>1. CASE r.at = "cache"
  BY <1>1 DEF Stands
<1>2. CASE r.at = "host"
  BY <1>2 DEF Stands
<1>3. CASE r.at = "owned"
  BY <1>3 DEF Stands
<1> QED BY <1>1, <1>2, <1>3 DEF Stands

\* acquire() of one tensor keeps it so,
LEMMA AcquireStands ==
  ASSUME TypeOK, CacheInv, NEW r \in Slots, UNCHANGED owned,
         \/ AcquireHit(r) \/ AcquireUpload(r)
         \/ AcquireOverBudget(r) \/ AcquireThrows(r)
  PROVE  \A x, d : Stands(x, d) => Stands(x, d)'
<1>1. HostTypeOK /\ IdsDistinct
  BY DEF TypeOK, CacheInv
<1>2. \A s \in Slots : Valid(tensors[s]) => Valid(tensors[s])'
  BY <1>1, ValidCopiesStay
<1> QED BY <1>2, AcquireEntries, StandsKept

\* and so does a new tensor of the run, which stands for its own contents.
LEMMA OwnStands ==
  ASSUME GraphTypeOK, NEW dev, NEW n, NEW v, Own(dev, n, v)
  PROVE  /\ UNCHANGED tensors
         /\ \A r, d : Stands(r, d) => Stands(r, d)'
         /\ \A r : r = Owned(Len(owned) + 1) => Stands(r, v)'
         /\ \A k \in DOMAIN owned : owned'[k] = owned[k]
         /\ DOMAIN owned' = DOMAIN owned \cup {Len(owned) + 1}
         /\ Len(owned') = Len(owned) + 1 /\ Len(owned) + 1 \notin DOMAIN owned
         /\ owned'[Len(owned) + 1].held /\ owned'[Len(owned) + 1].val = v
<1> DEFINE new == [device |-> dev, bytes |-> n, val |-> v, held |-> TRUE]
<1>1. /\ SequenceOf(owned)
      /\ owned' = Append(owned, new)
      /\ UNCHANGED <<tensors, entries, verify>>
  BY DEF GraphTypeOK, Own, ConstructElsewhere, cacheVars
<1>2. /\ \A k \in DOMAIN owned : k \in DOMAIN owned' /\ owned'[k] = owned[k]
      /\ DOMAIN owned' = DOMAIN owned \cup {Len(owned) + 1}
      /\ Len(owned') = Len(owned) + 1 /\ Len(owned) + 1 \notin DOMAIN owned
      /\ owned'[Len(owned) + 1] = new
  BY <1>1, AppendTo
<1>3. \A s \in Slots : Valid(tensors[s]) => Valid(tensors[s])'
  BY <1>1 DEF Valid, IsResident, Tampered
<1>4. \A r, d : Stands(r, d) => Stands(r, d)'
  BY <1>1, <1>2, <1>3, StandsKept
<1>5. ASSUME NEW r, r = Owned(Len(owned) + 1) PROVE Stands(r, v)'
  BY <1>2, <1>5 DEF Stands, Owned
<1> QED BY <1>1, <1>2, <1>4, <1>5

\* Storage is right after a step that keeps what references stand for.
LEMMA StoredKept ==
  ASSUME StoredRight, UNCHANGED <<tensors, passed, at, storage>>,
         \A r, d : Stands(r, d) => Stands(r, d)'
  PROVE  StoredRight'
<1>1. Denotation' = Denotation
  BY DenotationSame
<1>2. \A v \in 1 .. NumInputs : storage'[v] = Host(passed'[v])
  BY DEF StoredRight
<1>3. ASSUME NEW k \in 1 .. at' - 1
      PROVE  /\ storage'[Nodes[k].out].at = "owned"
             /\ \A r, d : r = storage[Nodes[k].out] /\ d = Denotation[Nodes[k].out] => Stands(r, d)'
             /\ \A l \in 1 .. at - 1 : k # l => storage'[Nodes[l].out].k # storage'[Nodes[k].out].k
  BY DEF StoredRight
<1> QED BY <1>1, <1>2, <1>3 DEF StoredRight

\* So are the inputs so far.
LEMMA InputsKept ==
  ASSUME InputsRight, UNCHANGED <<tensors, passed, at, ins>>,
         \A r, d : Stands(r, d) => Stands(r, d)'
  PROVE  \A i \in DOMAIN ins' :
           i \in DOMAIN Node'.in /\ Stands(ins[i], Denotation[Node.in[i]])'
<1>1. Denotation' = Denotation /\ Node' = Node
  BY DenotationSame DEF Node
<1>2. \A i \in DOMAIN ins : \A r, d :
        /\ i \in DOMAIN Node.in
        /\ r = ins[i] /\ d = Denotation[Node.in[i]] => Stands(r, d)'
  BY DEF InputsRight
<1> QED BY <1>1, <1>2

\* The input in hand stands for what the input denotes.
LEMMA RawInputRight ==
  ASSUME GraphTypeOK, StoredRight, pc \in {"transfer", "transient"}
  PROVE  Stands(RawIns[arg], Denotation[Node.in[arg]])
<1>1. /\ arg \in DOMAIN Node.in
      /\ RawIns[arg] = storage[Node.in[arg]]
      /\ at \in DOMAIN Nodes
  BY InputInHand DEF GraphTypeOK, InNode
<1>2. \/ Node.in[arg] \in 1 .. NumInputs
      \/ \E k \in 1 .. at - 1 : Node.in[arg] = Nodes[k].out
  BY <1>1, ValueShape DEF Node
<1>3. CASE Node.in[arg] \in 1 .. NumInputs
  <2>1. RawIns[arg] = Host(passed[Node.in[arg]])
    BY <1>1, <1>3 DEF StoredRight
  <2>2. Denotation[Node.in[arg]] = tensors[passed[Node.in[arg]]].val
    BY <1>3, DenotationUnfolds
  <2> QED BY <2>1, <2>2 DEF Stands, Host
<1>4. CASE \E k \in 1 .. at - 1 : Node.in[arg] = Nodes[k].out
  BY <1>1, <1>4 DEF StoredRight
<1> QED BY <1>2, <1>3, <1>4

\* One more input is right.
LEMMA TakeInputRight ==
  ASSUME GraphTypeOK, InputsRight, pc \in {"transfer", "transient"}, NEW x, TakeInput(x),
         UNCHANGED <<tensors, passed, at>>,
         \A r, d : Stands(r, d) => Stands(r, d)',
         \A d : d = Denotation[Node.in[arg]] => Stands(x, d)'
  PROVE  InputsRight' /\ pc' \in {"transfer", "alloc"}
<1>1. Denotation' = Denotation /\ Node' = Node
  BY DenotationSame DEF Node
<1>2. /\ arg \in DOMAIN Node.in
      /\ Node.in \in Seq(DOMAIN Elems)
      /\ SequenceOf(ins) /\ ins' = Append(ins, x)
      /\ Len(ins) = arg - 1
  BY GraphShape, InputInHand DEF GraphTypeOK, InNode, TakeInput, InputsRight, Node
<1>3. arg \in Nat /\ Len(ins) \in Nat /\ Len(ins) + 1 = arg /\ Len(Node.in) \in Nat
  BY <1>2, AppendTo
<1>4. /\ DOMAIN ins = 1 .. Len(ins)
      /\ DOMAIN ins' = 1 .. Len(ins) + 1
      /\ Len(ins') = Len(ins) + 1
      /\ \A i \in DOMAIN ins : ins'[i] = ins[i]
      /\ ins'[Len(ins) + 1] = x
  BY <1>2, AppendTo
<1>5. ASSUME NEW i \in DOMAIN ins'
      PROVE  /\ i \in DOMAIN Node.in
             /\ \A r, d : r = ins'[i] /\ d = Denotation[Node.in[i]] => Stands(r, d)'
  <2>1. CASE i \in DOMAIN ins
    BY <1>4, <2>1 DEF InputsRight
  <2>2. CASE i = arg
    BY <1>2, <1>3, <1>4, <2>2
  <2> QED BY <1>3, <1>4, <2>1, <2>2
<1>6. Len(ins') = IF pc' \in {"transfer", "transient"} THEN arg' - 1 ELSE Len(Node.in)
  BY <1>2, <1>3, <1>4 DEF TakeInput
<1>7. (\A i \in DOMAIN ins : i \in DOMAIN Node.in /\ Stands(ins[i], Denotation[Node.in[i]]))'
  BY <1>1, <1>5
<1>8. pc' \in {"transfer", "alloc"}
  BY DEF TakeInput
<1>9. (Len(ins) = IF pc \in {"transfer", "transient"} THEN arg - 1 ELSE Len(Node.in))'
  BY <1>1, <1>6
<1> QED BY <1>7, <1>8, <1>9 DEF InputsRight

\* What writing or moving a tensor of the run leaves of its record.
LEMMA OwnedExcept ==
  ASSUME NEW y, IsOwned(y)
  PROVE  /\ \A x : [y EXCEPT !.val = x].val = x /\ [y EXCEPT !.val = x].held = y.held
         /\ [y EXCEPT !.held = FALSE].val = y.val
BY DEF IsOwned

\* The operator writes the output of the node: every value computed so far is
\* right, the new one included.
LEMMA RunNodeRight ==
  ASSUME Trustworthy, DistinctOutputs, GraphTypeOK, TypeOK, CacheInv, AccountedInv,
         ResultsInv, RunNode
  PROVE  ResultsInv'
<1>1. /\ pc = "run" /\ pc \in InNode /\ at \in DOMAIN Nodes /\ at' = at + 1 /\ arg' = 1
      /\ StoredRight /\ InputsRight /\ OutputFresh
      /\ \A k \in DOMAIN owned : owned[k].held
      /\ results = <<>>
      /\ UNCHANGED <<tensors, passed, storage, ins, results>>
      /\ pc' \in {"collect", "decide"}
      /\ pc' = "collect" => at = Len(Nodes)
  BY DEF RunNode, ResultsInv, GraphTypeOK, InNode, vars, hostVars
<1>2. Denotation' = Denotation
  BY <1>1, DenotationSame
<1> DEFINE n == Len(owned)
           x == <<Node.op, [i \in DOMAIN ins |-> ContentsOf(ins[i])]>>
<1>3. n \in Nat /\ DOMAIN owned = 1 .. n /\ n \in DOMAIN owned
  <2>1. SequenceOf(owned) /\ owned # <<>>
    BY <1>1 DEF GraphTypeOK, OutputFresh
  <2> QED BY <2>1 DEF SequenceOf
<1>4. x = Denotation[Nodes[at].out]
  <2>1. SequenceOf(ins) /\ Len(ins) = Len(Node.in) /\ Node.in \in Seq(DOMAIN Elems)
    BY <1>1, GraphShape DEF GraphTypeOK, InputsRight, Node
  <2>2. DOMAIN ins = DOMAIN Node.in
    BY <2>1 DEF SequenceOf
  <2>3. \A i \in DOMAIN ins : ContentsOf(ins[i]) = Denotation[Node.in[i]]
    BY <1>1, StandsContents DEF InputsRight
  <2>4. [i \in DOMAIN ins |-> ContentsOf(ins[i])] = [i \in DOMAIN Node.in |-> Denotation[Node.in[i]]]
    BY <2>2, <2>3
  <2>5. Denotation[Nodes[at].out] =
          <<Nodes[at].op, [i \in DOMAIN Nodes[at].in |-> Denotation[Nodes[at].in[i]]]>>
    BY <1>1, DenotationUnfolds
  <2> QED BY <2>4, <2>5 DEF Node
<1>5. /\ DOMAIN owned' = DOMAIN owned
      /\ \A k \in DOMAIN owned : k # n => owned'[k] = owned[k]
      /\ owned'[n] = [owned[n] EXCEPT !.val = x]
  BY <1>3 DEF RunNode
<1> HIDE DEF n, x
<1>6. owned'[n].val = x /\ owned'[n].held = owned[n].held
  <2>1. IsOwned(owned[n])
    BY <1>3 DEF AccountedInv
  <2> QED BY <1>5, <2>1, OwnedExcept
<1>7. \A k \in DOMAIN owned' : owned'[k].held
  BY <1>1, <1>3, <1>5, <1>6
<1>8. storage[Nodes[at].out] = Owned(n) /\ \A k \in 1 .. at - 1 : storage[Nodes[k].out].k # n
  BY <1>1 DEF OutputFresh, Node, n
<1>9. at \in Nat /\ 1 .. at' - 1 = (1 .. at - 1) \cup {at}
  BY <1>1, GraphShape
<1>10. ASSUME NEW k \in 1 .. at' - 1
       PROVE  /\ storage[Nodes[k].out].at = "owned"
              /\ storage[Nodes[k].out].k \in DOMAIN owned'
              /\ owned'[storage[Nodes[k].out].k].val = Denotation[Nodes[k].out]
              /\ \A l \in 1 .. at' - 1 : k # l => storage[Nodes[l].out].k # storage[Nodes[k].out].k
  <2>1. CASE k = at
    <3>1. storage[Nodes[k].out].at = "owned" /\ storage[Nodes[k].out].k = n
      BY <1>8, <2>1 DEF Owned
    <3> QED BY <1>3, <1>4, <1>5, <1>6, <1>8, <1>9, <2>1, <3>1
  <2>2. CASE k \in 1 .. at - 1
    <3>1. /\ storage[Nodes[k].out].at = "owned"
          /\ Stands(storage[Nodes[k].out], Denotation[Nodes[k].out])
          /\ \A l \in 1 .. at - 1 : k # l => storage[Nodes[l].out].k # storage[Nodes[k].out].k
      BY <1>1, <2>2 DEF StoredRight
    <3>2. storage[Nodes[k].out].k \in DOMAIN owned
          /\ owned[storage[Nodes[k].out].k].val = Denotation[Nodes[k].out]
      BY <3>1 DEF Stands
    <3>3. storage[Nodes[k].out].k # n /\ storage[Nodes[at].out].k = n
      BY <1>8, <2>2 DEF Owned
    <3> QED BY <1>5, <1>9, <2>2, <3>1, <3>2, <3>3
  <2> QED BY <1>9, <2>1, <2>2
<1>11. StoredRight'
  <2>1. \A v \in 1 .. NumInputs : storage'[v] = Host(passed'[v])
    BY <1>1 DEF StoredRight
  <2>2. \A k \in 1 .. at' - 1 : \A r, d :
          r = storage'[Nodes[k].out] /\ d = Denotation'[Nodes[k].out] => Stands(r, d)'
    BY <1>1, <1>2, <1>10 DEF Stands
  <2> QED BY <1>1, <1>10, <2>1, <2>2 DEF StoredRight
<1>12. CASE pc' = "decide"
  BY <1>1, <1>7, <1>11, <1>12 DEF ResultsInv, InNode
<1>13. CASE pc' = "collect"
  <2>1. Len(Outputs) \in Nat /\ Outputs \in Seq(DOMAIN Elems)
    BY ScheduledGraphAssumption
  <2>2. results' = [i \in 1 .. arg' - 1 |-> Denotation'[Outputs[i]]]
    BY <1>1
  <2>3. ASSUME NEW i \in arg' .. Len(Outputs)
        PROVE  owned'[storage'[Outputs[i]].k].held
    <3>1. i \in DOMAIN Outputs /\ Outputs[i] \in DOMAIN Elems
      BY <1>1, <2>1
    <3>2. PICK k \in DOMAIN Nodes : Outputs[i] = Nodes[k].out
      BY <3>1, ValueShape DEF DistinctOutputs
    <3>3. k \in 1 .. at' - 1
      BY <1>1, <1>9, <1>13, GraphShape
    <3> QED BY <1>1, <1>7, <1>10, <3>2, <3>3
  <2>4. arg' <= Len(Outputs) + 1
    BY <1>1, <2>1
  <2>5. CollectedRight'
    BY <2>2, <2>3, <2>4 DEF CollectedRight
  <2> QED BY <1>11, <1>13, <2>5 DEF ResultsInv, InNode
<1> QED BY <1>1, <1>12, <1>13

\* One more output is collected.
LEMMA OutputRight ==
  ASSUME Trustworthy, DistinctOutputs, GraphTypeOK, TypeOK, CacheInv, AccountedInv,
         ResultsInv, MoveOutput \/ CopyOutput
  PROVE  ResultsInv'
<1>1. /\ pc = "collect" /\ pc' = "collect" /\ at = Len(Nodes) + 1 /\ arg \in Nat \ {0}
      /\ StoredRight /\ CollectedRight
      /\ arg <= Len(Outputs) /\ arg' = arg + 1
      /\ UNCHANGED <<tensors, passed, storage, at, entries, verify>>
  BY DEF MoveOutput, CopyOutput, NextOutput, ConstructElsewhere, ResultsInv, GraphTypeOK, InNode,
         vars, hostVars, cacheVars
<1>2. Denotation' = Denotation
  BY <1>1, DenotationSame
<1>3. Len(Outputs) \in Nat /\ DOMAIN Outputs = 1 .. Len(Outputs)
      /\ \A i \in DOMAIN Outputs : Outputs[i] \in DOMAIN Elems
  <2>1. Outputs \in Seq(DOMAIN Elems)
    BY ScheduledGraphAssumption
  <2> QED BY <2>1
<1>4. ASSUME NEW i \in DOMAIN Outputs
      PROVE  \E k \in 1 .. at - 1 : Outputs[i] = Nodes[k].out
  <2>1. PICK k \in DOMAIN Nodes : Outputs[i] = Nodes[k].out
    BY <1>3, ValueShape DEF DistinctOutputs
  <2>2. k \in 1 .. at - 1
    BY <1>1, GraphShape
  <2> QED BY <2>1, <2>2
<1>5. \A i \in DOMAIN Outputs :
        /\ storage[Outputs[i]].at = "owned"
        /\ storage[Outputs[i]].k \in DOMAIN owned
        /\ owned[storage[Outputs[i]].k].val = Denotation[Outputs[i]]
  <2> TAKE i \in DOMAIN Outputs
  <2>1. PICK k \in 1 .. at - 1 : Outputs[i] = Nodes[k].out
    BY <1>4
  <2>2. storage[Outputs[i]].at = "owned" /\ Stands(storage[Outputs[i]], Denotation[Outputs[i]])
    BY <1>1, <2>1 DEF StoredRight
  <2> QED BY <2>2 DEF Stands
<1>6. \A i, j \in DOMAIN Outputs : i # j => storage[Outputs[i]].k # storage[Outputs[j]].k
  <2> TAKE i, j \in DOMAIN Outputs
  <2> SUFFICES ASSUME i # j PROVE storage[Outputs[i]].k # storage[Outputs[j]].k
    OBVIOUS
  <2>1. PICK k \in 1 .. at - 1 : Outputs[i] = Nodes[k].out
    BY <1>4
  <2>2. PICK l \in 1 .. at - 1 : Outputs[j] = Nodes[l].out
    BY <1>4
  <2>3. k # l
    BY <2>1, <2>2 DEF DistinctOutputs
  <2> QED BY <1>1, <2>1, <2>2, <2>3 DEF StoredRight
<1> DEFINE r == OutputRef
<1>7. arg \in DOMAIN Outputs /\ r = storage[Outputs[arg]]
  BY <1>1, <1>3 DEF OutputRef
<1>8. r.at = "owned" /\ r.k \in DOMAIN owned /\ owned[r.k].held
      /\ owned[r.k].val = Denotation[Outputs[arg]]
  BY <1>1, <1>3, <1>5, <1>7 DEF CollectedRight
<1>9. results' = Append(results, Denotation[Outputs[arg]])
  <2>1. CASE MoveOutput
    BY <1>8, <2>1 DEF MoveOutput
  <2>2. CASE CopyOutput
    BY <1>8, <2>2 DEF CopyOutput, ContentsOf
  <2> QED BY <2>1, <2>2
<1>10. /\ DOMAIN owned' = DOMAIN owned
       /\ \A k \in DOMAIN owned : owned'[k].val = owned[k].val
       /\ \A k \in DOMAIN owned : k # r.k => owned'[k] = owned[k]
  <2>1. CASE MoveOutput
    <3>1. owned' = [owned EXCEPT ![r.k].held = FALSE]
      BY <1>8, <2>1 DEF MoveOutput
    <3>2. DOMAIN owned' = DOMAIN owned
          /\ (\A k \in DOMAIN owned : k # r.k => owned'[k] = owned[k])
          /\ owned'[r.k] = [owned[r.k] EXCEPT !.held = FALSE]
      BY <1>8, <3>1
    <3>3. owned'[r.k].val = owned[r.k].val
      <4>1. IsOwned(owned[r.k])
        BY <1>8 DEF AccountedInv
      <4> QED BY <3>2, <4>1, OwnedExcept
    <3> QED BY <3>2, <3>3
  <2>2. CASE CopyOutput
    BY <2>2 DEF CopyOutput
  <2> QED BY <2>1, <2>2
<1> HIDE DEF r
<1>11. \A s \in Slots : Valid(tensors[s]) => Valid(tensors[s])'
  BY <1>1 DEF Valid, IsResident, Tampered
<1>12. StoredRight'
  <2>1. \A x, d : Stands(x, d) => Stands(x, d)'
    BY <1>1, <1>10, <1>11, StandsKept
  <2> QED BY <1>1, <2>1, StoredKept
<1>13. CollectedRight'
  <2>1. results = [i \in 1 .. arg - 1 |-> Denotation[Outputs[i]]]
    BY <1>1 DEF CollectedRight
  <2>2. results' = [i \in 1 .. arg' - 1 |-> Denotation[Outputs[i]]]
    <3> DEFINE res == [i \in 1 .. arg - 1 |-> Denotation[Outputs[i]]]
    <3>1. Append(res, Denotation[Outputs[arg]]) = [i \in 1 .. arg |-> Denotation[Outputs[i]]]
      <4>1. arg - 1 \in Nat /\ Len(res) = arg - 1
        BY <1>1
      <4>2. Append(res, Denotation[Outputs[arg]])
              = [i \in 1 .. (arg - 1) + 1 |-> IF i \in 1 .. arg - 1 THEN res[i] ELSE Denotation[Outputs[arg]]]
        BY <1>1, <4>1 DEF Append
      <4> QED BY <1>1, <4>2
    <3> QED BY <1>1, <1>9, <2>1, <3>1
  <2>3. ASSUME NEW i \in arg' .. Len(Outputs)
        PROVE  owned'[storage'[Outputs[i]].k].held
    <3>1. i \in DOMAIN Outputs /\ i # arg /\ i \in arg .. Len(Outputs)
      BY <1>1, <1>3
    <3>2. owned[storage[Outputs[i]].k].held /\ storage[Outputs[i]].k \in DOMAIN owned
      BY <1>1, <1>5, <3>1 DEF CollectedRight
    <3>3. storage[Outputs[i]].k # r.k
      BY <1>6, <1>7, <3>1
    <3> QED BY <1>1, <1>10, <3>2, <3>3
  <2>4. arg' <= Len(Outputs) + 1
    BY <1>1, <1>3
  <2> QED BY <1>2, <2>2, <2>3, <2>4 DEF CollectedRight
<1> QED BY <1>1, <1>12, <1>13 DEF ResultsInv, InNode

\* ResultsInv, one step.
LEMMA StepResultsInv ==
  ASSUME Trustworthy, DistinctOutputs, GraphTypeOK, TypeOK, CacheInv, AccountedInv,
         ResultsInv, [GraphNext]_graphVars
  PROVE  ResultsInv'
<1>1. ASSUME pc' = "idle" PROVE ResultsInv'
  BY <1>1 DEF ResultsInv, InNode
<1>2. ASSUME pc \in InNode
      PROVE  /\ StoredRight /\ InputsRight /\ results = <<>>
             /\ \A k \in DOMAIN owned : owned[k].held
             /\ at \in DOMAIN Nodes
  BY <1>2 DEF ResultsInv, GraphTypeOK, InNode
<1>3. CASE \E p \in Callings : Begin(p)
  <2>1. PICK p \in Callings : Begin(p)
    BY <1>3
  <2>2. /\ pc' = "decide" /\ at' = 1 /\ passed' = p /\ results' = <<>>
        /\ storage' = [v \in 1 .. NumInputs |-> Host(p[v])]
        /\ owned' = <<>>
    BY <2>1 DEF Begin, AccountedInv
  <2>3. StoredRight'
    BY <2>2 DEF StoredRight
  <2> QED BY <2>2, <2>3 DEF ResultsInv, InNode
<1>4. CASE Place
  <2>1. /\ pc = "decide" /\ pc' \in {"alloc", "transfer"} /\ arg' = 1 /\ ins' = <<>>
        /\ pc' = "alloc" <=> Node.in = <<>>
        /\ UNCHANGED <<tensors, entries, verify, at, passed, storage, owned, results>>
    BY <1>4 DEF Place, vars, hostVars, cacheVars
  <2>2. StoredRight /\ results = <<>> /\ \A k \in DOMAIN owned : owned[k].held
    BY <2>1 DEF ResultsInv
  <2>3. StoredRight'
    <3>1. \A s \in Slots : Valid(tensors[s]) => Valid(tensors[s])'
      BY <2>1 DEF Valid, IsResident, Tampered
    <3>2. \A r, d : Stands(r, d) => Stands(r, d)'
      BY <2>1, <3>1, StandsKept
    <3> QED BY <2>1, <2>2, <3>2, StoredKept
  <2>4. InputsRight'
    BY <2>1 DEF InputsRight, Node
  <2> QED BY <2>1, <2>2, <2>3, <2>4 DEF ResultsInv, InNode
<1>5. CASE TakeCached
  <2>1. pc = "transfer" /\ UNCHANGED <<at, passed, storage, owned, results>>
    BY <1>5 DEF TakeCached
  <2>2. PICK s \in Slots : RawIns[arg].at = "host" /\ RawIns[arg].slot = s
    BY <1>5, CacheInputIsSlot DEF TakeCached, FromCache
  <2>3. AcquireHit(s) \/ AcquireUpload(s)
    BY <1>5, <2>2 DEF TakeCached
  <2>4. UNCHANGED tensors /\ \A r, d : Stands(r, d) => Stands(r, d)'
    BY <2>1, <2>3, AcquireEntries, AcquireStands
  <2>5. PICK x : x = Cached(tensors[s].id)
    OBVIOUS
  <2>6. TakeInput(x)
    BY <1>5, <2>2, <2>5 DEF TakeCached
  <2>7. \A d : d = Denotation[Node.in[arg]] => Stands(x, d)'
    <3>1. Stands(RawIns[arg], Denotation[Node.in[arg]])
      BY <1>2, <2>1, RawInputRight DEF InNode
    <3>2. tensors[s].val = Denotation[Node.in[arg]]
      BY <2>2, <3>1 DEF Stands
    <3>3. Valid(tensors[s])' /\ tensors' = tensors
      BY <2>3, <2>4, AnswerValid
    <3> QED BY <2>5, <3>2, <3>3 DEF Stands, Cached
  <2>8. InputsRight' /\ pc' \in {"transfer", "alloc"}
    BY <1>2, <2>1, <2>4, <2>6, <2>7, TakeInputRight DEF InNode
  <2>9. StoredRight'
    BY <1>2, <2>1, <2>4, StoredKept DEF InNode
  <2> QED BY <1>2, <2>1, <2>8, <2>9 DEF ResultsInv, InNode
<1>6. CASE CacheRefuses
  <2>1. pc = "transfer" /\ pc' = "transient"
        /\ UNCHANGED <<at, arg, passed, storage, owned, ins, results>>
    BY <1>6 DEF CacheRefuses
  <2>2. PICK s \in Slots : RawIns[arg].slot = s
    BY <1>6, CacheInputIsSlot DEF CacheRefuses
  <2>3. AcquireOverBudget(s)
    BY <1>6, <2>2 DEF CacheRefuses
  <2>4. UNCHANGED tensors /\ \A r, d : Stands(r, d) => Stands(r, d)'
    BY <2>1, <2>3, AcquireEntries, AcquireStands
  <2>5. StoredRight'
    BY <1>2, <2>1, <2>4, StoredKept DEF InNode
  <2>6. InputsRight'
    <3>1. \A i \in DOMAIN ins' :
            i \in DOMAIN Node'.in /\ Stands(ins[i], Denotation[Node.in[i]])'
      BY <1>2, <2>1, <2>4, InputsKept DEF InNode
    <3>2. Len(ins') = arg' - 1
      BY <1>2, <2>1 DEF InputsRight, InNode
    <3> QED BY <2>1, <3>1, <3>2 DEF InputsRight
  <2> QED BY <1>2, <2>1, <2>5, <2>6 DEF ResultsInv, InNode
<1>7. CASE EnsureDevice
  <2>1. pc \in {"transfer", "transient"} /\ pc \in InNode
        /\ UNCHANGED <<at, passed, storage, results>>
    BY <1>7 DEF EnsureDevice, Ensuring, InNode
  <2>2. Stands(RawIns[arg], Denotation[Node.in[arg]])
    BY <1>2, <2>1, RawInputRight
  <2>3. ASSUME UNCHANGED tensors, \A r, d : Stands(r, d) => Stands(r, d)',
               \A k \in DOMAIN owned' : owned'[k].held,
               NEW x, TakeInput(x), \A d : d = Denotation[Node.in[arg]] => Stands(x, d)'
        PROVE  ResultsInv'
    <3>1. InputsRight' /\ pc' \in {"transfer", "alloc"}
      BY <1>2, <2>1, <2>3, TakeInputRight
    <3>2. StoredRight'
      BY <1>2, <2>1, <2>3, StoredKept
    <3> QED BY <1>2, <2>1, <2>3, <3>1, <3>2 DEF ResultsInv, InNode
  <2>4. CASE DeviceOf(RawIns[arg]) = Target
    <3>1. PICK x : x = RawIns[arg]
      OBVIOUS
    <3>2. TakeInput(x) /\ UNCHANGED <<tensors, entries, verify, owned>>
      BY <1>7, <2>4, <3>1 DEF EnsureDevice, vars, hostVars, cacheVars
    <3>3. \A s \in Slots : Valid(tensors[s]) => Valid(tensors[s])'
      BY <3>2 DEF Valid, IsResident, Tampered
    <3>4. \A r, d : Stands(r, d) => Stands(r, d)'
      BY <3>2, <3>3, StandsKept
    <3>5. \A d : d = Denotation[Node.in[arg]] => Stands(x, d)'
      BY <2>2, <3>1, <3>4
    <3> QED BY <1>2, <2>1, <2>3, <3>2, <3>4, <3>5
  <2>5. CASE DeviceOf(RawIns[arg]) # Target
    <3>1. PICK x : x = Owned(Len(owned) + 1)
      OBVIOUS
    <3>2. PICK v : v = ContentsOf(RawIns[arg])
      OBVIOUS
    <3>3. TakeInput(x) /\ Own(Target, BytesAt(RawIns[arg]), v)
      BY <1>7, <2>5, <3>1, <3>2 DEF EnsureDevice
    <3>4. /\ UNCHANGED tensors /\ (\A r, d : Stands(r, d) => Stands(r, d)') /\ Stands(x, v)'
          /\ \A k \in DOMAIN owned' : owned'[k].held
      BY <1>2, <2>1, <3>1, <3>3, OwnStands
    <3>5. v = Denotation[Node.in[arg]]
      BY <2>2, <3>2, StandsContents
    <3> QED BY <2>3, <3>3, <3>4, <3>5
  <2> QED BY <2>4, <2>5
<1>8. CASE AllocOutput
  <2>1. pc = "alloc" /\ pc' = "run" /\ UNCHANGED <<at, passed, ins, results>>
        /\ Own(Target, Elems[Node.out], None)
        /\ storage' = [v \in DOMAIN storage \cup {Node.out} |->
                   IF v = Node.out THEN Owned(Len(owned) + 1) ELSE storage[v]]
    BY <1>8 DEF AllocOutput
  <2>2. /\ UNCHANGED tensors
        /\ \A r, d : Stands(r, d) => Stands(r, d)'
        /\ DOMAIN owned' = DOMAIN owned \cup {Len(owned) + 1}
        /\ Len(owned') = Len(owned) + 1 /\ Len(owned) + 1 \notin DOMAIN owned
        /\ \A k \in DOMAIN owned : owned'[k] = owned[k]
        /\ owned'[Len(owned) + 1].held
    BY <2>1, OwnStands
  <2>3. /\ StoredRight /\ InputsRight /\ results = <<>> /\ at \in DOMAIN Nodes
        /\ \A k \in DOMAIN owned : owned[k].held
    BY <1>2, <2>1 DEF InNode
  <2>4. /\ 1 .. NumInputs \subseteq DOMAIN storage
        /\ \A k \in 1 .. at - 1 : k \in DOMAIN Nodes /\ Nodes[k].out \in DOMAIN storage
    BY <2>1 DEF GraphTypeOK
  <2>5. /\ \A v \in 1 .. NumInputs : storage'[v] = storage[v]
        /\ \A k \in 1 .. at - 1 : storage'[Nodes[k].out] = storage[Nodes[k].out]
        /\ storage'[Node.out] = Owned(Len(owned) + 1)
    <3>1. Node.out \notin 1 .. NumInputs
      BY <2>3, ScheduledGraphAssumption DEF Node
    <3>2. \A k \in 1 .. at - 1 : Nodes[k].out # Node.out
      <4>1. \A k \in 1 .. at - 1 : k # at
        BY <2>3, GraphShape
      <4> QED BY <2>3, <2>4, <4>1, ValueShape DEF Node
    <3> QED BY <2>1, <2>4, <3>1, <3>2
  <2>6. Denotation' = Denotation
    BY <2>1, <2>2, DenotationSame
  <2>7. StoredRight'
    <3>1. \A v \in 1 .. NumInputs : storage'[v] = Host(passed'[v])
      BY <2>1, <2>3, <2>5 DEF StoredRight
    <3>2. ASSUME NEW k \in 1 .. at - 1
          PROVE  /\ storage'[Nodes[k].out].at = "owned"
                 /\ \A r, d : r = storage'[Nodes[k].out] /\ d = Denotation'[Nodes[k].out] => Stands(r, d)'
                 /\ \A l \in 1 .. at - 1 : k # l => storage'[Nodes[l].out].k # storage'[Nodes[k].out].k
      <4>1. /\ storage[Nodes[k].out].at = "owned"
            /\ Stands(storage[Nodes[k].out], Denotation[Nodes[k].out])
            /\ \A l \in 1 .. at - 1 : k # l => storage[Nodes[l].out].k # storage[Nodes[k].out].k
        BY <2>3 DEF StoredRight
      <4>2. storage'[Nodes[k].out] = storage[Nodes[k].out]
        BY <2>5
      <4> QED BY <2>2, <2>5, <2>6, <4>1, <4>2
    <3>3. at' = at
      BY <2>1
    <3> QED BY <3>1, <3>2, <3>3 DEF StoredRight
  <2>8. InputsRight'
    <3>1. \A i \in DOMAIN ins' :
            i \in DOMAIN Node'.in /\ Stands(ins[i], Denotation[Node.in[i]])'
      BY <2>1, <2>2, <2>3, InputsKept
    <3>2. Len(ins') = Len(Node'.in)
      BY <2>1, <2>3 DEF InputsRight, Node
    <3> QED BY <2>1, <3>1, <3>2 DEF InputsRight
  <2>9. OutputFresh'
    <3>1. \A k \in 1 .. at - 1 : storage[Nodes[k].out].k \in DOMAIN owned
      BY <2>3 DEF StoredRight, Stands
    <3>2. \A k \in 1 .. at' - 1 : storage'[Nodes[k].out].k # Len(owned')
      <4> SUFFICES ASSUME NEW k \in 1 .. at - 1 PROVE storage'[Nodes[k].out].k # Len(owned) + 1
        BY <2>1, <2>2
      <4> QED BY <2>2, <2>5, <3>1
    <3>3. owned' # <<>>
      BY <2>2
    <3>4. storage'[Node'.out] = Owned(Len(owned'))
      BY <2>1, <2>2, <2>5 DEF Node
    <3> QED BY <3>2, <3>3, <3>4 DEF OutputFresh, Owned
  <2>10. \A k \in DOMAIN owned' : owned'[k].held
    BY <2>2, <2>3
  <2> QED BY <2>1, <2>3, <2>7, <2>8, <2>9, <2>10 DEF ResultsInv, InNode
<1>9. CASE RunNode
  BY <1>9, RunNodeRight
<1>10. CASE MoveOutput \/ CopyOutput
  BY <1>10, OutputRight
<1>11. CASE CacheThrows \/ EnsureThrows \/ AllocThrows \/ RunThrows \/ CopyThrows \/ Return
  BY <1>1, <1>11 DEF CacheThrows, EnsureThrows, AllocThrows, RunThrows, CopyThrows, Return,
                     Unwind
<1>12. CASE CallerStep \/ \E p \in Callings : BeginRejected(p)
  BY <1>1, <1>12 DEF CallerStep, WriteTensor, FreezeTensor, ReplaceTensor, Configure,
       SetVramBudgetBytes, SetTransferBandwidthBytesPerNs,
       SetWeightCacheEnabled, ReleaseDeviceWeights, ResetStats,
       BeginRejected, Edit, runVars
<1>13. CASE UNCHANGED graphVars
  <2>1. UNCHANGED <<tensors, entries, verify, pc, at, arg, passed, storage, owned, ins, results>>
    BY <1>13 DEF graphVars, vars, hostVars, cacheVars, runVars
  <2>2. \A s \in Slots : Valid(tensors[s]) => Valid(tensors[s])'
    BY <2>1 DEF Valid, IsResident, Tampered
  <2>3. \A r, d : Stands(r, d) => Stands(r, d)'
    BY <2>1, <2>2, StandsKept
  <2>4. Denotation' = Denotation
    BY <2>1, DenotationSame
  <2>5. pc' # "idle" => StoredRight'
    BY <2>1, <2>3, StoredKept DEF ResultsInv
  <2>6. pc' \in InNode => InputsRight'
    <3> SUFFICES ASSUME pc' \in InNode PROVE InputsRight'
      OBVIOUS
    <3>1. InputsRight
      BY <2>1 DEF ResultsInv
    <3>2. \A i \in DOMAIN ins' :
            i \in DOMAIN Node'.in /\ Stands(ins[i], Denotation[Node.in[i]])'
      BY <2>1, <2>3, <3>1, InputsKept
    <3>3. (Len(ins) = IF pc \in {"transfer", "transient"} THEN arg - 1 ELSE Len(Node.in))'
      BY <2>1, <3>1 DEF InputsRight, Node
    <3> QED BY <3>2, <3>3 DEF InputsRight
  <2>7. pc' = "run" => OutputFresh'
    BY <2>1 DEF ResultsInv, OutputFresh, Node
  <2>8. pc' = "collect" => CollectedRight'
    BY <2>1, <2>4 DEF ResultsInv, CollectedRight
  <2> QED BY <2>1, <2>5, <2>6, <2>7, <2>8 DEF ResultsInv
<1> QED
  BY <1>3, <1>4, <1>5, <1>6, <1>7, <1>8, <1>9, <1>10, <1>11, <1>12, <1>13 DEF GraphNext, RunStep

\* ResultsCorrect, for every graph whose outputs are distinct computed values:
\* whatever was cached, refused, transient or failed before, every run that
\* returns returns what the graph denotes on the tensors passed to it.
THEOREM GraphResultsCorrect ==
  ASSUME Trustworthy, DistinctOutputs
  PROVE  GraphSpec => []ResultsCorrect
<1>1. GraphInit => ResultsInv
  BY DEF GraphInit, ResultsInv, InNode
<1>2. GraphTypeOK /\ TypeOK /\ CacheInv /\ AccountedInv /\ ResultsInv /\ [GraphNext]_graphVars
        => ResultsInv'
  BY StepResultsInv
<1>3. GraphTypeOK /\ ResultsInv => ResultsCorrect
  <2> SUFFICES ASSUME GraphTypeOK, ResultsInv, pc = "collect", arg > Len(Outputs)
               PROVE  results = [i \in DOMAIN Outputs |-> Denotation[Outputs[i]]]
    BY DEF ResultsCorrect, Returning
  <2>1. CollectedRight /\ arg \in Nat
    BY DEF ResultsInv, GraphTypeOK
  <2>2. Len(Outputs) \in Nat /\ DOMAIN Outputs = 1 .. Len(Outputs)
    BY ScheduledGraphAssumption
  <2>3. arg - 1 = Len(Outputs)
    BY <2>1, <2>2 DEF CollectedRight
  <2> QED BY <2>1, <2>2, <2>3 DEF CollectedRight
<1> QED BY <1>1, <1>2, <1>3, GraphCacheInv, GraphAccounted, PTL DEF GraphSpec
-----------------------------------------------------------------------------
(***************************************************************************)
(* Placement and uploads of a repeated run.  With ample room the VRAM      *)
(* check and the cache budget decide nothing: where a node goes depends on *)
(* the arguments, on which of them are weights, and on where the nodes     *)
(* before it went.  A repetition has all three, so it is placed alike, and *)
(* the copies the last run asked for are still valid.                      *)
(***************************************************************************)

\* The sizes of the values, and of the inputs of a node.
ValueSizes == [v \in DOMAIN Elems |-> [bytes |-> Elems[v]]]
InputSizes(n) == [i \in DOMAIN Nodes[n].in |-> [bytes |-> Elems[Nodes[n].in[i]]]]

\* Value v is a weight: ts being the tensors, ps the slots passed, on whether
\* the cache is enabled.
IsWeight(ts, ps, on, v) == v \in 1 .. NumInputs /\ on /\ IsCacheable(ts[ps[v]])

\* The device of value v in a run placed as s says.
DeviceIn(ts, ps, s, v) ==
  IF v \in 1 .. NumInputs THEN ts[ps[v]].device
  ELSE s[CHOOSE k \in DOMAIN Nodes : Nodes[k].out = v]

\* The inputs of node n that are no weights.
Others(ts, ps, on, n) == {i \in DOMAIN Nodes[n].in : ~ IsWeight(ts, ps, on, Nodes[n].in[i])}

\* Where node n goes if there is room, in a run placed as s says before it, bw
\* being the bandwidth of transfers.
Steady(ts, ps, on, bw, s, n) ==
  LET others == Others(ts, ps, on, n)
      p == Profiles[Nodes[n].op]
      d == [elems  |-> Elems[Nodes[n].out],
            in     |-> Bytes(InputSizes(n), others),
            out    |-> Elems[Nodes[n].out],
            on_gpu |-> Nodes[n].in # <<>> /\ \A i \in others : DeviceIn(ts, ps, s, Nodes[n].in[i]) = "CUDA"]
      c == [allocated |-> 0, budget |-> 0, bandwidth |-> bw]
  IN IF p.known /\ p.cuda_supported /\ GpuCost(p, d, c) < CpuCost(p, d, c) THEN "CUDA" ELSE "CPU"

\* The output of node k is a tensor of the run, on the device it was placed on.
HasOutput(k) == \E j \in DOMAIN owned :
  /\ storage[Nodes[k].out] = Owned(j)
  /\ owned[j].device = schedule[k]
  /\ owned[j].bytes = Elems[Nodes[k].out]

\* What storage refers to during a run.
StoredShape == pc # "idle" =>
  /\ \A v \in 1 .. NumInputs :
       /\ storage[v] = Host(passed[v])
       /\ Live(passed[v]) /\ tensors[passed[v]].bytes = Elems[v]
  /\ \A k \in 1 .. at - 1 : HasOutput(k)
  /\ pc = "run" => HasOutput(at)
  /\ pc = "collect" => Len(schedule) = Len(Nodes)

\* A copy is of the size of its tensor, whether it is stale or not, and of an
\* id drawn before.
CopiesSized ==
  /\ \A id \in DOMAIN entries : id # 0 /\ id < nextId
  /\ \A s \in Slots : tensors[s].id \in DOMAIN entries =>
       entries[tensors[s].id].bytes = tensors[s].bytes

\* During a run the cache holds no more than the inputs of the graph, and the
\* decisions count no more than the values there are so far.
ResidentBound == pc # "idle" => resident <= Bytes(ValueSizes, 1 .. NumInputs)

Computed(n) == 1 .. NumInputs \cup {Nodes[k].out : k \in 1 .. n}

CountedBound == pc # "idle" => counted \in Nat /\ counted <= Bytes(ValueSizes, Computed(at - 1))

\* The last run that returned counts as repeated, or will if it is repeated now.
Repeating == IF pc = "idle" THEN settled ELSE repeat

\* A schedule of the nodes up to n follows from the run alone.
Follows(s, n) == \A k \in 1 .. n : s[k] = Steady(tensors, passed, cacheOn, bandwidth, s, k)

\* What makes PlacementStableIfRoom inductive.
StableInv ==
  /\ before \in Seq({"CPU", "CUDA"})
  /\ Repeating => passed \in Callings /\ Len(passed) = NumInputs
  /\ AmpleRoom =>
       /\ pc # "idle" => Follows(schedule, Len(schedule))
       /\ Repeating => Len(before) = Len(Nodes) /\ Follows(before, Len(Nodes))
       /\ pc # "idle" /\ repeat => \A k \in DOMAIN schedule : schedule[k] = before[k]

\* Input i of node k has a valid copy if it is a weight.
Copied(k, i) == LET v == Nodes[k].in[i] IN
  IsWeight(tensors, passed, cacheOn, v) => Valid(tensors[passed[v]])

AllCopied(k) == \A i \in DOMAIN Nodes[k].in : Copied(k, i)

\* What makes RepeatUploadsNothing hold: the weights of the nodes on the device
\* have valid copies, in this run as far as it got and in one that repeats it.
CopiedInv == AmpleRoom =>
  /\ pc # "transient"
  /\ pc # "idle" => \A k \in 1 .. at - 1 : schedule[k] = "CUDA" => AllCopied(k)
  /\ pc \in InNode /\ Target = "CUDA" => \A i \in DOMAIN Node.in : i < arg => Copied(at, i)
  /\ pc \in {"alloc", "run"} => arg > Len(Node.in)
  /\ Repeating => \A k \in DOMAIN Nodes : before[k] = "CUDA" => AllCopied(k)

\* SizeOf is a sum over a function's domain.
LEMMA SizeOfBytes ==
  ASSUME NEW f
  PROVE  SizeOf(f) = Bytes([i \in DOMAIN f |-> [bytes |-> f[i]]], DOMAIN f)
<1> DEFINE S == DOMAIN f
           e == [i \in S |-> [bytes |-> f[i]]]
           Table(g) == g = [s \in SUBSET S |->
                         IF s = {} THEN 0
                         ELSE LET x == CHOOSE y \in s : TRUE IN f[x] + g[s \ {x}]]
<1>1. SizeOf(f) = (CHOOSE g : Table(g))[S]
  BY DEF SizeOf, MapThenSumSet, MapThenFoldSet
<1>2. ASSUME NEW g, NEW s \in SUBSET S
      PROVE  (IF s = {} THEN 0
              ELSE LET x == CHOOSE y \in s : TRUE IN f[x] + g[s \ {x}])
             = (IF s = {} THEN 0
                ELSE LET x == CHOOSE y \in s : TRUE IN e[x].bytes + g[s \ {x}])
  <2>1. CASE s = {}
    BY <2>1
  <2>2. CASE s # {}
    <3> DEFINE x == CHOOSE y \in s : TRUE
    <3>1. x \in S
      BY <2>2
    <3> QED BY <3>1
  <2> QED BY <2>1, <2>2
<1>3. ASSUME NEW g PROVE Table(g) <=> SumTable(e, S, g)
  BY <1>2 DEF SumTable
<1> HIDE DEF Table, e
<1>4. (CHOOSE g : Table(g)) = (CHOOSE g : SumTable(e, S, g))
  BY <1>3
<1> QED BY <1>1, <1>4, BytesTable DEF e

\* The inputs of a node that a run has to send: the sum of their sizes.
LEMMA DemandBytes ==
  ASSUME NEW S, NEW e, \A i \in S : BytesAt(RawIns[i]) = e[i].bytes
  PROVE  MapThenSumSet(LAMBDA i : BytesAt(RawIns[i]), S) = Bytes(e, S)
<1> DEFINE Table(g) == g = [s \in SUBSET S |->
                         IF s = {} THEN 0
                         ELSE LET x == CHOOSE y \in s : TRUE IN BytesAt(RawIns[x]) + g[s \ {x}]]
<1>1. MapThenSumSet(LAMBDA i : BytesAt(RawIns[i]), S) = (CHOOSE g : Table(g))[S]
  BY DEF MapThenSumSet, MapThenFoldSet
<1>2. ASSUME NEW g, NEW s \in SUBSET S
      PROVE  (IF s = {} THEN 0
              ELSE LET x == CHOOSE y \in s : TRUE IN BytesAt(RawIns[x]) + g[s \ {x}])
             = (IF s = {} THEN 0
                ELSE LET x == CHOOSE y \in s : TRUE IN e[x].bytes + g[s \ {x}])
  <2>1. CASE s = {}
    BY <2>1
  <2>2. CASE s # {}
    <3> DEFINE x == CHOOSE y \in s : TRUE
    <3>1. x \in S
      BY <2>2
    <3>2. BytesAt(RawIns[x]) = e[x].bytes
      BY <3>1
    <3> HIDE DEF x
    <3> QED BY <2>2, <3>2 DEF x
  <2> QED BY <2>1, <2>2
<1>3. ASSUME NEW g PROVE Table(g) <=> SumTable(e, S, g)
  BY <1>2 DEF SumTable
<1> HIDE DEF Table
<1>4. (CHOOSE g : Table(g)) = (CHOOSE g : SumTable(e, S, g))
  BY <1>3
<1> QED BY <1>1, <1>4, BytesTable

\* A part takes no more than the whole.
LEMMA BytesPart ==
  ASSUME NEW e, NEW S, IsFiniteSet(S), \A i \in S : e[i].bytes \in Nat, NEW T \in SUBSET S
  PROVE  Bytes(e, T) \in Nat /\ Bytes(e, S) \in Nat /\ Bytes(e, T) <= Bytes(e, S)
<1>1. Bytes(e, S) = Bytes(e, T) + Bytes(e, S \ T)
  BY BytesSplit
<1>2. IsFiniteSet(T) /\ IsFiniteSet(S \ T)
  BY FS_Subset
<1>3. Bytes(e, T) \in Nat /\ Bytes(e, S \ T) \in Nat /\ Bytes(e, S) \in Nat
  BY <1>2, BytesNatural
<1> QED BY <1>1, <1>3

\* Things of the sizes of different values take no more than these values.
LEMMA BytesInjected ==
  ASSUME NEW e, NEW d, NEW S, IsFiniteSet(S), NEW T, IsFiniteSet(T), NEW f \in [S -> T],
         \A i, j \in S : i # j => f[i] # f[j],
         \A i \in S : e[i].bytes = d[f[i]].bytes,
         \A i \in T : d[i].bytes \in Nat
  PROVE  Bytes(e, S) <= Bytes(d, T)
<1> DEFINE Image(s) == {f[i] : i \in s}
           N == {n \in Nat : \A s \in SUBSET S :
                   Cardinality(s) = n => Bytes(e, s) = Bytes(d, Image(s))}
<1>1. \A s \in SUBSET S : IsFiniteSet(s) /\ Cardinality(s) \in Nat
  BY FS_Subset, FS_CardinalityType
<1>2. \A s \in SUBSET S : Image(s) \in SUBSET T /\ IsFiniteSet(Image(s))
  BY FS_Subset
<1>3. \A i \in S : e[i].bytes \in Nat
  OBVIOUS
<1>4. 0 \in N
  <2>1. ASSUME NEW s \in SUBSET S, Cardinality(s) = 0 PROVE Bytes(e, s) = Bytes(d, Image(s))
    <3>1. s = {} /\ Image(s) = {}
      BY <1>1, <2>1, FS_EmptySet
    <3> HIDE DEF Image
    <3> QED BY <3>1, BytesNone
  <2> HIDE DEF Image
  <2> QED BY <2>1
<1>5. ASSUME NEW k \in Nat, k \in N PROVE k + 1 \in N
  <2> SUFFICES ASSUME NEW s \in SUBSET S, Cardinality(s) = k + 1
               PROVE  Bytes(e, s) = Bytes(d, Image(s))
    OBVIOUS
  <2>1. s # {} /\ IsFiniteSet(s)
    BY <1>1, FS_EmptySet
  <2>2. PICK x : x \in s
    BY <2>1
  <2> DEFINE r == s \ {x}
  <2>3. Cardinality(r) = k /\ r \in SUBSET S
    <3>1. Cardinality(r) = (k + 1) - 1
      BY <2>1, <2>2, FS_RemoveElement
    <3> QED BY <3>1
  <2>4. Bytes(e, r) = Bytes(d, Image(r))
    BY <2>3, <1>5
  <2>5. f[x] \in Image(s) /\ Image(s) \ {f[x]} = Image(r)
    BY <2>2
  <2>6. Bytes(e, s) = e[x].bytes + Bytes(e, r)
    BY <1>3, <2>1, <2>2, BytesWithout
  <2>7. \A i \in Image(s) : d[i].bytes \in Nat
    BY <1>2
  <2>8. Bytes(d, Image(s)) = d[f[x]].bytes + Bytes(d, Image(r))
    <3> HIDE DEF Image, r
    <3> QED BY <1>2, <2>5, <2>7, BytesWithout
  <2>9. e[x].bytes = d[f[x]].bytes
    BY <2>2
  <2> HIDE DEF Image, r
  <2> QED BY <2>4, <2>6, <2>8, <2>9
<1>6. Nat \subseteq N
  <2> HIDE DEF N
  <2> QED BY <1>4, <1>5, Sums!SetInduction
<1>7. Bytes(e, S) = Bytes(d, Image(S))
  BY <1>1, <1>6
<1>8. Bytes(d, Image(S)) <= Bytes(d, T)
  <2>1. Image(S) \in SUBSET T
    BY <1>2
  <2> HIDE DEF Image
  <2> QED BY <2>1, BytesPart
<1> QED BY <1>7, <1>8

\* The sizes are natural numbers, and there are finitely many.
LEMMA GraphSizes ==
  /\ NumInputs \in Nat
  /\ IsFiniteSet(DOMAIN Elems) /\ 1 .. NumInputs \subseteq DOMAIN Elems
  /\ DOMAIN ValueSizes = DOMAIN Elems
  /\ \A v \in DOMAIN Elems : Elems[v] \in Nat /\ ValueSizes[v].bytes = Elems[v]
  /\ \A n \in DOMAIN Nodes :
       /\ IsFiniteSet(DOMAIN Nodes[n].in)
       /\ \A i \in DOMAIN Nodes[n].in :
            Nodes[n].in[i] \in DOMAIN Elems /\ InputSizes(n)[i].bytes = Elems[Nodes[n].in[i]]
<1>1. NumInputs \in Nat /\ Elems \in Seq(Nat \ {0})
  BY ScheduledGraphAssumption
<1>2. DOMAIN Elems = 1 .. Len(Elems) /\ Len(Elems) \in Nat /\ \A v \in DOMAIN Elems : Elems[v] \in Nat
  BY <1>1
<1>3. IsFiniteSet(DOMAIN Elems)
  BY <1>2, FS_Interval
<1>4. 1 .. NumInputs \subseteq DOMAIN Elems
  BY ValueShape
<1>5. ASSUME NEW n \in DOMAIN Nodes
      PROVE  /\ IsFiniteSet(DOMAIN Nodes[n].in)
             /\ \A i \in DOMAIN Nodes[n].in :
                  Nodes[n].in[i] \in DOMAIN Elems /\ InputSizes(n)[i].bytes = Elems[Nodes[n].in[i]]
  <2>1. Nodes[n].in \in Seq(DOMAIN Elems)
    BY GraphShape
  <2>2. DOMAIN Nodes[n].in = 1 .. Len(Nodes[n].in) /\ Len(Nodes[n].in) \in Nat
        /\ \A i \in DOMAIN Nodes[n].in : Nodes[n].in[i] \in DOMAIN Elems
    BY <2>1
  <2>3. IsFiniteSet(DOMAIN Nodes[n].in)
    BY <2>2, FS_Interval
  <2> QED BY <2>2, <2>3 DEF InputSizes
<1> QED BY <1>1, <1>2, <1>3, <1>4, <1>5 DEF ValueSizes

\* What ample room is room for.
LEMMA AmpleNumbers ==
  ASSUME AmpleRoom
  PROVE  /\ budget >= 2 * Bytes(ValueSizes, 1 .. NumInputs)
         /\ \A n \in DOMAIN Nodes :
              vram >= Bytes(ValueSizes, DOMAIN Elems) + Bytes(InputSizes(n), DOMAIN Nodes[n].in)
<1>1. SizeOf([v \in 1 .. NumInputs |-> Elems[v]]) = Bytes(ValueSizes, 1 .. NumInputs)
  <2> DEFINE f == [v \in 1 .. NumInputs |-> Elems[v]]
             e == [v \in DOMAIN f |-> [bytes |-> f[v]]]
  <2>1. SizeOf(f) = Bytes(e, DOMAIN f) /\ DOMAIN f = 1 .. NumInputs
    BY SizeOfBytes
  <2>2. \A v \in 1 .. NumInputs : e[v].bytes = ValueSizes[v].bytes
    BY GraphSizes
  <2>3. Bytes(e, 1 .. NumInputs) = Bytes(ValueSizes, 1 .. NumInputs)
    <3> HIDE DEF e
    <3> QED BY <2>2, BytesSame
  <2> HIDE DEF e, f
  <2> QED BY <2>1, <2>3 DEF f
<1>2. SizeOf(Elems) = Bytes(ValueSizes, DOMAIN Elems)
  BY SizeOfBytes DEF ValueSizes
<1>3. ASSUME NEW n \in DOMAIN Nodes
      PROVE  SizeOf([i \in DOMAIN Nodes[n].in |-> Elems[Nodes[n].in[i]]])
               = Bytes(InputSizes(n), DOMAIN Nodes[n].in)
  <2> DEFINE f == [i \in DOMAIN Nodes[n].in |-> Elems[Nodes[n].in[i]]]
             e == [i \in DOMAIN f |-> [bytes |-> f[i]]]
  <2>1. SizeOf(f) = Bytes(e, DOMAIN f)
    BY SizeOfBytes
  <2>2. DOMAIN f = DOMAIN Nodes[n].in /\ e = InputSizes(n)
    BY DEF InputSizes
  <2> HIDE DEF e
  <2>3. SizeOf(f) = Bytes(InputSizes(n), DOMAIN Nodes[n].in)
    BY <2>1, <2>2
  <2> QED BY <2>3
<1> QED BY <1>1, <1>2, <1>3 DEF AmpleRoom

\* Where a node goes depends on nothing a schedule says of later nodes,
LEMMA SteadySame ==
  ASSUME NEW ts, NEW ps, NEW on, NEW bw, NEW n \in DOMAIN Nodes, NEW s, NEW t,
         \A k \in 1 .. n - 1 : s[k] = t[k]
  PROVE  Steady(ts, ps, on, bw, s, n) = Steady(ts, ps, on, bw, t, n)
<1>1. ASSUME NEW i \in DOMAIN Nodes[n].in
      PROVE  DeviceIn(ts, ps, s, Nodes[n].in[i]) = DeviceIn(ts, ps, t, Nodes[n].in[i])
  <2>1. CASE Nodes[n].in[i] \in 1 .. NumInputs
    BY <2>1 DEF DeviceIn
  <2>2. CASE Nodes[n].in[i] \notin 1 .. NumInputs
    <3>1. PICK l \in 1 .. n - 1 : l \in DOMAIN Nodes /\ Nodes[n].in[i] = Nodes[l].out
      BY <2>2, ValueShape
    <3>2. (CHOOSE k \in DOMAIN Nodes : Nodes[k].out = Nodes[n].in[i]) = l
      BY <3>1, ValueShape
    <3> QED BY <2>2, <3>1, <3>2 DEF DeviceIn
  <2> QED BY <2>1, <2>2
<1>2. \A i \in Others(ts, ps, on, n) : i \in DOMAIN Nodes[n].in
  BY DEF Others
<1>3. (\A i \in Others(ts, ps, on, n) : DeviceIn(ts, ps, s, Nodes[n].in[i]) = "CUDA")
        <=> (\A i \in Others(ts, ps, on, n) : DeviceIn(ts, ps, t, Nodes[n].in[i]) = "CUDA")
  BY <1>1, <1>2
<1>4. (Nodes[n].in # <<>> /\ \A i \in Others(ts, ps, on, n) : DeviceIn(ts, ps, s, Nodes[n].in[i]) = "CUDA")
        = (Nodes[n].in # <<>> /\ \A i \in Others(ts, ps, on, n) : DeviceIn(ts, ps, t, Nodes[n].in[i]) = "CUDA")
  BY <1>3
<1> QED BY <1>4 DEF Steady

\* and on nothing of the arguments but their devices and which are weights.
LEMMA SteadyKept ==
  ASSUME NEW ts, NEW us, NEW ps, NEW on, NEW bw, NEW s, NEW n \in DOMAIN Nodes,
         \A v \in 1 .. NumInputs :
           /\ ts[ps[v]].device = us[ps[v]].device
           /\ IsCacheable(ts[ps[v]]) <=> IsCacheable(us[ps[v]])
  PROVE  Steady(ts, ps, on, bw, s, n) = Steady(us, ps, on, bw, s, n)
<1>1. \A v : IsWeight(ts, ps, on, v) <=> IsWeight(us, ps, on, v)
  BY DEF IsWeight
<1>2. \A v : DeviceIn(ts, ps, s, v) = DeviceIn(us, ps, s, v)
  BY DEF DeviceIn
<1>3. Others(ts, ps, on, n) = Others(us, ps, on, n)
  BY <1>1 DEF Others
<1>4. (Nodes[n].in # <<>> /\ \A i \in Others(ts, ps, on, n) : DeviceIn(ts, ps, s, Nodes[n].in[i]) = "CUDA")
        = (Nodes[n].in # <<>> /\ \A i \in Others(us, ps, on, n) : DeviceIn(us, ps, s, Nodes[n].in[i]) = "CUDA")
  BY <1>2, <1>3
<1> QED BY <1>3, <1>4 DEF Steady

\* The outputs there are stay where they are,
LEMMA OutputKept ==
  ASSUME NEW k, HasOutput(k),
         storage'[Nodes[k].out] = storage[Nodes[k].out], schedule'[k] = schedule[k],
         \A j \in DOMAIN owned : /\ j \in DOMAIN owned'
                                 /\ owned'[j].device = owned[j].device
                                 /\ owned'[j].bytes = owned[j].bytes
  PROVE  HasOutput(k)'
BY DEF HasOutput

\* with the arguments.
LEMMA ShapeKept ==
  ASSUME StoredShape, pc # "idle", UNCHANGED <<tensors, passed>>,
         \A v \in 1 .. NumInputs : storage'[v] = storage[v],
         \A k \in 1 .. at - 1 :
           storage'[Nodes[k].out] = storage[Nodes[k].out] /\ schedule'[k] = schedule[k],
         \A j \in DOMAIN owned : /\ j \in DOMAIN owned'
                                 /\ owned'[j].device = owned[j].device
                                 /\ owned'[j].bytes = owned[j].bytes
  PROVE  /\ \A v \in 1 .. NumInputs :
              /\ storage'[v] = Host(passed'[v])
              /\ Live(passed[v])' /\ tensors'[passed'[v]].bytes = Elems[v]
         /\ \A k \in 1 .. at - 1 : HasOutput(k)'
<1>1. \A k \in 1 .. at - 1 : HasOutput(k)'
  BY OutputKept DEF StoredShape
<1>2. ASSUME NEW v \in 1 .. NumInputs
      PROVE  /\ storage'[v] = Host(passed'[v])
             /\ Live(passed[v])' /\ tensors'[passed'[v]].bytes = Elems[v]
  BY DEF StoredShape, Live
<1> QED BY <1>1, <1>2

\* A new tensor of the run, seen from those it has.
LEMMA OwnGrows ==
  ASSUME GraphTypeOK, NEW d, NEW n, NEW v, Own(d, n, v)
  PROVE  /\ UNCHANGED <<tensors, entries, verify, budget, resident, stats>>
         /\ \A k \in DOMAIN owned : k \in DOMAIN owned' /\ owned'[k] = owned[k]
         /\ Len(owned) + 1 \in DOMAIN owned'
         /\ owned'[Len(owned) + 1].device = d /\ owned'[Len(owned) + 1].bytes = n
<1> DEFINE new == [device |-> d, bytes |-> n, val |-> v, held |-> TRUE]
<1>1. /\ SequenceOf(owned)
      /\ owned' = Append(owned, new)
      /\ UNCHANGED <<tensors, entries, verify, budget, resident, stats>>
  BY DEF GraphTypeOK, Own, ConstructElsewhere, cacheVars
<1>2. /\ \A k \in DOMAIN owned : k \in DOMAIN owned' /\ owned'[k] = owned[k]
      /\ Len(owned) + 1 \in DOMAIN owned'
      /\ owned'[Len(owned) + 1] = new
  BY <1>1, AppendTo
<1> QED BY <1>1, <1>2

\* What an entry of the run's tensors keeps when it is written or given away.
LEMMA OwnedKept ==
  ASSUME NEW x, IsOwned(x)
  PROVE  /\ \A v : /\ [x EXCEPT !.val = v].device = x.device
                   /\ [x EXCEPT !.val = v].bytes = x.bytes
         /\ [x EXCEPT !.held = FALSE].device = x.device
         /\ [x EXCEPT !.held = FALSE].bytes = x.bytes
BY DEF IsOwned

\* StoredShape, one step.
LEMMA StepStoredShape ==
  ASSUME GraphTypeOK, AccountedInv, StoredShape, [GraphNext]_graphVars
  PROVE  StoredShape'
<1>1. ASSUME pc' = "idle" PROVE StoredShape'
  BY <1>1 DEF StoredShape
<1>2. ASSUME NEW p \in Callings, Begin(p) PROVE StoredShape'
  <2>1. /\ pc' = "decide" /\ at' = 1 /\ passed' = p
        /\ storage' = [v \in 1 .. NumInputs |-> Host(p[v])]
        /\ \A i \in 1 .. NumInputs : Live(p[i]) /\ tensors[p[i]].bytes = Elems[i]
    BY <1>2 DEF Begin
  <2>2. tensors' = tensors
    BY <1>2 DEF Begin, Sweep, RetainOnly, vars, hostVars
  <2>3. \A v \in 1 .. NumInputs :
          /\ storage'[v] = Host(passed'[v])
          /\ Live(passed[v])' /\ tensors'[passed'[v]].bytes = Elems[v]
    BY <2>1, <2>2 DEF Live
  <2> QED BY <2>1, <2>3 DEF StoredShape
<1>3. ASSUME NEW k \in 1 .. at - 1, pc \in InNode \cup {"decide"}
      PROVE  k \in DOMAIN schedule /\ k # at /\ k \in DOMAIN Nodes
  <2>1. at \in DOMAIN Nodes /\ schedule \in Seq({"CPU", "CUDA"}) /\ Len(schedule) >= at - 1
    BY <1>3, GraphShape DEF GraphTypeOK, InNode
  <2> QED BY <2>1, GraphShape
<1>4. CASE Place
  <2>1. /\ pc = "decide" /\ pc' \in {"alloc", "transfer"}
        /\ UNCHANGED <<tensors, passed, storage, at, owned>>
        /\ \E d : schedule' = Append(schedule, d)
    BY <1>4 DEF Place, vars, hostVars
  <2>2. \A k \in 1 .. at - 1 : schedule'[k] = schedule[k]
    <3>1. SequenceOf(schedule)
      BY DEF GraphTypeOK, SequenceOf
    <3> QED BY <1>3, <2>1, <3>1, AppendTo
  <2> QED BY <2>1, <2>2, ShapeKept DEF StoredShape
<1>5. ASSUME UNCHANGED <<tensors, passed, storage, at, schedule>>, pc # "idle",
             pc' \in {"transfer", "transient", "alloc"},
             \A j \in DOMAIN owned : j \in DOMAIN owned' /\ owned'[j] = owned[j]
      PROVE  StoredShape'
  BY <1>5, ShapeKept DEF StoredShape
<1>6. CASE TakeCached \/ CacheRefuses
  <2>1. /\ UNCHANGED <<passed, storage, at, schedule, owned>> /\ pc = "transfer"
        /\ pc' \in {"transfer", "transient", "alloc"}
    BY <1>6 DEF TakeCached, CacheRefuses, TakeInput
  <2>2. tensors' = tensors
    <3>1. PICK s \in Slots : RawIns[arg].slot = s
      BY <1>6, CacheInputIsSlot DEF TakeCached, CacheRefuses
    <3> QED BY <1>6, <3>1, AcquireEntries DEF TakeCached, CacheRefuses
  <2> QED BY <1>5, <2>1, <2>2
<1>7. CASE EnsureDevice
  <2>1. /\ UNCHANGED <<passed, storage, at, schedule>> /\ pc \in {"transfer", "transient"}
        /\ pc' \in {"transfer", "alloc"}
    BY <1>7 DEF EnsureDevice, Ensuring, TakeInput
  <2>2. CASE UNCHANGED <<vars, owned>>
    BY <1>5, <2>1, <2>2 DEF vars, hostVars
  <2>3. CASE Own(Target, BytesAt(RawIns[arg]), ContentsOf(RawIns[arg]))
    <3>1. tensors' = tensors /\ \A j \in DOMAIN owned : j \in DOMAIN owned' /\ owned'[j] = owned[j]
      BY <2>3, OwnGrows
    <3> QED BY <1>5, <2>1, <3>1
  <2> QED BY <1>7, <2>2, <2>3 DEF EnsureDevice
<1>8. CASE AllocOutput
  <2>1. /\ pc = "alloc" /\ pc' = "run" /\ UNCHANGED <<at, passed, schedule>>
        /\ Own(Target, Elems[Node.out], None)
        /\ storage' = [v \in DOMAIN storage \cup {Node.out} |->
                         IF v = Node.out THEN Owned(Len(owned) + 1) ELSE storage[v]]
    BY <1>8 DEF AllocOutput
  <2>2. /\ UNCHANGED tensors
        /\ \A j \in DOMAIN owned : j \in DOMAIN owned' /\ owned'[j] = owned[j]
        /\ Len(owned) + 1 \in DOMAIN owned'
        /\ owned'[Len(owned) + 1].device = Target
        /\ owned'[Len(owned) + 1].bytes = Elems[Node.out]
    BY <2>1, OwnGrows
  <2>3. at \in DOMAIN Nodes /\ pc \in InNode /\ pc # "idle"
    BY <2>1 DEF GraphTypeOK, InNode
  <2>4. /\ \A v \in 1 .. NumInputs : v \in DOMAIN storage /\ v # Node.out
        /\ \A k \in 1 .. at - 1 : Nodes[k].out \in DOMAIN storage /\ Nodes[k].out # Node.out
    <3>1. 1 .. NumInputs \subseteq DOMAIN storage
          /\ \A k \in 1 .. at - 1 : Nodes[k].out \in DOMAIN storage
      BY <2>3 DEF GraphTypeOK
    <3>2. Node.out \notin 1 .. NumInputs
      BY <2>3, ScheduledGraphAssumption DEF Node
    <3>3. \A k \in 1 .. at - 1 : Nodes[k].out # Node.out
      BY <1>3, <2>3, ValueShape DEF Node
    <3> QED BY <3>1, <3>2, <3>3
  <2>5. /\ \A v \in 1 .. NumInputs : storage'[v] = storage[v]
        /\ \A k \in 1 .. at - 1 : storage'[Nodes[k].out] = storage[Nodes[k].out]
        /\ storage'[Node.out] = Owned(Len(owned) + 1)
    BY <2>1, <2>4
  <2>6. HasOutput(at)'
    BY <2>1, <2>2, <2>5 DEF HasOutput, Node, Target
  <2> QED BY <2>1, <2>2, <2>3, <2>5, <2>6, ShapeKept DEF StoredShape
<1>9. CASE RunNode
  <2>1. /\ pc = "run" /\ pc \in InNode /\ at' = at + 1
        /\ UNCHANGED <<tensors, passed, storage, schedule>>
        /\ pc' = IF at = Len(Nodes) THEN "collect" ELSE "decide"
    BY <1>9 DEF RunNode, vars, hostVars, InNode
  <2>2. \A j \in DOMAIN owned :
          /\ j \in DOMAIN owned'
          /\ owned'[j].device = owned[j].device /\ owned'[j].bytes = owned[j].bytes
    <3> TAKE j \in DOMAIN owned
    <3>1. j \in DOMAIN owned' /\ (owned'[j] = owned[j] \/ \E v : owned'[j] = [owned[j] EXCEPT !.val = v])
      BY <1>9 DEF RunNode
    <3>2. IsOwned(owned[j])
      BY DEF AccountedInv
    <3>3. CASE owned'[j] = owned[j]
      BY <3>1, <3>3
    <3>4. ASSUME NEW v, owned'[j] = [owned[j] EXCEPT !.val = v]
          PROVE  owned'[j].device = owned[j].device /\ owned'[j].bytes = owned[j].bytes
      BY <3>2, <3>4, OwnedKept
    <3> QED BY <3>1, <3>3, <3>4
  <2> PICK n : n = at
    OBVIOUS
  <2>3. HasOutput(n)'
    <3>1. HasOutput(n)
      BY <2>1 DEF StoredShape
    <3> QED BY <2>1, <2>2, <3>1, OutputKept
  <2>4. at \in DOMAIN Nodes /\ Len(schedule) = at /\ at \in Nat
    BY <2>1, GraphShape DEF GraphTypeOK
  <2>5. /\ \A v \in 1 .. NumInputs :
             /\ storage'[v] = Host(passed'[v])
             /\ Live(passed[v])' /\ tensors'[passed'[v]].bytes = Elems[v]
        /\ \A k \in 1 .. at - 1 : HasOutput(k)'
    BY <2>1, <2>2, ShapeKept
  <2>6. \A k \in 1 .. at' - 1 : HasOutput(k)'
    <3>1. \A k \in 1 .. at' - 1 : k \in 1 .. at - 1 \/ k = n
      BY <2>1, <2>4
    <3> QED BY <2>3, <2>5, <3>1
  <2> QED BY <2>1, <2>4, <2>5, <2>6 DEF StoredShape
<1>10. CASE MoveOutput \/ CopyOutput
  <2>1. /\ pc = "collect" /\ pc' = "collect"
        /\ UNCHANGED <<tensors, passed, storage, at, schedule>>
    BY <1>10 DEF MoveOutput, CopyOutput, NextOutput, ConstructElsewhere, vars, hostVars
  <2>2. \A j \in DOMAIN owned :
          /\ j \in DOMAIN owned'
          /\ owned'[j].device = owned[j].device /\ owned'[j].bytes = owned[j].bytes
    <3> TAKE j \in DOMAIN owned
    <3>1. j \in DOMAIN owned' /\ (owned'[j] = owned[j] \/ owned'[j] = [owned[j] EXCEPT !.held = FALSE])
      BY <1>10 DEF MoveOutput, CopyOutput
    <3>2. IsOwned(owned[j])
      BY DEF AccountedInv
    <3> QED BY <3>1, <3>2, OwnedKept
  <2> QED BY <2>1, <2>2, ShapeKept DEF StoredShape
<1>11. CASE CacheThrows \/ EnsureThrows \/ AllocThrows \/ RunThrows \/ CopyThrows \/ Return
  BY <1>1, <1>11 DEF CacheThrows, EnsureThrows, AllocThrows, RunThrows, CopyThrows, Return,
                     Unwind
<1>12. CASE CallerStep \/ \E p \in Callings : BeginRejected(p)
  BY <1>1, <1>12 DEF CallerStep, WriteTensor, FreezeTensor, ReplaceTensor, Configure,
       SetVramBudgetBytes, SetTransferBandwidthBytesPerNs,
       SetWeightCacheEnabled, ReleaseDeviceWeights, ResetStats,
       BeginRejected, Edit, runVars
<1>13. CASE UNCHANGED graphVars
  <2>1. UNCHANGED <<tensors, pc, at, passed, storage, owned, schedule>>
    BY <1>13 DEF graphVars, vars, hostVars, runVars
  <2> QED BY <2>1 DEF StoredShape, HasOutput, Live
<1> QED
  BY <1>2, <1>4, <1>6, <1>7, <1>8, <1>9, <1>10, <1>11, <1>12, <1>13 DEF GraphNext, RunStep

\* Where the id and size of a tensor come from: from the counter, or with a buffer.
LEMMA HostStepSizes ==
  ASSUME HostTypeOK, NEW s \in Slots, HostStep(s), NEW r \in Slots
  PROVE  \/ tensors'[r].id = 0
         \/ tensors'[r].id = nextId
         \/ \E q \in Slots : tensors'[r].id = tensors[q].id /\ tensors'[r].bytes = tensors[q].bytes
<1>0. tensors \in [Slots -> Tensor \cup {NoTensor}]
  BY DEF HostTypeOK
<1>1. CASE Construct(s) \/ Wrap(s)
  BY <1>0, <1>1 DEF Construct, Wrap
<1>2. CASE ConstructElsewhere
  BY <1>2 DEF ConstructElsewhere
<1>3. CASE Write(s) \/ WriteBehind(s) \/ Freeze(s) \/ Unfreeze(s)
  <2>1. \/ \E v : tensors' = [tensors EXCEPT ![s].val = v]
        \/ \E g : tensors' = [tensors EXCEPT ![s].gen = g]
    BY <1>3 DEF Write, WriteBehind, Freeze, Unfreeze
  <2>2. ASSUME NEW t \in Tensor \cup {NoTensor}
        PROVE  /\ \A v : [t EXCEPT !.val = v].id = t.id /\ [t EXCEPT !.val = v].bytes = t.bytes
               /\ \A g : [t EXCEPT !.gen = g].id = t.id /\ [t EXCEPT !.gen = g].bytes = t.bytes
    BY DEF Tensor, NoTensor
  <2>3. tensors[s] \in Tensor \cup {NoTensor}
    BY <1>0
  <2>4. ASSUME NEW v, tensors' = [tensors EXCEPT ![s].val = v]
        PROVE  tensors'[r].id = tensors[r].id /\ tensors'[r].bytes = tensors[r].bytes
    <3>1. tensors'[r] = IF r = s THEN [tensors[s] EXCEPT !.val = v] ELSE tensors[r]
      BY <1>0, <2>4
    <3> QED BY <2>2, <2>3, <3>1
  <2>5. ASSUME NEW g, tensors' = [tensors EXCEPT ![s].gen = g]
        PROVE  tensors'[r].id = tensors[r].id /\ tensors'[r].bytes = tensors[r].bytes
    <3>1. tensors'[r] = IF r = s THEN [tensors[s] EXCEPT !.gen = g] ELSE tensors[r]
      BY <1>0, <2>5
    <3> QED BY <2>2, <2>3, <3>1
  <2> QED BY <2>1, <2>4, <2>5
<1>4. CASE \E t \in Slots : Move(s, t)
  BY <1>0, <1>4 DEF Move, NoTensor
<1>5. CASE Destroy(s)
  BY <1>0, <1>5 DEF Destroy, NoTensor
<1> QED BY <1>1, <1>2, <1>3, <1>4, <1>5 DEF HostStep

\* CopiesSized, one step of the cache and the tensors.
LEMMA StepCopiesSized ==
  ASSUME TypeOK, CacheInv, CopiesSized, [Next]_vars
  PROVE  CopiesSized'
<1>1. /\ HostTypeOK /\ nextId \in Nat
      /\ \A s \in Slots : tensors[s].id \in Nat /\ tensors[s].id < nextId
      /\ \A s, t \in Slots : s # t /\ tensors[s].id # 0 => tensors[s].id # tensors[t].id
  BY DEF TypeOK, HostTypeOK, Tensor, NoTensor, CacheInv, TensorsDrawn, IdsDistinct, Live
<1>2. /\ \A id \in DOMAIN entries : id # 0 /\ id < nextId /\ id \in Nat
      /\ \A s \in Slots : tensors[s].id \in DOMAIN entries =>
           entries[tensors[s].id].bytes = tensors[s].bytes
  BY DEF CopiesSized, TypeOK
<1>3. CASE \E s \in Slots : HostStep(s) /\ UNCHANGED cacheVars
  <2>1. PICK s \in Slots : HostStep(s) /\ UNCHANGED cacheVars
    BY <1>3
  <2>2. entries' = entries /\ nextId' \in Nat /\ nextId' >= nextId
    BY <1>1, <2>1, HostStepType DEF cacheVars
  <2>3. ASSUME NEW r \in Slots, tensors'[r].id \in DOMAIN entries
        PROVE  entries[tensors'[r].id].bytes = tensors'[r].bytes
    <3>1. \/ tensors'[r].id = 0
          \/ tensors'[r].id = nextId
          \/ \E q \in Slots : tensors'[r].id = tensors[q].id /\ tensors'[r].bytes = tensors[q].bytes
      BY <1>1, <2>1, HostStepSizes
    <3>2. tensors'[r].id # 0 /\ tensors'[r].id # nextId
      BY <1>1, <1>2, <2>3
    <3> QED BY <1>2, <2>3, <3>1, <3>2
  <2>4. \A id \in DOMAIN entries : id # 0 /\ id < nextId'
    BY <1>1, <1>2, <2>2
  <2> QED BY <2>2, <2>3, <2>4 DEF CopiesSized
<1>4. ASSUME tensors' = tensors, nextId' \in Nat, nextId' >= nextId,
             \A id \in DOMAIN entries' : id \in DOMAIN entries /\ entries'[id] = entries[id]
      PROVE  CopiesSized'
  BY <1>1, <1>2, <1>4 DEF CopiesSized
<1>5. ASSUME NEW s \in Slots, AcquireUpload(s) PROVE CopiesSized'
  <2> DEFINE t == tensors[s]
  <2>1. /\ tensors' = tensors /\ nextId' = nextId + 2
        /\ DOMAIN entries' = DOMAIN entries \cup {t.id}
        /\ \A id \in DOMAIN entries : id # t.id => entries'[id] = entries[id]
        /\ entries'[t.id].bytes = t.bytes
    BY <1>5 DEF AcquireUpload, NextIds
  <2>2. t.id # 0
    <3>1. t \in Tensor
      BY <1>1, <1>5, CacheableType DEF AcquireUpload
    <3> QED BY <3>1 DEF Tensor
  <2>3. \A r \in Slots : r # s => tensors[r].id # t.id
    BY <1>1, <2>2
  <2> HIDE DEF t
  <2>4. ASSUME NEW r \in Slots, tensors[r].id \in DOMAIN entries'
        PROVE  entries'[tensors[r].id].bytes = tensors[r].bytes
    <3>1. CASE r = s
      BY <2>1, <3>1 DEF t
    <3>2. CASE r # s
      <4>1. tensors[r].id # t.id
        BY <2>3, <3>2
      <4>2. tensors[r].id \in DOMAIN entries
        BY <2>1, <2>4, <4>1
      <4> QED BY <1>2, <2>1, <4>1, <4>2
    <3> QED BY <3>1, <3>2
  <2>5. t.id \in Nat /\ t.id < nextId
    BY <1>1 DEF t
  <2>6. \A id \in DOMAIN entries' : id # 0 /\ id < nextId'
    BY <1>1, <1>2, <2>1, <2>2, <2>5
  <2> QED BY <2>1, <2>4, <2>6 DEF CopiesSized
<1>6. ASSUME NEW s \in Slots, Acquire(s), ~ AcquireUpload(s) PROVE CopiesSized'
  <2>1. tensors' = tensors /\ (nextId' = nextId \/ nextId' = nextId + 1)
    BY <1>6 DEF Acquire, AcquireNotCacheable, AcquireHit, AcquireOverBudget, AcquireThrows,
                hostVars, NextIds
  <2>2. entries' = entries \/ entries' = Without({tensors[s].id})
    BY <1>6 DEF Acquire, AcquireNotCacheable, AcquireHit, AcquireOverBudget, AcquireThrows
  <2>3. \A id \in DOMAIN entries' : id \in DOMAIN entries /\ entries'[id] = entries[id]
    BY <2>2 DEF Without
  <2> QED BY <1>1, <1>4, <2>1, <2>3
<1>7. CASE Clear \/ \E S \in SUBSET Slots : RetainOnly(S)
  <2>1. UNCHANGED <<tensors, nextId>> /\ \E ids : entries' = Without(ids)
    BY <1>7 DEF Clear, RetainOnly, hostVars
  <2>2. \A id \in DOMAIN entries' : id \in DOMAIN entries /\ entries'[id] = entries[id]
    BY <2>1 DEF Without
  <2> QED BY <1>1, <1>4, <2>1, <2>2
<1>8. CASE SetBudgetBytes \/ SetVerifyContent \/ UNCHANGED vars
  BY <1>1, <1>4, <1>8 DEF SetBudgetBytes, SetVerifyContent, vars, hostVars, cacheVars
<1> QED BY <1>3, <1>5, <1>6, <1>7, <1>8 DEF Next

\* During a run the cache holds copies of arguments, one for each at most.
LEMMA ResidentIsBounded ==
  ASSUME TypeOK, ResidentExact, GraphTypeOK, OnlyLiveWeights, StoredShape, CopiesSized
  PROVE  ResidentBound
<1> SUFFICES ASSUME pc # "idle" PROVE resident <= Bytes(ValueSizes, 1 .. NumInputs)
  BY DEF ResidentBound
<1> DEFINE S == DOMAIN entries
           T == 1 .. NumInputs
           f == [id \in S |-> CHOOSE i \in T : tensors[passed[i]].id = id]
<1>1. passed \in Callings /\ DOMAIN passed = T /\ \A i \in T : passed[i] \in Slots
  <2>1. passed \in Callings /\ passed \in Seq(Slots) /\ Len(passed) = NumInputs
    BY ScheduledGraphAssumption DEF GraphTypeOK
  <2> QED BY <2>1
<1>2. \A id \in S : \E i \in T : tensors[passed[i]].id = id
  BY <1>1 DEF OnlyLiveWeights
<1>3. \A id \in S : f[id] \in T /\ tensors[passed[f[id]]].id = id
  BY <1>2
<1>4. f \in [S -> T] /\ \A i, j \in S : i # j => f[i] # f[j]
  BY <1>3
<1>5. \A id \in S : entries[id].bytes = ValueSizes[f[id]].bytes
  <2> TAKE id \in S
  <2>1. PICK i \in T : i = f[id] /\ tensors[passed[i]].id = id
    BY <1>3
  <2>2. entries[id].bytes = tensors[passed[i]].bytes
    BY <1>1, <2>1 DEF CopiesSized
  <2>3. tensors[passed[i]].bytes = Elems[i]
    BY <2>1 DEF StoredShape
  <2>4. ValueSizes[i].bytes = Elems[i]
    BY <2>1, GraphSizes
  <2> QED BY <2>1, <2>2, <2>3, <2>4
<1>6. IsFiniteSet(S) /\ resident = Bytes(entries, S)
  BY EntryBytes DEF ResidentExact
<1>7. IsFiniteSet(T) /\ \A i \in T : ValueSizes[i].bytes \in Nat
  BY GraphSizes, FS_Subset
<1> HIDE DEF S, T, f
<1>8. Bytes(entries, S) <= Bytes(ValueSizes, T)
  BY <1>4, <1>5, <1>6, <1>7, BytesInjected
<1> QED BY <1>6, <1>8 DEF T


\* The values there are so far, and those with the output of the next node.
LEMMA ComputedMore ==
  /\ Computed(0) = 1 .. NumInputs
  /\ \A n \in DOMAIN Nodes :
       /\ Bytes(ValueSizes, Computed(n)) = Elems[Nodes[n].out] + Bytes(ValueSizes, Computed(n - 1))
       /\ Bytes(ValueSizes, Computed(n)) <= Bytes(ValueSizes, DOMAIN Elems)
       /\ Elems[Nodes[n].out] \in Nat
       /\ Bytes(ValueSizes, Computed(n)) \in Nat
       /\ Bytes(ValueSizes, Computed(n - 1)) \in Nat
       /\ Bytes(ValueSizes, DOMAIN Elems) \in Nat
<1>1. Computed(0) = 1 .. NumInputs
  BY DEF Computed
<1>2. ASSUME NEW n \in DOMAIN Nodes
      PROVE  /\ Bytes(ValueSizes, Computed(n)) = Elems[Nodes[n].out] + Bytes(ValueSizes, Computed(n - 1))
             /\ Bytes(ValueSizes, Computed(n)) <= Bytes(ValueSizes, DOMAIN Elems)
             /\ Elems[Nodes[n].out] \in Nat
             /\ Bytes(ValueSizes, Computed(n)) \in Nat
             /\ Bytes(ValueSizes, Computed(n - 1)) \in Nat
             /\ Bytes(ValueSizes, DOMAIN Elems) \in Nat
  <2>1. n \in Nat \ {0} /\ \A k \in 1 .. n : k \in DOMAIN Nodes
    BY GraphShape
  <2>2. Computed(n) \in SUBSET DOMAIN Elems /\ Computed(n - 1) \in SUBSET DOMAIN Elems
    BY <2>1, ValueShape DEF Computed
  <2>3. Nodes[n].out \in Computed(n)
    BY <2>1 DEF Computed
  <2>4. \A k \in 1 .. n - 1 : k \in DOMAIN Nodes /\ k # n
    BY <2>1
  <2>5. Nodes[n].out \notin 1 .. NumInputs /\ \A k \in 1 .. n - 1 : Nodes[k].out # Nodes[n].out
    BY <2>4, ValueShape, ScheduledGraphAssumption
  <2>6. \A k \in 1 .. n : k \in 1 .. n - 1 \/ k = n
    BY <2>1
  <2>7. Computed(n) \ {Nodes[n].out} = Computed(n - 1)
    BY <2>1, <2>5, <2>6 DEF Computed
  <2>8. IsFiniteSet(DOMAIN Elems) /\ \A v \in DOMAIN Elems : ValueSizes[v].bytes \in Nat
        /\ ValueSizes[Nodes[n].out].bytes = Elems[Nodes[n].out]
    BY <2>2, <2>3, GraphSizes
  <2>9. IsFiniteSet(Computed(n))
    BY <2>2, <2>8, FS_Subset
  <2>10. Bytes(ValueSizes, Computed(n)) = Elems[Nodes[n].out] + Bytes(ValueSizes, Computed(n - 1))
    BY <2>2, <2>3, <2>7, <2>8, <2>9, BytesWithout
  <2>11. Bytes(ValueSizes, Computed(n)) <= Bytes(ValueSizes, DOMAIN Elems)
         /\ Bytes(ValueSizes, Computed(n)) \in Nat /\ Bytes(ValueSizes, DOMAIN Elems) \in Nat
    BY <2>2, <2>8, BytesPart
  <2>12. Bytes(ValueSizes, Computed(n - 1)) \in Nat
    BY <2>2, <2>8, BytesPart
  <2>13. Elems[Nodes[n].out] \in Nat
    BY <2>2, <2>3, GraphSizes
  <2> QED BY <2>10, <2>11, <2>12, <2>13
<1> QED BY <1>1, <1>2

\* CountedBound, one step: a run starts from what the cache holds after its sweep,
\* and counts the output of a node placed on the device once.
LEMMA StepCountedBound ==
  ASSUME TypeOK, ResidentExact, GraphTypeOK, AccountedInv, AccountedInv', ResidentBound',
         CountedBound, [GraphNext]_graphVars
  PROVE  CountedBound'
<1>1. ASSUME NEW p \in Callings, Begin(p) PROVE CountedBound'
  <2>1. pc = "idle" /\ pc' = "decide" /\ at' = 1 /\ owned' = owned /\ counted' = cuda'
    BY <1>1 DEF Begin, Sweep
  <2>2. OwnedCuda' = 0
    BY <2>1, OwnedCudaNone DEF AccountedInv
  <2>3. resident' \in Nat
    <3>1. TypeOK' /\ ResidentExact'
      BY GraphStepUsesCache, StepTypeOK, StepResidentExact
    <3>2. IsFiniteSet(DOMAIN entries') /\ \A id \in DOMAIN entries' : entries'[id].bytes \in Nat
      BY <3>1 DEF TypeOK, Entry
    <3>3. resident' = Bytes(entries', DOMAIN entries')
      BY <3>1 DEF ResidentExact, BytesOf, Bytes, MapThenSumSet, MapThenFoldSet
    <3> QED BY <3>2, <3>3, BytesNatural
  <2>4. cuda' \in Nat /\ cuda' <= resident' + OwnedCuda'
    BY DEF AccountedInv, Accounts
  <2>5. resident' <= Bytes(ValueSizes, 1 .. NumInputs)
    BY <2>1 DEF ResidentBound
  <2>6. Bytes(ValueSizes, 1 .. NumInputs) \in Nat
    BY GraphSizes, BytesPart
  <2>7. counted' \in Nat /\ counted' <= Bytes(ValueSizes, Computed(0))
    <3>1. Computed(0) = 1 .. NumInputs
      BY ComputedMore
    <3>2. cuda' \in Nat /\ cuda' <= resident'
      <4>1. \A r \in Nat : r + 0 = r
        OBVIOUS
      <4>2. resident' + OwnedCuda' = resident'
        BY <2>2, <2>3, <4>1, Zenon
      <4> QED BY <2>4, <4>2, Zenon
    <3>3. cuda' <= Bytes(ValueSizes, 1 .. NumInputs)
      BY <2>3, <2>5, <2>6, <3>2
    <3> QED BY <2>1, <3>1, <3>2, <3>3
  <2>8. at' - 1 = 0
    BY <2>1
  <2> QED BY <2>7, <2>8 DEF CountedBound
<1>2. CASE RunNode
  <2>1. /\ pc = "run" /\ at' = at + 1 /\ at \in DOMAIN Nodes /\ pc # "idle"
        /\ counted' = IF Target = "CUDA" THEN counted + Elems[Node.out] ELSE counted
    BY <1>2 DEF RunNode, GraphTypeOK, InNode
  <2>2. counted \in Nat /\ counted <= Bytes(ValueSizes, Computed(at - 1))
    BY <2>1 DEF CountedBound
  <2>3. counted' \in Nat /\ counted' <= Bytes(ValueSizes, Computed(at))
    BY <2>1, <2>2, ComputedMore DEF Node
  <2>4. at' - 1 = at
    BY <2>1, GraphShape
  <2> QED BY <2>3, <2>4 DEF CountedBound
<1>3. ASSUME UNCHANGED <<counted, at>>, pc' # "idle" => pc # "idle" PROVE CountedBound'
  BY <1>3 DEF CountedBound
<1>4. CASE \E p \in Callings : BeginRejected(p)
  BY <1>3, <1>4 DEF BeginRejected, runVars
<1>5. CASE Place \/ TakeCached \/ CacheRefuses \/ CacheThrows
  BY <1>3, <1>5 DEF Place, TakeCached, CacheRefuses, CacheThrows, Unwind
<1>6. CASE EnsureDevice \/ EnsureThrows \/ AllocOutput \/ AllocThrows \/ RunThrows
  BY <1>3, <1>6 DEF EnsureDevice, Ensuring, EnsureThrows, AllocOutput, AllocThrows, RunThrows, Unwind
<1>7. CASE MoveOutput \/ CopyOutput \/ CopyThrows \/ Return
  BY <1>3, <1>7 DEF MoveOutput, CopyOutput, CopyThrows, Return, NextOutput, Unwind
<1>8. CASE CallerStep
  <2>1. Edit
    BY <1>8 DEF CallerStep, WriteTensor, FreezeTensor, ReplaceTensor, Configure,
       SetVramBudgetBytes, SetTransferBandwidthBytesPerNs,
       SetWeightCacheEnabled, ReleaseDeviceWeights, ResetStats
  <2> QED BY <1>3, <2>1 DEF Edit, runVars
<1>9. CASE UNCHANGED graphVars
  BY <1>3, <1>9 DEF graphVars, runVars
<1> QED
  BY <1>1, <1>2, <1>4, <1>5, <1>6, <1>7, <1>8, <1>9 DEF GraphNext, RunStep

\* An input of the node to be placed, with the size, the device and the say of
\* the cache that Steady gives it.
LEMMA RawInputSteady ==
  ASSUME GraphTypeOK, StoredShape, pc = "decide", NEW i \in DOMAIN Node.in,
         \A v \in 1 .. NumInputs :
           IsCacheable(tensors[passed[v]]) => CanAdmit(tensors[passed[v]])
  PROVE  /\ Served(RawIns[i]) <=> IsWeight(tensors, passed, cacheOn, Nodes[at].in[i])
         /\ BytesAt(RawIns[i]) = InputSizes(at)[i].bytes
         /\ DeviceOf(RawIns[i]) = DeviceIn(tensors, passed, schedule, Nodes[at].in[i])
<1> DEFINE v == Nodes[at].in[i]
<1>1. /\ at \in DOMAIN Nodes /\ i \in DOMAIN Nodes[at].in
      /\ RawIns[i] = storage[v] /\ InputSizes(at)[i].bytes = Elems[v]
  BY GraphSizes DEF GraphTypeOK, RawIns, Node
<1>2. \/ v \in 1 .. NumInputs
      \/ \E l \in 1 .. at - 1 : l \in DOMAIN Nodes /\ v = Nodes[l].out
  BY <1>1, ValueShape
<1> HIDE DEF v
<1>3. CASE v \in 1 .. NumInputs
  <2>1. storage[v] = Host(passed[v]) /\ tensors[passed[v]].bytes = Elems[v]
    BY <1>3 DEF StoredShape
  <2>2. Host(passed[v]).at = "host" /\ Host(passed[v]).slot = passed[v]
    BY DEF Host
  <2>3. Served(RawIns[i]) <=> IsWeight(tensors, passed, cacheOn, v)
    BY <1>1, <1>3, <2>1, <2>2 DEF Served, IsWeight, CanAdmit
  <2>4. BytesAt(RawIns[i]) = Elems[v]
    BY <1>1, <2>1, <2>2 DEF BytesAt
  <2>5. DeviceOf(RawIns[i]) = DeviceIn(tensors, passed, schedule, v)
    BY <1>1, <1>3, <2>1, <2>2 DEF DeviceOf, DeviceIn
  <2> QED BY <1>1, <2>3, <2>4, <2>5 DEF v
<1>4. ASSUME NEW l \in 1 .. at - 1, l \in DOMAIN Nodes, v = Nodes[l].out
      PROVE  /\ Served(RawIns[i]) <=> IsWeight(tensors, passed, cacheOn, v)
             /\ BytesAt(RawIns[i]) = Elems[v]
             /\ DeviceOf(RawIns[i]) = DeviceIn(tensors, passed, schedule, v)
  <2>1. PICK j \in DOMAIN owned :
          /\ storage[v] = Owned(j) /\ owned[j].device = schedule[l] /\ owned[j].bytes = Elems[v]
    <3>1. HasOutput(l)
      BY <1>4 DEF StoredShape
    <3> QED BY <1>4, <3>1 DEF HasOutput
  <2>2. Owned(j).at = "owned" /\ Owned(j).k = j
    BY DEF Owned
  <2>3. v \notin 1 .. NumInputs /\ (CHOOSE k \in DOMAIN Nodes : Nodes[k].out = v) = l
    BY <1>4, ValueShape, ScheduledGraphAssumption
  <2>4. Served(RawIns[i]) <=> IsWeight(tensors, passed, cacheOn, v)
    BY <1>1, <2>1, <2>2, <2>3 DEF Served, IsWeight
  <2>5. BytesAt(RawIns[i]) = Elems[v]
    BY <1>1, <2>1, <2>2 DEF BytesAt
  <2>6. DeviceOf(RawIns[i]) = DeviceIn(tensors, passed, schedule, v)
    BY <1>1, <2>1, <2>2, <2>3 DEF DeviceOf, DeviceIn
  <2> QED BY <2>4, <2>5, <2>6
<1> QED BY <1>1, <1>2, <1>3, <1>4 DEF v

\* Nor does one thing take more than all together.
LEMMA BytesOfOne ==
  ASSUME NEW e, NEW S, IsFiniteSet(S), \A i \in S : e[i].bytes \in Nat, NEW a \in S
  PROVE  e[a].bytes <= Bytes(e, S)
<1>1. Bytes(e, S) = e[a].bytes + Bytes(e, S \ {a})
  BY BytesWithout
<1>2. S \ {a} \in SUBSET S
  OBVIOUS
<1>3. Bytes(e, S \ {a}) \in Nat
  BY <1>2, BytesPart
<1> QED BY <1>1, <1>3

\* With ample room the cache admits every weight among the arguments, whatever it
\* holds at the moment.
LEMMA AmpleAdmits ==
  ASSUME TypeOK, ResidentExact, StoredShape, ResidentBound, AmpleRoom, pc # "idle",
         NEW v \in 1 .. NumInputs
  PROVE  tensors[passed[v]].bytes <= budget /\ resident + tensors[passed[v]].bytes <= budget
<1>1. IsFiniteSet(1 .. NumInputs) /\ \A i \in 1 .. NumInputs : ValueSizes[i].bytes \in Nat
  BY GraphSizes, FS_Subset
<1>2. ValueSizes[v].bytes <= Bytes(ValueSizes, 1 .. NumInputs)
  BY <1>1, BytesOfOne
<1>3. Bytes(ValueSizes, 1 .. NumInputs) \in Nat
  BY <1>1, BytesPart
<1>4. tensors[passed[v]].bytes = Elems[v] /\ ValueSizes[v].bytes = Elems[v] /\ Elems[v] \in Nat
  BY GraphSizes DEF StoredShape
<1>5. /\ resident \in Nat /\ resident <= Bytes(ValueSizes, 1 .. NumInputs)
      /\ budget >= 2 * Bytes(ValueSizes, 1 .. NumInputs) /\ budget \in Nat
  BY EntryBytes, AmpleNumbers, WeightCacheAssumption DEF ResidentBound, TypeOK
<1> QED BY <1>2, <1>3, <1>4, <1>5

\* With ample room a node goes where Steady says.
LEMMA PlaceSteady ==
  ASSUME TypeOK, ResidentExact, GraphTypeOK, StoredShape, ResidentBound, CountedBound, AmpleRoom,
         vram \in Nat, pc = "decide"
  PROVE  Decide(Profiles[Node.op], DemandOf(RawIns), CtxNow)
           = Steady(tensors, passed, cacheOn, bandwidth, schedule, at)
<1> DEFINE others == Others(tensors, passed, cacheOn, at)
           d == [elems  |-> Elems[Nodes[at].out],
                 in     |-> Bytes(InputSizes(at), others),
                 out    |-> Elems[Nodes[at].out],
                 on_gpu |-> Nodes[at].in # <<>>
                              /\ \A i \in others :
                                   DeviceIn(tensors, passed, schedule, Nodes[at].in[i]) = "CUDA"]
           c == [allocated |-> 0, budget |-> 0, bandwidth |-> bandwidth]
<1>1. at \in DOMAIN Nodes /\ pc # "idle"
  BY DEF GraphTypeOK
<1>2. \A v \in 1 .. NumInputs : IsCacheable(tensors[passed[v]]) => CanAdmit(tensors[passed[v]])
  BY <1>1, AmpleAdmits DEF CanAdmit
<1>3. \A i \in DOMAIN Nodes[at].in :
        /\ Served(RawIns[i]) <=> IsWeight(tensors, passed, cacheOn, Nodes[at].in[i])
        /\ BytesAt(RawIns[i]) = InputSizes(at)[i].bytes
        /\ DeviceOf(RawIns[i]) = DeviceIn(tensors, passed, schedule, Nodes[at].in[i])
  BY <1>2, RawInputSteady DEF Node
<1>4. DOMAIN RawIns = DOMAIN Nodes[at].in
  BY DEF RawIns, Node
<1>5. {i \in DOMAIN RawIns : ~ Served(RawIns[i])} = others
  BY <1>3, <1>4 DEF Others
<1>6. MapThenSumSet(LAMBDA i : BytesAt(RawIns[i]), others) = Bytes(InputSizes(at), others)
  <2>1. \A i \in others : BytesAt(RawIns[i]) = InputSizes(at)[i].bytes
    BY <1>3 DEF Others
  <2> HIDE DEF others
  <2> QED BY <2>1, DemandBytes
<1>7. RawIns # <<>> <=> Nodes[at].in # <<>>
  BY <1>1, GraphShape DEF RawIns, Node
<1>8. DemandOf(RawIns).on_gpu = d.on_gpu
  <2>1. DemandOf(RawIns).on_gpu = (RawIns # <<>> /\ \A i \in others : DeviceOf(RawIns[i]) = "CUDA")
    BY <1>5 DEF DemandOf
  <2>2. (\A i \in others : DeviceOf(RawIns[i]) = "CUDA")
          <=> (\A i \in others : DeviceIn(tensors, passed, schedule, Nodes[at].in[i]) = "CUDA")
    BY <1>3 DEF Others
  <2> QED BY <1>7, <2>1, <2>2
<1>9. DemandOf(RawIns).in = d.in
  BY <1>5, <1>6 DEF DemandOf
<1>10. DemandOf(RawIns) = d
  BY <1>8, <1>9 DEF DemandOf, Node
<1>11. FitsVram(d, CtxNow)
  <2>1. IsFiniteSet(DOMAIN Nodes[at].in) /\ \A i \in DOMAIN Nodes[at].in : InputSizes(at)[i].bytes \in Nat
    BY <1>1, GraphSizes
  <2>2. others \in SUBSET DOMAIN Nodes[at].in
    BY DEF Others
  <2>3. /\ d.in \in Nat /\ d.in <= Bytes(InputSizes(at), DOMAIN Nodes[at].in)
        /\ Bytes(InputSizes(at), DOMAIN Nodes[at].in) \in Nat
    <3> HIDE DEF others
    <3> QED BY <2>1, <2>2, BytesPart
  <2>4. Sent(d) \in Nat /\ Sent(d) <= d.in
    <3> HIDE DEF others
    <3> QED BY <2>3 DEF Sent
  <2>5. vram >= Bytes(ValueSizes, DOMAIN Elems) + Bytes(InputSizes(at), DOMAIN Nodes[at].in)
    BY <1>1, AmpleNumbers
  <2>6. counted \in Nat /\ counted <= Bytes(ValueSizes, Computed(at - 1))
    BY <1>1 DEF CountedBound
  <2>7. counted + d.out <= Bytes(ValueSizes, DOMAIN Elems)
        /\ d.out \in Nat /\ Bytes(ValueSizes, DOMAIN Elems) \in Nat
    BY <1>1, <2>6, ComputedMore
  <2>8. CtxNow.allocated = counted /\ CtxNow.budget = vram
    BY DEF CtxNow
  <2> HIDE DEF d, others
  <2> QED BY <2>3, <2>4, <2>5, <2>6, <2>7, <2>8 DEF FitsVram
<1>12. GpuCost(Profiles[Node.op], d, CtxNow) = GpuCost(Profiles[Node.op], d, c)
       /\ CpuCost(Profiles[Node.op], d, CtxNow) = CpuCost(Profiles[Node.op], d, c)
  <2>1. CtxNow.bandwidth = c.bandwidth
    BY DEF CtxNow
  <2> HIDE DEF d, c
  <2> QED BY <2>1 DEF GpuCost, CpuCost
<1>13. Decide(Profiles[Node.op], d, CtxNow)
         = IF /\ Profiles[Nodes[at].op].known /\ Profiles[Nodes[at].op].cuda_supported
              /\ GpuCost(Profiles[Nodes[at].op], d, c) < CpuCost(Profiles[Nodes[at].op], d, c)
           THEN "CUDA" ELSE "CPU"
  <2> HIDE DEF d, c
  <2> QED BY <1>11, <1>12 DEF Decide, Node
<1> QED BY <1>10, <1>13 DEF Steady

\* StableInv through a step that places nothing and leaves the arguments, the
\* configuration and the cache's budget alone,
LEMMA StableKept ==
  ASSUME StableInv, pc # "idle", pc' # "idle",
         UNCHANGED <<tensors, passed, cacheOn, bandwidth, budget, vram, before, repeat, schedule>>
  PROVE  StableInv'
<1>1. AmpleRoom' => AmpleRoom
  BY DEF AmpleRoom
<1>2. Repeating' => Repeating
  BY DEF Repeating
<1>3. \A n : Follows(schedule, n) => Follows(schedule, n)'
  BY DEF Follows
<1>4. \A n : Follows(before, n) => Follows(before, n)'
  BY DEF Follows
<1>5. Len(schedule') = Len(schedule)
  OBVIOUS
<1> QED BY <1>1, <1>2, <1>3, <1>4, <1>5 DEF StableInv

\* and through one that ends the repetition.
LEMMA StableEnds ==
  ASSUME StableInv, pc' = "idle", ~ settled', before' = before
  PROVE  StableInv'
BY DEF StableInv, Repeating

\* What acquire() in a run leaves alone.
LEMMA AcquireLeaves ==
  ASSUME GraphTypeOK, TakeCached \/ CacheRefuses
  PROVE  /\ UNCHANGED <<tensors, budget, verify, passed, cacheOn, bandwidth, vram, before, repeat, settled,
                        schedule, at, storage>>
         /\ pc = "transfer" /\ pc' # "idle"
<1>1. PICK s \in Slots : RawIns[arg].slot = s
  BY CacheInputIsSlot DEF TakeCached, CacheRefuses
<1>2. AcquireHit(s) \/ AcquireUpload(s) \/ AcquireOverBudget(s)
  BY <1>1 DEF TakeCached, CacheRefuses
<1>3. UNCHANGED <<tensors, budget, verify>>
  BY <1>2 DEF AcquireHit, AcquireUpload, AcquireOverBudget, hostVars
<1>4. /\ UNCHANGED <<passed, cacheOn, bandwidth, vram, before, repeat, settled, schedule, at, storage>>
      /\ pc = "transfer" /\ pc' # "idle"
  BY DEF TakeCached, CacheRefuses, TakeInput, configVars, historyVars
<1> QED BY <1>3, <1>4

\* What a step of the caller that only writes activations leaves alone.
LEMMA ActivationsOnly ==
  ASSUME TypeOK, NEW s \in Slots, WriteTensor(s)
  PROVE  /\ pc = "idle" /\ pc' = "idle"
         /\ UNCHANGED <<entries, verify, budget, stats, passed, cacheOn, bandwidth, vram, before, repeat, settled,
                        at, schedule>>
         /\ \A r \in Slots :
              /\ tensors'[r].device = tensors[r].device
              /\ IsCacheable(tensors'[r]) <=> IsCacheable(tensors[r])
              /\ IsCacheable(tensors[r]) => tensors'[r] = tensors[r]
<1>1. /\ pc = "idle" /\ pc' = "idle"
      /\ UNCHANGED <<entries, verify, budget, stats, passed, cacheOn, bandwidth, vram, before, repeat, settled,
                     at, schedule>>
  BY DEF WriteTensor, Edit, runVars, cacheVars, configVars
<1>2. PICK v : tensors' = [tensors EXCEPT ![s].val = v]
  BY DEF WriteTensor, Write
<1>3. tensors \in [Slots -> Tensor \cup {NoTensor}] /\ tensors[s].gen = 0
  BY DEF TypeOK, HostTypeOK, WriteTensor, Write
<1>4. ASSUME NEW r \in Slots
      PROVE  /\ tensors'[r].device = tensors[r].device
             /\ IsCacheable(tensors'[r]) <=> IsCacheable(tensors[r])
             /\ IsCacheable(tensors[r]) => tensors'[r] = tensors[r]
  <2>1. CASE r # s
    BY <1>2, <1>3, <2>1
  <2>2. CASE r = s
    <3>1. tensors'[r] = [tensors[s] EXCEPT !.val = v]
      BY <1>2, <1>3, <2>2
    <3>2. tensors[s] \in Tensor \cup {NoTensor}
      BY <1>3
    <3>3. tensors'[r].device = tensors[r].device /\ tensors'[r].gen = tensors[r].gen
      BY <2>2, <3>1, <3>2 DEF Tensor, NoTensor
    <3> QED BY <1>3, <2>2, <3>3 DEF IsCacheable
  <2> QED BY <2>1, <2>2
<1> QED BY <1>1, <1>4

\* StableInv, one step.
LEMMA StepStableInv ==
  ASSUME TypeOK, ResidentExact, GraphTypeOK, StoredShape, ResidentBound, CountedBound,
         vram \in Nat, StableInv, [GraphNext]_graphVars
  PROVE  StableInv'
<1>1. ASSUME NEW p \in Callings, Begin(p) PROVE StableInv'
  <2>1. /\ pc = "idle" /\ pc' = "decide" /\ passed' = p /\ schedule' = <<>>
        /\ repeat' = (settled /\ p = passed)
        /\ UNCHANGED <<tensors, cacheOn, bandwidth, budget, vram, before>>
    BY <1>1 DEF Begin, Sweep, RetainOnly, vars, hostVars, cacheVars, configVars
  <2>2. AmpleRoom' => AmpleRoom
    BY <2>1 DEF AmpleRoom
  <2>3. Repeating' => Repeating /\ p = passed
    BY <2>1 DEF Repeating
  <2>4. p = passed => \A n : Follows(before, n) => Follows(before, n)'
    BY <2>1 DEF Follows
  <2>5. Follows(schedule, Len(schedule))'
    <3>1. Len(schedule') = 0
      BY <2>1
    <3> QED BY <3>1 DEF Follows
  <2>6. DOMAIN schedule' = {}
    BY <2>1
  <2> QED BY <2>1, <2>2, <2>3, <2>4, <2>5, <2>6 DEF StableInv
<1>2. CASE Place
  <2> DEFINE d == Decide(Profiles[Node.op], DemandOf(RawIns), CtxNow)
  <2>1. /\ pc = "decide" /\ pc' # "idle" /\ schedule' = Append(schedule, d)
        /\ UNCHANGED <<tensors, passed, cacheOn, bandwidth, budget, vram, before, repeat, settled>>
    BY <1>2 DEF Place, vars, hostVars, cacheVars, configVars, historyVars
  <2> HIDE DEF d
  <2>2. /\ at \in DOMAIN Nodes /\ at \in Nat /\ Len(schedule) = at - 1 /\ pc # "idle"
        /\ SequenceOf(schedule)
    <3>1. SequenceOf(schedule)
      BY DEF GraphTypeOK, SequenceOf
    <3>2. at \in DOMAIN Nodes /\ Len(schedule) = at - 1
      BY <2>1 DEF GraphTypeOK
    <3> QED BY <2>1, <3>1, <3>2, GraphShape
  <2>3. /\ DOMAIN schedule = 1 .. at - 1
        /\ DOMAIN schedule' = 1 .. at /\ Len(schedule') = at
        /\ \A k \in 1 .. at - 1 : schedule'[k] = schedule[k]
        /\ schedule'[at] = d
    BY <2>1, <2>2, AppendTo
  <2>4. AmpleRoom' => AmpleRoom
    BY <2>1 DEF AmpleRoom
  <2>5. Repeating' => Repeating
    BY <2>1, <2>2 DEF Repeating
  <2>6. \A n : Follows(before, n) => Follows(before, n)'
    BY <2>1 DEF Follows
  <2>7. ASSUME AmpleRoom PROVE d = Steady(tensors, passed, cacheOn, bandwidth, schedule, at)
    BY <2>1, <2>7, PlaceSteady DEF d
  <2> PICK t : t = schedule'
    OBVIOUS
  <2>8. ASSUME AmpleRoom PROVE \A k \in 1 .. at : t[k] = Steady(tensors, passed, cacheOn, bandwidth, t, k)
    <3> TAKE k \in 1 .. at
    <3>1. k \in DOMAIN Nodes /\ \A l \in 1 .. k - 1 : l \in 1 .. at - 1
      BY <2>2, GraphShape
    <3>2. \A l \in 1 .. k - 1 : schedule[l] = t[l]
      BY <2>3, <3>1
    <3>3. Steady(tensors, passed, cacheOn, bandwidth, schedule, k) = Steady(tensors, passed, cacheOn, bandwidth, t, k)
      BY <3>1, <3>2, SteadySame
    <3>4. CASE k = at
      BY <2>3, <2>7, <2>8, <3>3, <3>4
    <3>5. CASE k # at
      <4>1. k \in 1 .. at - 1
        BY <2>2, <3>5
      <4>2. Follows(schedule, at - 1)
        BY <2>2, <2>8 DEF StableInv
      <4>3. schedule[k] = Steady(tensors, passed, cacheOn, bandwidth, schedule, k)
        BY <4>1, <4>2 DEF Follows
      <4> QED BY <2>3, <3>3, <4>1, <4>3
    <3> QED BY <3>4, <3>5
  <2>9. ASSUME AmpleRoom PROVE Follows(schedule, Len(schedule))'
    BY <2>1, <2>3, <2>8, <2>9 DEF Follows
  <2>10. ASSUME AmpleRoom, repeat PROVE \A k \in 1 .. at : t[k] = before[k]
    <3>1. Follows(before, Len(Nodes)) /\ \A k \in 1 .. at - 1 : schedule[k] = before[k]
      BY <2>2, <2>3, <2>10 DEF StableInv, Repeating
    <3>2. before[at] = Steady(tensors, passed, cacheOn, bandwidth, before, at)
      BY <2>2, <3>1, GraphShape DEF Follows
    <3>3. Steady(tensors, passed, cacheOn, bandwidth, schedule, at) = Steady(tensors, passed, cacheOn, bandwidth, before, at)
      BY <2>2, <3>1, SteadySame
    <3>4. t[at] = before[at]
      BY <2>3, <2>7, <2>10, <3>2, <3>3
    <3>5. \A k \in 1 .. at : k \in 1 .. at - 1 \/ k = at
      BY <2>2
    <3> QED BY <2>3, <3>1, <3>4, <3>5
  <2> QED BY <2>1, <2>2, <2>3, <2>4, <2>5, <2>6, <2>9, <2>10 DEF StableInv
<1>3. CASE TakeCached \/ CacheRefuses
  BY <1>3, AcquireLeaves, StableKept
<1>4. CASE EnsureDevice \/ AllocOutput
  <2>1. /\ pc # "idle" /\ pc' # "idle"
        /\ UNCHANGED <<passed, cacheOn, bandwidth, vram, before, repeat, schedule>>
    BY <1>4 DEF EnsureDevice, Ensuring, AllocOutput, TakeInput, configVars, historyVars
  <2>2. UNCHANGED <<tensors, budget>>
    BY <1>4 DEF EnsureDevice, AllocOutput, Own, ConstructElsewhere, vars, hostVars, cacheVars
  <2> QED BY <2>1, <2>2, StableKept
<1>5. CASE RunNode \/ MoveOutput \/ CopyOutput
  <2>1. /\ pc # "idle" /\ pc' # "idle"
        /\ UNCHANGED <<passed, cacheOn, bandwidth, vram, before, repeat, schedule>>
    BY <1>5 DEF RunNode, MoveOutput, CopyOutput, NextOutput, configVars, historyVars
  <2>2. UNCHANGED <<tensors, budget>>
    BY <1>5 DEF RunNode, MoveOutput, CopyOutput, ConstructElsewhere, vars, hostVars, cacheVars
  <2> QED BY <2>1, <2>2, StableKept
<1>6. CASE CacheThrows \/ EnsureThrows \/ AllocThrows \/ RunThrows \/ CopyThrows
  <2>1. pc' = "idle" /\ ~ settled' /\ before' = before
    BY <1>6 DEF CacheThrows, EnsureThrows, AllocThrows, RunThrows, CopyThrows, Unwind
  <2> QED BY <2>1, StableEnds
<1>7. CASE Return
  <2>1. /\ pc = "collect" /\ pc' = "idle" /\ before' = schedule
        /\ UNCHANGED <<tensors, passed, cacheOn, bandwidth, budget, vram>>
    BY <1>7 DEF Return, vars, hostVars, cacheVars, configVars
  <2>2. schedule \in Seq({"CPU", "CUDA"}) /\ passed \in Callings
        /\ Len(passed) = NumInputs /\ Len(schedule) = Len(Nodes)
    BY <2>1 DEF GraphTypeOK, StoredShape
  <2>3. AmpleRoom' => AmpleRoom
    BY <2>1 DEF AmpleRoom
  <2>4. AmpleRoom => Follows(before, Len(Nodes))'
    <3>1. AmpleRoom => Follows(schedule, Len(Nodes))
      BY <2>1, <2>2 DEF StableInv
    <3> QED BY <2>1, <3>1 DEF Follows
  <2> QED BY <2>1, <2>2, <2>3, <2>4 DEF StableInv
<1>8. ASSUME NEW s \in Slots, WriteTensor(s) PROVE StableInv'
  <2>1. /\ pc = "idle" /\ pc' = "idle"
        /\ UNCHANGED <<budget, passed, cacheOn, bandwidth, vram, before, settled>>
        /\ \A r \in Slots : /\ tensors'[r].device = tensors[r].device
                            /\ IsCacheable(tensors'[r]) <=> IsCacheable(tensors[r])
    BY <1>8, ActivationsOnly
  <2>2. (AmpleRoom' => AmpleRoom) /\ (Repeating' => Repeating)
    BY <2>1 DEF AmpleRoom, Repeating
  <2>3. ASSUME passed \in Callings, Len(passed) = NumInputs, Follows(before, Len(Nodes)) PROVE Follows(before, Len(Nodes))'
    <3>1. \A v \in 1 .. NumInputs : passed[v] \in Slots
      BY <2>3, ScheduledGraphAssumption
    <3>2. PICK us : us = tensors'
      OBVIOUS
    <3>3. ASSUME NEW k \in 1 .. Len(Nodes)
          PROVE  Steady(tensors, passed, cacheOn, bandwidth, before, k) = Steady(us, passed, cacheOn, bandwidth, before, k)
      <4>1. k \in DOMAIN Nodes
        BY GraphShape
      <4>2. \A v \in 1 .. NumInputs :
              /\ tensors[passed[v]].device = us[passed[v]].device
              /\ IsCacheable(tensors[passed[v]]) <=> IsCacheable(us[passed[v]])
        BY <2>1, <3>1, <3>2
      <4> QED BY <4>1, <4>2, SteadyKept
    <3> QED BY <2>1, <2>3, <3>2, <3>3 DEF Follows
  <2> QED BY <2>1, <2>2, <2>3 DEF StableInv
<1>9. CASE CallerStep /\ ~ \E s \in Slots : WriteTensor(s)
  <2>1. Edit /\ ~ settled'
    BY <1>9 DEF CallerStep, FreezeTensor, ReplaceTensor, Configure,
       SetVramBudgetBytes, SetTransferBandwidthBytesPerNs,
       SetWeightCacheEnabled, ReleaseDeviceWeights, ResetStats
  <2>2. pc' = "idle" /\ before' = before
    BY <2>1 DEF Edit, runVars
  <2> QED BY <2>1, <2>2, StableEnds
<1>10. CASE \E p \in Callings : BeginRejected(p)
  <2>1. pc' = "idle" /\ before' = before /\ ~ settled'
    BY <1>10 DEF BeginRejected, runVars
  <2> QED BY <2>1, StableEnds
<1>11. CASE UNCHANGED graphVars
  <2>1. UNCHANGED <<tensors, budget, pc, passed, cacheOn, bandwidth, vram, before, repeat, settled, schedule>>
    BY <1>11 DEF graphVars, vars, hostVars, cacheVars, runVars, configVars, historyVars
  <2>2. AmpleRoom' = AmpleRoom /\ Repeating' = Repeating
    BY <2>1 DEF AmpleRoom, Repeating
  <2>3. /\ \A n : Follows(before, n) => Follows(before, n)'
        /\ \A n : Follows(schedule, n) => Follows(schedule, n)'
    BY <2>1 DEF Follows
  <2> QED BY <2>1, <2>2, <2>3 DEF StableInv
<1> QED
  BY <1>1, <1>2, <1>3, <1>4, <1>5, <1>6, <1>7, <1>8, <1>9, <1>10, <1>11 DEF GraphNext, RunStep

\* A copy stays valid, and is asked for by the same argument.
LEMMA CopiedKept ==
  ASSUME passed \in Callings, Len(passed) = NumInputs, UNCHANGED <<passed, cacheOn>>,
         NEW k, NEW i, Copied(k, i),
         \A s \in Slots : (\E v \in 1 .. NumInputs : s = passed[v]) /\ cacheOn
                           /\ IsCacheable(tensors'[s]) /\ Valid(tensors[s]) => Valid(tensors[s])',
         \A s \in Slots : IsCacheable(tensors'[s]) => IsCacheable(tensors[s])
  PROVE  Copied(k, i)'
<1>1. \A v \in 1 .. NumInputs : passed[v] \in Slots
  BY ScheduledGraphAssumption
<1> DEFINE v == Nodes[k].in[i]
<1>2. SUFFICES ASSUME v \in 1 .. NumInputs, cacheOn', IsCacheable(tensors'[passed'[v]])
               PROVE  Valid(tensors[passed[v]])'
  BY DEF Copied, IsWeight
<1>3. cacheOn /\ passed[v] \in Slots /\ passed' = passed
  BY <1>1, <1>2
<1>4. IsCacheable(tensors[passed[v]])
  BY <1>2, <1>3
<1>5. Valid(tensors[passed[v]])
  BY <1>2, <1>3, <1>4 DEF Copied, IsWeight
<1> PICK s \in Slots : s = passed[v]
  BY <1>3
<1>6. Valid(tensors[s])'
  BY <1>2, <1>3, <1>5
<1> QED BY <1>3, <1>6

\* CopiedInv through a step of a run that leaves the copies alone,
LEMMA CopiedSame ==
  ASSUME GraphTypeOK, CopiedInv, pc # "idle", pc' # "idle", pc' # "transient",
         UNCHANGED <<passed, cacheOn, budget, vram, before, repeat, at>>,
         \A s \in Slots : IsCacheable(tensors'[s]) /\ Valid(tensors[s]) => Valid(tensors[s])',
         \A s \in Slots : IsCacheable(tensors'[s]) => IsCacheable(tensors[s]),
         \A k \in 1 .. at - 1 : schedule'[k] = schedule[k],
         pc' \in InNode =>
           /\ AmpleRoom /\ Target' = "CUDA" => \A i \in DOMAIN Node.in : i < arg' => Copied(at, i)'
           /\ pc' \in {"alloc", "run"} => arg' > Len(Node.in)
  PROVE  CopiedInv'
<1>1. passed \in Callings /\ Len(passed) = NumInputs
  BY DEF GraphTypeOK
<1>2. ASSUME NEW k, NEW i, Copied(k, i) PROVE Copied(k, i)'
  BY <1>1, <1>2, CopiedKept
<1>3. \A k : AllCopied(k) => AllCopied(k)'
  BY <1>2 DEF AllCopied
<1>4. AmpleRoom' => AmpleRoom
  BY DEF AmpleRoom
<1>5. Repeating' => Repeating
  BY DEF Repeating
<1>6. Node' = Node
  BY DEF Node
<1> QED BY <1>3, <1>4, <1>5, <1>6 DEF CopiedInv, InNode

\* and through one that ends the repetition.
LEMMA CopiedEnds ==
  ASSUME pc' = "idle", ~ settled'
  PROVE  CopiedInv'
BY DEF CopiedInv, Repeating, InNode

\* The input in hand is a variable of the caller just when it is an input of the graph.
LEMMA InputInHandIs ==
  ASSUME GraphTypeOK, StoredShape, pc \in {"transfer", "transient"}
  PROVE  /\ at \in DOMAIN Nodes /\ arg \in DOMAIN Node.in
         /\ Node.in[arg] \in 1 .. NumInputs =>
              RawIns[arg].at = "host" /\ RawIns[arg].slot = passed[Node.in[arg]]
              /\ passed[Node.in[arg]] \in Slots
         /\ Node.in[arg] \notin 1 .. NumInputs => RawIns[arg].at # "host"
<1>1. /\ at \in DOMAIN Nodes /\ arg \in DOMAIN Node.in /\ pc # "idle"
      /\ passed \in Callings /\ Len(passed) = NumInputs
      /\ RawIns[arg] = storage[Node.in[arg]]
  BY InputInHand DEF GraphTypeOK, InNode
<1>2. ASSUME Node.in[arg] \in 1 .. NumInputs
      PROVE  RawIns[arg].at = "host" /\ RawIns[arg].slot = passed[Node.in[arg]]
             /\ passed[Node.in[arg]] \in Slots
  <2>1. storage[Node.in[arg]] = Host(passed[Node.in[arg]])
    BY <1>1, <1>2 DEF StoredShape
  <2>2. passed[Node.in[arg]] \in Slots
    BY <1>1, <1>2, ScheduledGraphAssumption
  <2> QED BY <1>1, <2>1, <2>2 DEF Host
<1>3. ASSUME Node.in[arg] \notin 1 .. NumInputs PROVE RawIns[arg].at # "host"
  <2>1. PICK l \in 1 .. at - 1 : Node.in[arg] = Nodes[l].out
    BY <1>1, <1>3, ValueShape DEF Node
  <2>2. HasOutput(l)
    BY <1>1 DEF StoredShape
  <2>3. PICK j : storage[Node.in[arg]] = Owned(j)
    BY <2>1, <2>2 DEF HasOutput
  <2> QED BY <1>1, <2>3 DEF Owned
<1> QED BY <1>1, <1>2, <1>3

\* With ample room the cache refuses no input.
LEMMA NeverRefused ==
  ASSUME TypeOK, ResidentExact, GraphTypeOK, AccountedInv, StoredShape, ResidentBound, AmpleRoom
  PROVE  ~ CacheRefuses
<1> SUFFICES ASSUME CacheRefuses PROVE FALSE
  OBVIOUS
<1>1. pc = "transfer" /\ RawIns[arg].at = "host" /\ AcquireOverBudget(RawIns[arg].slot)
  BY DEF CacheRefuses, FromCache
<1>2. PICK v \in 1 .. NumInputs : RawIns[arg].slot = passed[v]
  BY <1>1, InputInHandIs
<1> DEFINE t == tensors[passed[v]]
<1>3. t.bytes <= budget /\ resident + t.bytes <= budget
  BY <1>1, AmpleAdmits
<1>4. resident \in Nat /\ StaleBytes(t) \in Nat /\ StaleBytes(t) <= resident
  BY AccountedNumbers
<1>5. t.bytes \in Nat /\ budget \in Nat
  BY <1>1, GraphSizes, WeightCacheAssumption DEF StoredShape, TypeOK
<1>6. ~ Fits(t)
  BY <1>1, <1>2 DEF AcquireOverBudget
<1> HIDE DEF t
<1> QED BY <1>3, <1>4, <1>5, <1>6 DEF Fits

\* CopiedInv, one step.
LEMMA StepCopiedInv ==
  ASSUME TypeOK, CacheInv, ResidentExact, GraphTypeOK, AccountedInv, StoredShape, ResidentBound,
         StableInv, CopiedInv, [GraphNext]_graphVars
  PROVE  CopiedInv'
<1>1. ASSUME NEW p \in Callings, Begin(p) PROVE CopiedInv'
  <2>1. /\ pc = "idle" /\ pc' = "decide" /\ at' = 1 /\ passed' = p
        /\ repeat' = (settled /\ p = passed)
        /\ UNCHANGED <<tensors, verify, cacheOn, budget, vram, before>>
    BY <1>1 DEF Begin, Sweep, RetainOnly, vars, hostVars, cacheVars, configVars
  <2>2. AmpleRoom' => AmpleRoom
    BY <2>1 DEF AmpleRoom
  <2>3. Repeating' => Repeating /\ p = passed
    BY <2>1 DEF Repeating
  <2>4. ASSUME NEW s \in Slots, NEW v \in 1 .. NumInputs, s = p[v], cacheOn,
               IsCacheable(tensors[s]), Valid(tensors[s])
        PROVE  Valid(tensors[s])'
    <3> DEFINE S == {p[i] : i \in DOMAIN p}
               live == {tensors[r].id : r \in {q \in S : IsCacheable(tensors[q])}}
    <3>1. DOMAIN p = 1 .. NumInputs
      <4>1. p \in Seq(Slots) /\ Len(p) = NumInputs
        BY <1>1, ScheduledGraphAssumption DEF Begin
      <4> QED BY <4>1
    <3>2. tensors[s].id \in live
      BY <2>4, <3>1
    <3>3. entries' = Without(DOMAIN entries \ live)
      BY <1>1, <2>4 DEF Begin, Sweep, RetainOnly
    <3> HIDE DEF live
    <3>4. tensors[s].id \in DOMAIN entries
      BY <2>4 DEF Valid, IsResident
    <3>5. tensors[s].id \in DOMAIN entries' /\ entries'[tensors[s].id] = entries[tensors[s].id]
      BY <3>2, <3>3, <3>4 DEF Without
    <3> QED BY <2>1, <2>4, <3>5 DEF Valid, IsResident, Tampered
  <2>5. ASSUME p = passed, NEW k, AllCopied(k) PROVE AllCopied(k)'
    <3>1. passed \in Callings /\ Len(passed) = NumInputs /\ UNCHANGED <<passed, cacheOn>>
      BY <1>1, <2>1, <2>5 DEF Begin
    <3>2. /\ \A s \in Slots : IsCacheable(tensors'[s]) => IsCacheable(tensors[s])
          /\ \A s \in Slots : (\E v \in 1 .. NumInputs : s = passed[v]) /\ cacheOn
                              /\ IsCacheable(tensors'[s]) /\ Valid(tensors[s]) => Valid(tensors[s])'
      BY <2>1, <2>4, <2>5
    <3>3. ASSUME NEW i, Copied(k, i) PROVE Copied(k, i)'
      BY <3>1, <3>2, <3>3, CopiedKept
    <3> QED BY <2>5, <3>3 DEF AllCopied
  <2>6. /\ pc' \notin InNode /\ pc' # "transient" /\ \A k \in 1 .. at' - 1 : FALSE
    BY <2>1 DEF InNode
  <2>7. ASSUME AmpleRoom', Repeating'
        PROVE  \A k \in DOMAIN Nodes : before'[k] = "CUDA" => AllCopied(k)'
    BY <2>1, <2>2, <2>3, <2>5, <2>7 DEF CopiedInv
  <2> QED BY <2>6, <2>7 DEF CopiedInv, InNode
<1>2. CASE Place
  <2>1. /\ pc = "decide" /\ arg' = 1 /\ pc' = IF Node.in = <<>> THEN "alloc" ELSE "transfer"
        /\ UNCHANGED <<tensors, entries, verify, passed, cacheOn, budget, vram, before, repeat, at>>
        /\ \E d : schedule' = Append(schedule, d)
    BY <1>2 DEF Place, vars, hostVars, cacheVars, configVars, historyVars
  <2>2. Len(schedule) = at - 1 /\ at \in DOMAIN Nodes /\ SequenceOf(schedule)
    <3>1. SequenceOf(schedule)
      BY DEF GraphTypeOK, SequenceOf
    <3> QED BY <2>1, <3>1 DEF GraphTypeOK
  <2>3. \A k \in 1 .. at - 1 : schedule'[k] = schedule[k]
    BY <2>1, <2>2, AppendTo
  <2>4. Node.in \in Seq(DOMAIN Elems)
    BY <2>2, GraphShape DEF Node
  <2>5. \A i \in DOMAIN Node.in : ~ (i < arg')
    BY <2>1, <2>4
  <2>6. pc' \in {"alloc", "run"} => arg' > Len(Node.in)
    BY <2>1, <2>4
  <2>7. \A s \in Slots : /\ IsCacheable(tensors'[s]) => IsCacheable(tensors[s])
                         /\ Valid(tensors[s]) => Valid(tensors[s])'
    BY <2>1 DEF Valid, IsResident, Tampered
  <2> QED BY <2>1, <2>3, <2>5, <2>6, <2>7, CopiedSame
<1>3. CASE TakeCached
  <2>1. /\ UNCHANGED <<tensors, budget, passed, cacheOn, vram, before, repeat, schedule, at>>
        /\ pc = "transfer" /\ pc' # "idle"
    BY <1>3, AcquireLeaves
  <2>2. /\ arg' = arg + 1 /\ pc' = IF arg = Len(Node.in) THEN "alloc" ELSE "transfer"
        /\ RawIns[arg].at = "host"
        /\ AcquireHit(RawIns[arg].slot) \/ AcquireUpload(RawIns[arg].slot)
    BY <1>3 DEF TakeCached, TakeInput, FromCache
  <2>3. PICK r \in Slots : r = RawIns[arg].slot /\ r = passed[Node.in[arg]]
    BY <2>1, <2>2, InputInHandIs
  <2>4. \A s \in Slots : Valid(tensors[s]) => Valid(tensors[s])'
    BY <2>2, <2>3, ValidCopiesStay DEF TypeOK, CacheInv
  <2>5. Valid(tensors[r])'
    BY <2>2, <2>3, AnswerValid
  <2>6. at \in DOMAIN Nodes /\ arg \in DOMAIN Node.in /\ Node.in \in Seq(DOMAIN Elems)
    BY <2>1, InputInHandIs, GraphShape DEF Node
  <2>7. Target' = Target
    BY <2>1 DEF Target
  <2> PICK m : m = arg
    OBVIOUS
  <2> PICK n : n = at
    OBVIOUS
  <2>8. Copied(n, m)'
    <3>1. Valid(tensors[passed[Nodes[n].in[m]]])'
      BY <2>1, <2>3, <2>5 DEF Node
    <3> QED BY <3>1 DEF Copied
  <2>9. ASSUME AmpleRoom, Target = "CUDA", NEW i \in DOMAIN Node.in, i < arg' PROVE Copied(n, i)'
    <3>1. CASE i = m
      BY <2>8, <3>1
    <3>2. CASE i # m
      <4>1. i < arg
        BY <2>2, <2>6, <2>9, <3>2
      <4>2. Copied(n, i)
        BY <2>1, <2>9, <4>1 DEF CopiedInv, InNode
      <4> QED BY <2>1, <2>4, <4>2, CopiedKept DEF GraphTypeOK
    <3> QED BY <3>1, <3>2
  <2>10. pc' \in {"alloc", "run"} => arg' > Len(Node.in)
    BY <2>2, <2>6
  <2>11. pc' # "transient"
    BY <2>2
  <2>12. \A s \in Slots : IsCacheable(tensors'[s]) => IsCacheable(tensors[s])
    BY <2>1
  <2>13. AmpleRoom /\ Target' = "CUDA" => \A i \in DOMAIN Node.in : i < arg' => Copied(at, i)'
    BY <2>1, <2>7, <2>9
  <2> QED BY <2>1, <2>4, <2>10, <2>11, <2>12, <2>13, CopiedSame
<1>4. CASE CacheRefuses
  <2>1. UNCHANGED <<budget, vram>>
    BY <1>4, AcquireLeaves
  <2>2. AmpleRoom' => AmpleRoom
    BY <2>1 DEF AmpleRoom
  <2>3. ~ AmpleRoom
    BY <1>4, NeverRefused
  <2> QED BY <2>2, <2>3 DEF CopiedInv
<1>5. CASE EnsureDevice
  <2>1. /\ UNCHANGED <<passed, cacheOn, vram, before, repeat, schedule, at>>
        /\ pc \in {"transfer", "transient"}
        /\ pc = "transient" \/ ~ FromCache(RawIns[arg])
        /\ arg' = arg + 1 /\ pc' = IF arg = Len(Node.in) THEN "alloc" ELSE "transfer"
    BY <1>5 DEF EnsureDevice, Ensuring, TakeInput, configVars, historyVars
  <2>2. UNCHANGED <<tensors, entries, verify, budget>>
    BY <1>5 DEF EnsureDevice, Own, ConstructElsewhere, vars, hostVars, cacheVars
  <2>3. \A s \in Slots : /\ IsCacheable(tensors'[s]) => IsCacheable(tensors[s])
                         /\ Valid(tensors[s]) => Valid(tensors[s])'
    BY <2>2 DEF Valid, IsResident, Tampered
  <2>4. at \in DOMAIN Nodes /\ arg \in DOMAIN Node.in /\ Node.in \in Seq(DOMAIN Elems)
    BY <2>1, InputInHandIs, GraphShape DEF Node
  <2> PICK n : n = at
    OBVIOUS
  <2>5. ASSUME AmpleRoom, Target = "CUDA", NEW i \in DOMAIN Node.in, i < arg' PROVE Copied(n, i)'
    <3>1. pc = "transfer" /\ ~ FromCache(RawIns[arg])
      BY <2>1, <2>5 DEF CopiedInv
    <3>2. CASE i = arg
      <4>1. ~ IsWeight(tensors, passed, cacheOn, Node.in[i])
        BY <2>5, <3>1, <3>2, InputInHandIs DEF IsWeight, FromCache
      <4>2. ~ IsWeight(tensors', passed', cacheOn', Node.in[i])
        BY <2>1, <2>2, <4>1
      <4> QED BY <4>2 DEF Copied, Node
    <3>3. CASE i # arg
      <4>1. i < arg
        BY <2>1, <2>4, <2>5, <3>3
      <4>2. Copied(n, i)
        BY <2>5, <3>1, <4>1 DEF CopiedInv, InNode
      <4> QED BY <2>1, <2>3, <4>2, CopiedKept DEF GraphTypeOK
    <3> QED BY <3>2, <3>3
  <2>6. pc' \in {"alloc", "run"} => arg' > Len(Node.in)
    BY <2>1, <2>4
  <2>7. AmpleRoom /\ Target' = "CUDA" => \A i \in DOMAIN Node.in : i < arg' => Copied(at, i)'
    BY <2>1, <2>5 DEF Target
  <2>8. pc # "idle" /\ pc' # "idle" /\ pc' # "transient"
    BY <2>1
  <2> QED BY <2>1, <2>2, <2>3, <2>6, <2>7, <2>8, CopiedSame
<1>6. CASE AllocOutput
  <2>1. /\ pc = "alloc" /\ pc' = "run"
        /\ UNCHANGED <<passed, cacheOn, vram, before, repeat, schedule, at, arg>>
        /\ UNCHANGED <<tensors, entries, verify, budget>>
    BY <1>6 DEF AllocOutput, Own, ConstructElsewhere, cacheVars, configVars, historyVars
  <2>2. \A s \in Slots : /\ IsCacheable(tensors'[s]) => IsCacheable(tensors[s])
                         /\ Valid(tensors[s]) => Valid(tensors[s])'
    BY <2>1 DEF Valid, IsResident, Tampered
  <2> PICK n : n = at
    OBVIOUS
  <2>3. ASSUME AmpleRoom, Target = "CUDA", NEW i \in DOMAIN Node.in, i < arg PROVE Copied(n, i)'
    <3>1. Copied(n, i)
      BY <2>1, <2>3 DEF CopiedInv, InNode
    <3> QED BY <2>1, <2>2, <3>1, CopiedKept DEF GraphTypeOK
  <2>4. CASE AmpleRoom
    <3>1. arg > Len(Node.in)
      BY <2>1, <2>4 DEF CopiedInv
    <3>2. AmpleRoom /\ Target' = "CUDA" => \A i \in DOMAIN Node.in : i < arg' => Copied(at, i)'
      BY <2>1, <2>3 DEF Target
    <3> QED BY <2>1, <2>2, <3>1, <3>2, CopiedSame
  <2>5. CASE ~ AmpleRoom
    BY <2>1, <2>5 DEF CopiedInv, AmpleRoom
  <2> QED BY <2>4, <2>5
<1>7. CASE RunNode
  <2>1. /\ pc = "run" /\ at' = at + 1 /\ pc' = IF at = Len(Nodes) THEN "collect" ELSE "decide"
        /\ UNCHANGED <<passed, cacheOn, vram, before, repeat, schedule>>
        /\ UNCHANGED <<tensors, entries, verify, budget>>
    BY <1>7 DEF RunNode, vars, hostVars, cacheVars, configVars, historyVars
  <2>2. passed \in Callings /\ at \in Nat
    BY <2>1, GraphShape DEF GraphTypeOK, InNode
  <2>3. ASSUME NEW k, AllCopied(k) PROVE AllCopied(k)'
    BY <2>1, <2>3 DEF AllCopied, Copied, Valid, IsResident, Tampered
  <2>4. AmpleRoom' => AmpleRoom
    BY <2>1 DEF AmpleRoom
  <2> PICK n : n = at
    OBVIOUS
  <2>5. ASSUME AmpleRoom, schedule[n] = "CUDA" PROVE AllCopied(n)
    <3>1. Node.in \in Seq(DOMAIN Elems)
      BY <2>1, GraphShape DEF Node, GraphTypeOK, InNode
    <3>2. arg > Len(Node.in) /\ arg \in Nat
      BY <2>1, <2>5 DEF CopiedInv, GraphTypeOK
    <3>3. \A i \in DOMAIN Node.in : i < arg
      BY <3>1, <3>2
    <3>4. \A i \in DOMAIN Node.in : Copied(n, i)
      BY <2>1, <2>5, <3>3 DEF CopiedInv, InNode, Target
    <3> QED BY <3>4 DEF AllCopied, Node
  <2>6. \A k \in 1 .. at' - 1 : k \in 1 .. at - 1 \/ k = n
    BY <2>1, <2>2
  <2>7. AmpleRoom' => \A k \in 1 .. at' - 1 : schedule'[k] = "CUDA" => AllCopied(k)'
    BY <2>1, <2>3, <2>4, <2>5, <2>6 DEF CopiedInv
  <2>8. AmpleRoom' /\ Repeating' => \A k \in DOMAIN Nodes : before'[k] = "CUDA" => AllCopied(k)'
    BY <2>1, <2>3, <2>4 DEF CopiedInv, Repeating
  <2>9. pc' \notin InNode /\ pc' # "transient"
    BY <2>1 DEF InNode
  <2> QED BY <2>7, <2>8, <2>9 DEF CopiedInv, InNode
<1>8. CASE MoveOutput \/ CopyOutput
  <2>1. /\ pc = "collect" /\ pc' = "collect"
        /\ UNCHANGED <<passed, cacheOn, vram, before, repeat, schedule, at>>
        /\ UNCHANGED <<tensors, entries, verify, budget>>
    BY <1>8 DEF MoveOutput, CopyOutput, NextOutput, ConstructElsewhere, vars, hostVars, cacheVars,
       configVars, historyVars
  <2>2. \A s \in Slots : /\ IsCacheable(tensors'[s]) => IsCacheable(tensors[s])
                         /\ Valid(tensors[s]) => Valid(tensors[s])'
    BY <2>1 DEF Valid, IsResident, Tampered
  <2>3. pc' \notin InNode
    BY <2>1 DEF InNode
  <2> QED BY <2>1, <2>2, <2>3, CopiedSame
<1>9. CASE CacheThrows \/ EnsureThrows \/ AllocThrows \/ RunThrows \/ CopyThrows
  <2>1. pc' = "idle" /\ ~ settled'
    BY <1>9 DEF CacheThrows, EnsureThrows, AllocThrows, RunThrows, CopyThrows, Unwind
  <2> QED BY <2>1, CopiedEnds
<1>10. CASE Return
  <2>1. /\ pc = "collect" /\ pc' = "idle" /\ before' = schedule
        /\ UNCHANGED <<tensors, entries, verify, passed, cacheOn, budget, vram>>
    BY <1>10 DEF Return, vars, hostVars, cacheVars, configVars
  <2>2. AmpleRoom' => AmpleRoom
    BY <2>1 DEF AmpleRoom
  <2>3. \A k \in DOMAIN Nodes : k \in 1 .. at - 1
    BY <2>1, GraphShape DEF GraphTypeOK
  <2>4. ASSUME NEW k, AllCopied(k) PROVE AllCopied(k)'
    BY <2>1, <2>4 DEF AllCopied, Copied, Valid, IsResident, Tampered
  <2>5. AmpleRoom' => \A k \in DOMAIN Nodes : before'[k] = "CUDA" => AllCopied(k)'
    BY <2>1, <2>2, <2>3, <2>4 DEF CopiedInv
  <2> QED BY <2>1, <2>5 DEF CopiedInv, InNode
<1>11. ASSUME NEW s \in Slots, WriteTensor(s) PROVE CopiedInv'
  <2>1. /\ pc = "idle" /\ pc' = "idle"
        /\ UNCHANGED <<entries, verify, budget, passed, cacheOn, vram, before, settled>>
        /\ \A r \in Slots :
              /\ IsCacheable(tensors'[r]) => IsCacheable(tensors[r])
              /\ IsCacheable(tensors[r]) => tensors'[r] = tensors[r]
    BY <1>11, ActivationsOnly
  <2>2. (AmpleRoom' => AmpleRoom) /\ (Repeating' => Repeating)
    BY <2>1 DEF AmpleRoom, Repeating
  <2>3. ASSUME NEW r \in Slots, IsCacheable(tensors'[r]), Valid(tensors[r]) PROVE Valid(tensors[r])'
    BY <2>1, <2>3 DEF Valid, IsResident, Tampered
  <2>4. ASSUME passed \in Callings, Len(passed) = NumInputs, NEW k, NEW i, Copied(k, i) PROVE Copied(k, i)'
    BY <2>1, <2>3, <2>4, CopiedKept
  <2>5. ASSUME passed \in Callings, Len(passed) = NumInputs, NEW k, AllCopied(k) PROVE AllCopied(k)'
    BY <2>4, <2>5 DEF AllCopied
  <2>6. AmpleRoom' /\ Repeating' => \A k \in DOMAIN Nodes : before'[k] = "CUDA" => AllCopied(k)'
    BY <2>1, <2>2, <2>5 DEF CopiedInv, StableInv
  <2> QED BY <2>1, <2>6 DEF CopiedInv, InNode
<1>12. CASE CallerStep /\ ~ \E s \in Slots : WriteTensor(s)
  <2>1. Edit /\ ~ settled'
    BY <1>12 DEF CallerStep, FreezeTensor, ReplaceTensor, Configure,
       SetVramBudgetBytes, SetTransferBandwidthBytesPerNs,
       SetWeightCacheEnabled, ReleaseDeviceWeights, ResetStats
  <2>2. pc' = "idle"
    BY <2>1 DEF Edit, runVars
  <2> QED BY <2>1, <2>2, CopiedEnds
<1>13. CASE \E p \in Callings : BeginRejected(p)
  <2>1. pc' = "idle" /\ ~ settled'
    BY <1>13 DEF BeginRejected, runVars
  <2> QED BY <2>1, CopiedEnds
<1>14. CASE UNCHANGED graphVars
  <2>1. /\ UNCHANGED <<tensors, entries, verify, budget, pc, at, arg, passed, schedule>>
        /\ UNCHANGED <<vram, cacheOn, before, repeat, settled>>
    BY <1>14 DEF graphVars, vars, hostVars, cacheVars, runVars, configVars, historyVars
  <2>2. \A k, i : Copied(k, i)' <=> Copied(k, i)
    BY <2>1 DEF Copied, Valid, IsResident, Tampered
  <2>3. \A k : AllCopied(k)' <=> AllCopied(k)
    BY <2>2 DEF AllCopied
  <2>4. AmpleRoom' = AmpleRoom /\ Repeating' = Repeating /\ Target' = Target /\ Node' = Node
    BY <2>1 DEF AmpleRoom, Repeating, Target, Node
  <2>5. (\A i \in DOMAIN Node.in : i < arg => Copied(at, i)) =>
          \A i \in DOMAIN Node.in : i < arg => Copied(at, i)'
    BY <2>1, <2>2
  <2> QED BY <2>1, <2>3, <2>4, <2>5 DEF CopiedInv
<1> QED
  BY <1>1, <1>2, <1>3, <1>4, <1>5, <1>6, <1>7, <1>8, <1>9, <1>10, <1>11, <1>12, <1>13, <1>14
     DEF GraphNext, RunStep

\* The caller sets one of the budgets it is given.
VramSet == vram \in VramBudgets

\* So it does in every run.
LEMMA GraphVram == GraphSpec => []VramSet
<1>1. GraphInit => VramSet
  BY DEF GraphInit, VramSet
<1>2. VramSet /\ [GraphNext]_graphVars => VramSet'
  <2> SUFFICES ASSUME vram \in VramBudgets, [GraphNext]_graphVars PROVE vram' \in VramBudgets
    BY DEF VramSet
  <2>1. CASE \E p \in Callings : Begin(p) \/ BeginRejected(p)
    BY <2>1 DEF Begin, BeginRejected, configVars
  <2>2. CASE RunStep
    BY <2>2 DEF RunStep, Place, TakeCached, CacheRefuses, CacheThrows, EnsureDevice, EnsureThrows,
       AllocOutput, AllocThrows, RunNode, RunThrows, MoveOutput, CopyOutput, CopyThrows, Return,
       NextOutput, Unwind, configVars
  <2>3. CASE CallerStep
    BY <2>3 DEF CallerStep, WriteTensor, FreezeTensor, ReplaceTensor, Configure,
       SetVramBudgetBytes, SetTransferBandwidthBytesPerNs,
       SetWeightCacheEnabled, ReleaseDeviceWeights, ResetStats, configVars
  <2>4. CASE UNCHANGED graphVars
    BY <2>4 DEF graphVars, configVars
  <2> QED BY <2>1, <2>2, <2>3, <2>4 DEF GraphNext
<1> QED BY <1>1, <1>2, PTL DEF GraphSpec

\* StoredShape, in every run.
LEMMA GraphStoredShape == GraphSpec => []StoredShape
<1>1. GraphInit => StoredShape
  BY DEF GraphInit, StoredShape
<1>2. GraphTypeOK /\ AccountedInv /\ StoredShape /\ [GraphNext]_graphVars => StoredShape'
  BY StepStoredShape
<1> QED BY <1>1, <1>2, GraphSpecTypeOK, GraphAccounted, PTL DEF GraphSpec

\* CopiesSized, in every run.
LEMMA GraphCopiesSized == GraphSpec => []CopiesSized
<1>1. GraphInit => CopiesSized
  BY DEF GraphInit, CopiesSized
<1>2. GraphTypeOK /\ TypeOK /\ CacheInv /\ CopiesSized /\ [GraphNext]_graphVars => CopiesSized'
  BY GraphStepUsesCache, StepCopiesSized
<1> QED BY <1>1, <1>2, GraphCacheInv, PTL DEF GraphSpec

\* ResidentBound, in every run.
LEMMA GraphResidentBound == GraphSpec => []ResidentBound
<1>1. TypeOK /\ ResidentExact /\ GraphTypeOK /\ OnlyLiveWeights /\ StoredShape /\ CopiesSized
        => ResidentBound
  BY ResidentIsBounded
<1> QED BY <1>1, GraphCacheInv, GraphResidentExact, GraphOnlyLiveWeights, GraphStoredShape,
           GraphCopiesSized, PTL

\* CountedBound, in every run.
LEMMA GraphCountedBound == GraphSpec => []CountedBound
<1>1. GraphInit => CountedBound
  BY DEF GraphInit, CountedBound
<1>2. TypeOK /\ ResidentExact /\ GraphTypeOK /\ AccountedInv /\ AccountedInv' /\ ResidentBound'
        /\ CountedBound /\ [GraphNext]_graphVars => CountedBound'
  BY StepCountedBound
<1> QED BY <1>1, <1>2, GraphCacheInv, GraphResidentExact, GraphAccounted, GraphResidentBound,
           PTL DEF GraphSpec

\* StableInv, in every run.
LEMMA GraphStable == GraphSpec => []StableInv
<1>1. GraphInit => StableInv
  BY DEF GraphInit, StableInv, Repeating
<1>2. TypeOK /\ ResidentExact /\ GraphTypeOK /\ StoredShape /\ ResidentBound /\ CountedBound
        /\ VramSet /\ StableInv /\ [GraphNext]_graphVars => StableInv'
  BY StepStableInv, ScheduledGraphAssumption DEF VramSet
<1> QED BY <1>1, <1>2, GraphCacheInv, GraphResidentExact, GraphStoredShape, GraphResidentBound,
           GraphCountedBound, GraphVram, PTL DEF GraphSpec

\* CopiedInv, in every run.
LEMMA GraphCopied == GraphSpec => []CopiedInv
<1>1. GraphInit => CopiedInv
  BY DEF GraphInit, CopiedInv, Repeating, InNode
<1>2. TypeOK /\ CacheInv /\ ResidentExact /\ GraphTypeOK /\ AccountedInv /\ StoredShape
        /\ ResidentBound /\ StableInv /\ CopiedInv /\ [GraphNext]_graphVars => CopiedInv'
  BY StepCopiedInv
<1> QED BY <1>1, <1>2, GraphCacheInv, GraphResidentExact, GraphAccounted, GraphStoredShape,
           GraphResidentBound, GraphStable, PTL DEF GraphSpec

\* PlacementStableIfRoom, for every graph, cost table and bandwidth: with ample room a
\* run that repeats the last one puts every node where the last one put it.
THEOREM GraphPlacementStableIfRoom == GraphSpec => []PlacementStableIfRoom
<1>1. GraphTypeOK /\ StoredShape /\ StableInv => PlacementStableIfRoom
  <2> SUFFICES ASSUME GraphTypeOK, StoredShape, StableInv, AmpleRoom, repeat, pc = "collect"
               PROVE  schedule = before
    BY DEF PlacementStableIfRoom, PlacementStable, Returning
  <2>1. /\ schedule \in Seq({"CPU", "CUDA"}) /\ before \in Seq({"CPU", "CUDA"})
        /\ Len(schedule) = Len(Nodes)
    BY DEF GraphTypeOK, StoredShape, StableInv
  <2>2. Len(before) = Len(Nodes) /\ \A k \in DOMAIN schedule : schedule[k] = before[k]
    BY DEF StableInv, Repeating
  <2> QED BY <2>1, <2>2
<1> QED BY <1>1, GraphSpecTypeOK, GraphStoredShape, GraphStable, PTL

\* What the operations of the cache other than an upload do to its count of uploads.
LEMMA MissesKept ==
  ASSUME TypeOK,
         \/ \E s \in Slots : AcquireHit(s) \/ AcquireOverBudget(s) \/ AcquireThrows(s)
         \/ \E S : RetainOnly(S)
         \/ Clear
  PROVE  stats'.misses = stats.misses
<1>1. stats \in [Counter -> Nat] /\ "misses" \in Counter
  BY DEF TypeOK, Counter
<1>2. ASSUME NEW st, st = [c \in Counter |-> st[c]], NEW c, c # "misses", NEW n
      PROVE  /\ Count(st, c, n).misses = st.misses
             /\ Count(st, c, n) = [b \in Counter |-> Count(st, c, n)[b]]
  BY <1>1, <1>2 DEF Count
<1>3. stats = [c \in Counter |-> stats[c]]
  BY <1>1
<1>4. ASSUME NEW t
      PROVE  /\ StatsAfterErase(t).misses = stats.misses
             /\ StatsAfterErase(t) = [b \in Counter |-> StatsAfterErase(t)[b]]
  <2>1. PICK m, n : StatsAfterErase(t) = Count(Count(stats, "invalidations", m), "integrity_failures", n)
    BY DEF StatsAfterErase
  <2>2. PICK st : st = Count(stats, "invalidations", m)
    OBVIOUS
  <2>3. st.misses = stats.misses /\ st = [c \in Counter |-> st[c]]
    BY <1>2, <1>3, <2>2
  <2>4. StatsAfterErase(t) = Count(st, "integrity_failures", n)
    BY <2>1, <2>2
  <2> QED BY <1>2, <2>3, <2>4
<1>5. CASE \E s \in Slots : AcquireHit(s)
  <2>1. \E n : stats' = Count(Count(stats, "hits", 1), "avoided", n)
    BY <1>5 DEF AcquireHit
  <2> QED BY <1>2, <1>3, <2>1
<1>6. CASE \E s \in Slots : AcquireOverBudget(s)
  <2>1. \E t : stats' = Count(StatsAfterErase(t), "budget_skips", 1)
    BY <1>6 DEF AcquireOverBudget
  <2> QED BY <1>2, <1>4, <2>1
<1>7. CASE \E s \in Slots : AcquireThrows(s)
  BY <1>4, <1>7 DEF AcquireThrows
<1>8. CASE (\E S : RetainOnly(S)) \/ Clear
  <2>1. \E n : stats' = Count(stats, "evictions", n)
    BY <1>8 DEF RetainOnly, Clear
  <2> QED BY <1>2, <1>3, <2>1
<1> QED BY <1>5, <1>6, <1>7, <1>8

\* RepeatUploadsNothing, for every graph: with ample room a run that repeats the last one
\* finds a valid copy of every weight of a node on the device.
THEOREM GraphRepeatUploadsNothing == GraphSpec => RepeatUploadsNothing
<1>1. TypeOK /\ GraphTypeOK /\ StoredShape /\ StableInv /\ CopiedInv /\ [GraphNext]_graphVars
        => [AmpleRoom /\ repeat' /\ repeat => stats'.misses = stats.misses]_graphVars
  <2> SUFFICES ASSUME TypeOK, GraphTypeOK, StoredShape, StableInv, CopiedInv, GraphNext,
                      AmpleRoom, repeat
               PROVE  stats'.misses = stats.misses
    OBVIOUS
  <2>1. ASSUME NEW p \in Callings, Begin(p) PROVE stats'.misses = stats.misses
    <3>1. (\E S : RetainOnly(S)) \/ stats' = stats
      BY <2>1 DEF Begin, Sweep, vars, cacheVars
    <3> QED BY <3>1, MissesKept
  <2>2. CASE TakeCached
    <3>1. /\ pc = "transfer" /\ Target = "CUDA" /\ cacheOn /\ RawIns[arg].at = "host"
          /\ IsCacheable(tensors[RawIns[arg].slot])
          /\ AcquireHit(RawIns[arg].slot) \/ AcquireUpload(RawIns[arg].slot)
      BY <2>2 DEF TakeCached, FromCache
    <3>2. /\ at \in DOMAIN Nodes /\ arg \in DOMAIN Node.in /\ Node.in[arg] \in 1 .. NumInputs
          /\ RawIns[arg].slot = passed[Node.in[arg]] /\ RawIns[arg].slot \in Slots
      BY <3>1, InputInHandIs
    <3>3. Len(schedule) = at /\ schedule[at] = "CUDA" /\ at \in DOMAIN schedule
      BY <3>1, <3>2, GraphShape DEF GraphTypeOK, InNode, Target
    <3>4. before[at] = "CUDA"
      BY <3>1, <3>3 DEF StableInv
    <3>5. Copied(at, arg)
      BY <3>1, <3>2, <3>4 DEF CopiedInv, AllCopied, Repeating, Node
    <3>6. Valid(tensors[RawIns[arg].slot])
      BY <3>1, <3>2, <3>5 DEF Copied, IsWeight, Node
    <3>7. AcquireHit(RawIns[arg].slot)
      BY <3>1, <3>6 DEF AcquireUpload
    <3> QED BY <3>2, <3>7, MissesKept
  <2>3. CASE CacheRefuses \/ CacheThrows
    <3>1. pc = "transfer" /\ FromCache(RawIns[arg])
      BY <2>3 DEF CacheRefuses, CacheThrows
    <3>2. RawIns[arg].slot \in Slots
      BY <3>1, CacheInputIsSlot
    <3> QED BY <2>3, <3>2, MissesKept DEF CacheRefuses, CacheThrows
  <2>4. CASE SetWeightCacheEnabled \/ ReleaseDeviceWeights
    BY <2>4, MissesKept DEF SetWeightCacheEnabled, ReleaseDeviceWeights, vars, cacheVars
  <2>5. CASE Place \/ EnsureDevice \/ EnsureThrows \/ AllocOutput \/ AllocThrows
    BY <2>5 DEF Place, EnsureDevice, EnsureThrows, AllocOutput, AllocThrows, Own, vars, cacheVars
  <2>6. CASE RunNode \/ RunThrows \/ MoveOutput \/ CopyOutput \/ CopyThrows \/ Return
    BY <2>6 DEF RunNode, RunThrows, MoveOutput, CopyOutput, CopyThrows, Return, vars, cacheVars
  <2>7. CASE \E s \in Slots : WriteTensor(s) \/ FreezeTensor(s) \/ ReplaceTensor(s)
    BY <2>7 DEF WriteTensor, FreezeTensor, ReplaceTensor, cacheVars
  <2>8. CASE \/ Configure \/ SetVramBudgetBytes \/ SetTransferBandwidthBytesPerNs
             \/ ResetStats
    BY <2>8 DEF Configure, SetBudgetBytes, SetVerifyContent, SetVramBudgetBytes,
                SetTransferBandwidthBytesPerNs, ResetStats, vars, cacheVars
  <2>9. ASSUME NEW p \in Callings, BeginRejected(p) PROVE stats'.misses = stats.misses
    BY <2>9 DEF BeginRejected, vars, cacheVars
  <2> QED
    BY <2>1, <2>2, <2>3, <2>4, <2>5, <2>6, <2>7, <2>8, <2>9 DEF GraphNext, RunStep, CallerStep
<1> QED BY <1>1, GraphCacheInv, GraphStoredShape, GraphStable, GraphCopied,
           PTL DEF GraphSpec, RepeatUploadsNothing

-----------------------------------------------------------------------------
(***************************************************************************)
(* What canAdmit() promised for a node, acquire() keeps.                   *)
(***************************************************************************)

\* The bytes of tensors, as a sum that the lemmas on sums are about.
LEMMA RoomForBytes ==
  ASSUME NEW S
  PROVE  /\ RoomFor(S) <=> resident + Bytes(tensors, Unmet(S)) <= budget
         /\ RoomFor(S)' <=> resident' + Bytes(tensors', Unmet(S)') <= budget'
BY DEF RoomFor, Bytes, MapThenSumSet, MapThenFoldSet

\* Tensors of the caller have bytes, however many of them there are.
LEMMA TensorBytes ==
  ASSUME TypeOK, NEW S \in SUBSET Slots
  PROVE  /\ IsFiniteSet(S)
         /\ \A s \in S : tensors[s].bytes \in Nat
         /\ Bytes(tensors, S) \in Nat
<1>1. IsFiniteSet(S)
  BY InitialTensorsAssumption, FS_Subset
<1>2. \A s \in Slots : tensors[s].bytes \in Nat
  BY DEF TypeOK, HostTypeOK, Tensor, NoTensor
<1> QED BY <1>1, <1>2, BytesNatural

\* What a node takes from the caller is a variable of the caller.
LEMMA RawInputIsSlot ==
  ASSUME GraphTypeOK, pc \in {"decide", "transfer"},
         NEW i \in DOMAIN RawIns, RawIns[i].at = "host"
  PROVE  RawIns[i].slot \in Slots
<1>1. /\ at \in DOMAIN Nodes /\ passed \in Callings
      /\ i \in DOMAIN Node.in /\ RawIns[i] = storage[Node.in[i]]
  BY DEF GraphTypeOK, InNode, RawIns
<1>2. \/ Node.in[i] \in 1 .. NumInputs
      \/ \E k \in 1 .. at - 1 : Node.in[i] = Nodes[k].out
  BY <1>1, ScheduledGraphAssumption DEF Node
<1>3. Node.in[i] \in DOMAIN storage
  BY <1>2 DEF GraphTypeOK
<1>4. \/ \E j \in DOMAIN passed : storage[Node.in[i]] = Host(passed[j])
      \/ \E k \in DOMAIN owned : storage[Node.in[i]] = Owned(k)
  BY <1>3 DEF GraphTypeOK
<1>5. \A j \in DOMAIN passed : passed[j] \in Slots
  BY <1>1, ScheduledGraphAssumption
<1>6. (\A t : Host(t).slot = t) /\ \A k : Owned(k).at = "owned"
  BY DEF Host, Owned
<1> QED BY <1>1, <1>4, <1>5, <1>6

\* The promises of a decision fit, and what was not promised has no room.
LEMMA PlacePromises ==
  ASSUME TypeOK, ResidentExact, GraphTypeOK, Place
  PROVE  PromisesFit' /\ PromisesKept'
<1>1. /\ pc = "decide" /\ pc' # "transient" /\ promised' = Promises(RawIns)
      /\ UNCHANGED <<tensors, entries, resident, budget, storage, cacheOn, at>>
  BY DEF Place, vars, hostVars, cacheVars, configVars
<1> DEFINE S == {RawIns[i].slot : i \in {j \in DOMAIN RawIns : Served(RawIns[j])}}
<1>2. promised' = IF RoomFor(S) THEN S ELSE {}
  BY <1>1 DEF Promises
<1>3. ASSUME NEW s \in S PROVE s \in Slots /\ IsCacheable(tensors[s])
  <2>1. PICK i \in DOMAIN RawIns : Served(RawIns[i]) /\ s = RawIns[i].slot
    OBVIOUS
  <2> QED BY <1>1, <2>1, RawInputIsSlot DEF Served, CanAdmit
<1>4. RawIns' = RawIns
  BY <1>1 DEF RawIns, Node
<1>5. ASSUME NEW i \in DOMAIN RawIns, FromCache(RawIns[i])', RawIns[i].slot \notin S
      PROVE  resident + tensors[RawIns[i].slot].bytes > budget
  <2> DEFINE t == tensors[RawIns[i].slot]
  <2>1. cacheOn /\ RawIns[i].at = "host" /\ IsCacheable(t)
    BY <1>1, <1>4, <1>5 DEF FromCache
  <2>2. ~ CanAdmit(t)
    BY <1>5, <2>1 DEF Served
  <2>3. ~ (t.bytes <= budget /\ resident + t.bytes <= budget)
    BY <2>1, <2>2 DEF CanAdmit
  <2>4. RawIns[i].slot \in Slots
    BY <1>1, <2>1, RawInputIsSlot
  <2>5. t.bytes \in Nat /\ resident \in Nat /\ budget \in Nat
    BY <2>4, TensorBytes, EntryBytes, WeightCacheAssumption DEF TypeOK
  <2> QED BY <2>3, <2>5
<1> PICK P : P = S
  OBVIOUS
<1>6. promised' # {} => promised' = P /\ RoomFor(P) /\ RoomFor(P)'
  <2>1. promised' # {} => promised' = P /\ RoomFor(P)
    BY <1>2
  <2>2. Unmet(P)' = Unmet(P)
    BY <1>1 DEF Unmet
  <2> QED BY <1>1, <2>1, <2>2, RoomForBytes
<1> HIDE DEF S
<1>7. promised' # {} => RoomFor(promised)'
  <2>1. promised' = P => (RoomFor(promised)' <=> RoomFor(P)')
    BY DEF RoomFor, Unmet
  <2> QED BY <1>6, <2>1
<1>8. promised' # {} => \A s \in promised' : s \in Slots /\ IsCacheable(tensors'[s])
  BY <1>1, <1>3, <1>6
<1>9. ASSUME promised' # {}, NEW i \in DOMAIN RawIns', FromCache(RawIns[i])',
             RawIns'[i].slot \notin promised'
      PROVE  resident' + tensors'[RawIns'[i].slot].bytes > budget'
  <2>1. FromCache(RawIns[i])' /\ i \in DOMAIN RawIns /\ RawIns[i].slot \notin S
    BY <1>4, <1>6, <1>9
  <2> QED BY <1>1, <1>4, <1>5, <2>1
<1>10. PromisesFit'
  BY <1>7, <1>8, <1>9 DEF PromisesFit
<1> QED BY <1>1, <1>10 DEF PromisesKept

\* A step that leaves the cache alone leaves the promises as they are.
LEMMA PromisesSame ==
  ASSUME PromisesFit, pc \in {"transfer", "transient"}, pc' # "transient",
         UNCHANGED <<tensors, entries, resident, budget, promised, at, storage, schedule, cacheOn>>
  PROVE  PromisesFit' /\ PromisesKept'
<1>1. RawIns' = RawIns /\ Target' = Target
  BY DEF RawIns, Node, Target
<1>2. RoomFor(promised) => RoomFor(promised)'
  <2>1. Unmet(promised)' = Unmet(promised)
    BY DEF Unmet
  <2> QED BY <2>1, RoomForBytes
<1>3. ASSUME NEW i \in DOMAIN RawIns PROVE FromCache(RawIns[i])' => FromCache(RawIns[i])
  BY <1>1 DEF FromCache
<1>4. PromisesFit'
  BY <1>1, <1>2, <1>3 DEF PromisesFit
<1> QED BY <1>4 DEF PromisesKept

\* What acquire() is asked for in a run: the tensor of a slot, of which the cache
\* may hold a copy of the same size, and which it has room for if that was promised.
LEMMA AskedFor ==
  ASSUME TypeOK, ResidentExact, CopiesSized, GraphTypeOK, PromisesFit,
         pc = "transfer", FromCache(RawIns[arg]), promised # {}
  PROVE  LET s == RawIns[arg].slot
             t == tensors[s] IN
         /\ s \in Slots /\ IsCacheable(t) /\ Live(s)
         /\ t.bytes \in Nat /\ resident \in Nat /\ budget \in Nat /\ resident <= budget
         /\ t.id \in DOMAIN entries =>
              StaleBytes(t) = t.bytes /\ t.bytes <= resident /\ Fits(t)
         /\ t.id \notin DOMAIN entries =>
              StaleBytes(t) = 0 /\ (Fits(t) <=> s \in promised)
<1> DEFINE s == RawIns[arg].slot
           t == tensors[s]
           U == Unmet(promised)
<1>1. s \in Slots /\ IsCacheable(t) /\ arg \in DOMAIN RawIns
  BY CacheInputIsSlot, InputInHand DEF FromCache, RawIns
<1>2. t \in Tensor /\ Live(s)
  BY <1>1, CacheableType DEF TypeOK, Live, Tensor
<1>3. /\ promised \subseteq Slots /\ RoomFor(promised)
      /\ s \notin promised => t.id \in DOMAIN entries \/ resident + t.bytes > budget
  BY <1>1 DEF PromisesFit
<1>4. U \in SUBSET Slots
  BY <1>3 DEF Unmet
<1>5. /\ IsFiniteSet(U) /\ \A r \in U : tensors[r].bytes \in Nat
      /\ Bytes(tensors, U) \in Nat
  BY <1>4, TensorBytes
<1>6. t.bytes \in Nat /\ resident \in Nat /\ budget \in Nat
  BY <1>2, EntryBytes, WeightCacheAssumption DEF TypeOK, Tensor
<1>7. resident + Bytes(tensors, U) <= budget
  BY <1>3, RoomForBytes
<1>8. resident <= budget
  BY <1>5, <1>6, <1>7
<1>9. ASSUME t.id \in DOMAIN entries
      PROVE  StaleBytes(t) = t.bytes /\ t.bytes <= resident /\ Fits(t)
  <2>1. StaleBytes(t) = t.bytes /\ entries[t.id].bytes = t.bytes
    BY <1>1, <1>9 DEF StaleBytes, CopiesSized
  <2>2. resident = Bytes(entries, DOMAIN entries)
    BY EntryBytes DEF ResidentExact
  <2>3. t.bytes <= resident
    BY <1>9, <2>1, <2>2, EntryBytes, BytesOfOne
  <2> QED BY <1>6, <1>8, <2>1, <2>3 DEF Fits
<1>10. ASSUME t.id \notin DOMAIN entries
       PROVE  StaleBytes(t) = 0 /\ (Fits(t) <=> s \in promised)
  <2>1. StaleBytes(t) = 0
    BY <1>10 DEF StaleBytes
  <2>2. ASSUME s \in promised PROVE Fits(t)
    <3>1. s \in U
      BY <1>10, <2>2 DEF Unmet
    <3>2. t.bytes <= Bytes(tensors, U)
      BY <1>5, <3>1, BytesOfOne
    <3>3. t.bytes <= budget /\ resident - 0 + t.bytes <= budget
      BY <1>5, <1>6, <1>7, <3>2
    <3> QED BY <2>1, <3>3 DEF Fits
  <2>3. ASSUME s \notin promised PROVE ~ Fits(t)
    <3>1. resident + t.bytes > budget
      BY <1>3, <1>10, <2>3
    <3>2. ~ (resident - 0 + t.bytes <= budget)
      BY <1>6, <3>1
    <3> QED BY <2>1, <3>2 DEF Fits
  <2> QED BY <2>1, <2>2, <2>3
<1> QED BY <1>1, <1>2, <1>6, <1>8, <1>9, <1>10

\* A refusal breaks no promise, and takes no copy away.
LEMMA RefusalPromises ==
  ASSUME TypeOK, ResidentExact, CopiesSized, GraphTypeOK, PromisesFit, CacheRefuses
  PROVE  PromisesFit' /\ PromisesKept'
<1> DEFINE s == RawIns[arg].slot
           t == tensors[s]
<1>1. /\ pc = "transfer" /\ FromCache(RawIns[arg]) /\ AcquireOverBudget(s)
      /\ UNCHANGED <<promised, at, arg, storage, schedule, cacheOn>>
  BY DEF CacheRefuses, configVars, historyVars
<1>2. UNCHANGED <<tensors, budget>> /\ ~ Fits(t)
      /\ entries' = Without({t.id}) /\ resident' = resident - StaleBytes(t)
  BY <1>1 DEF AcquireOverBudget, hostVars
<1>3. RawIns' = RawIns /\ Target' = Target
  BY <1>1 DEF RawIns, Node, Target
<1>4. CASE promised = {}
  BY <1>1, <1>4 DEF PromisesFit, PromisesKept
<1>5. CASE promised # {}
  <2>1. t.id \notin DOMAIN entries /\ s \notin promised /\ StaleBytes(t) = 0 /\ resident \in Nat
    BY <1>1, <1>2, <1>5, AskedFor
  <2>2. DOMAIN entries' = DOMAIN entries /\ resident' = resident
    BY <1>2, <2>1 DEF Without
  <2>3. RoomFor(promised)'
    <3>1. Unmet(promised)' = Unmet(promised)
      BY <1>1, <1>2, <2>2 DEF Unmet
    <3>2. RoomFor(promised)
      BY <1>1, <1>5 DEF PromisesFit
    <3> QED BY <1>2, <2>2, <3>1, <3>2, RoomForBytes
  <2>4. ASSUME NEW i \in DOMAIN RawIns PROVE FromCache(RawIns[i])' => FromCache(RawIns[i])
    BY <1>1, <1>2, <1>3 DEF FromCache
  <2>5. PromisesFit'
    BY <1>1, <1>2, <1>3, <1>5, <2>2, <2>3, <2>4 DEF PromisesFit
  <2>6. PromisesKept'
    BY <1>1, <1>3, <2>1 DEF PromisesKept
  <2> QED BY <2>5, <2>6
<1> QED BY <1>4, <1>5

\* An answer takes the room that was kept for it, and no other.
LEMMA AnswerPromises ==
  ASSUME TypeOK, IdsDistinct, ResidentExact, CopiesSized, GraphTypeOK, PromisesFit, TakeCached
  PROVE  PromisesFit' /\ PromisesKept'
<1> DEFINE s == RawIns[arg].slot
           t == tensors[s]
           U == Unmet(promised)
<1>1. /\ pc = "transfer" /\ pc' # "transient"
      /\ FromCache(RawIns[arg])
      /\ AcquireHit(s) \/ AcquireUpload(s)
      /\ UNCHANGED <<promised, at, storage, schedule, cacheOn>>
  BY DEF TakeCached, TakeInput, configVars, historyVars
<1>2. CASE AcquireHit(s)
  BY <1>1, <1>2, PromisesSame DEF AcquireHit, hostVars
<1>3. CASE promised = {}
  BY <1>1, <1>3 DEF PromisesFit, PromisesKept
<1>4. CASE AcquireUpload(s) /\ promised # {}
  <2>1. /\ UNCHANGED <<tensors, budget>> /\ Fits(t)
        /\ DOMAIN entries' = DOMAIN entries \cup {t.id}
        /\ resident' = resident - StaleBytes(t) + t.bytes
    BY <1>4 DEF AcquireUpload
  <2>2. RawIns' = RawIns /\ Target' = Target
    BY <1>1 DEF RawIns, Node, Target
  <2>3. /\ s \in Slots /\ Live(s) /\ t.bytes \in Nat /\ resident \in Nat /\ budget \in Nat
        /\ t.id \in DOMAIN entries => StaleBytes(t) = t.bytes /\ t.bytes <= resident
        /\ t.id \notin DOMAIN entries => StaleBytes(t) = 0 /\ s \in promised
    BY <1>1, <1>4, <2>1, AskedFor
  <2>4. /\ t.id \in DOMAIN entries => resident' = resident
        /\ t.id \notin DOMAIN entries => resident' = resident + t.bytes
    BY <2>1, <2>3
  <2>5. RoomFor(promised) /\ promised \subseteq Slots
    BY <1>1, <1>4 DEF PromisesFit
  <2>6. RoomFor(promised)'
    <3>1. CASE t.id \in DOMAIN entries
      <4>1. Unmet(promised)' = Unmet(promised) /\ resident' = resident
        BY <1>1, <2>1, <2>4, <3>1 DEF Unmet
      <4> QED BY <2>1, <2>5, <4>1, RoomForBytes
    <3>2. CASE t.id \notin DOMAIN entries
      <4>1. Unmet(promised)' = U \ {s}
        BY <1>1, <2>1, <2>3, <2>5 DEF Unmet, IdsDistinct
      <4>2. s \in U /\ U \in SUBSET Slots
        BY <2>3, <2>5, <3>2 DEF Unmet
      <4> HIDE DEF U
      <4>3. /\ IsFiniteSet(U) /\ \A r \in U : tensors[r].bytes \in Nat
            /\ Bytes(tensors, U \ {s}) \in Nat
        <5>1. U \ {s} \in SUBSET Slots
          BY <4>2
        <5> QED BY <4>2, <5>1, TensorBytes
      <4>4. Bytes(tensors, U) = t.bytes + Bytes(tensors, U \ {s})
        BY <4>2, <4>3, BytesWithout
      <4>5. resident + Bytes(tensors, U) <= budget
        BY <2>5, RoomForBytes DEF U
      <4>6. resident' + Bytes(tensors, U \ {s}) <= budget
        BY <2>3, <2>4, <3>2, <4>3, <4>4, <4>5
      <4> QED BY <2>1, <4>1, <4>6, RoomForBytes
    <3> QED BY <3>1, <3>2
  <2>7. ASSUME NEW i \in DOMAIN RawIns, FromCache(RawIns[i])', RawIns[i].slot \notin promised
        PROVE  LET u == tensors[RawIns[i].slot] IN
               u.id \in DOMAIN entries' \/ resident' + u.bytes > budget
    <3> DEFINE u == tensors[RawIns[i].slot]
    <3>1. FromCache(RawIns[i])
      BY <1>1, <2>1, <2>2, <2>7 DEF FromCache
    <3>2. u.id \in DOMAIN entries \/ resident + u.bytes > budget
      BY <1>1, <1>4, <2>7, <3>1 DEF PromisesFit
    <3>3. CASE u.id \in DOMAIN entries
      BY <2>1, <3>3
    <3>4. CASE resident + u.bytes > budget /\ t.id \in DOMAIN entries
      BY <2>4, <3>4
    <3>5. CASE resident + u.bytes > budget /\ t.id \notin DOMAIN entries
      <4>1. u.bytes \in Nat
        <5>1. RawIns[i].slot \in Slots
          BY <1>1, <3>1, RawInputIsSlot DEF FromCache
        <5> QED BY <5>1, TensorBytes
      <4>2. \A n \in Nat : resident + n > budget => resident + t.bytes + n > budget
        BY <2>3
      <4> QED BY <2>4, <3>5, <4>1, <4>2
    <3> QED BY <3>2, <3>3, <3>4, <3>5
  <2>8. PromisesFit'
    <3>1. \A r \in promised' : r \in Slots /\ IsCacheable(tensors'[r])
      BY <1>1, <1>4, <2>1 DEF PromisesFit
    <3>2. \A i \in DOMAIN RawIns' :
            LET u == tensors'[RawIns'[i].slot] IN
            FromCache(RawIns[i])' /\ RawIns'[i].slot \notin promised' =>
              u.id \in DOMAIN entries' \/ resident' + u.bytes > budget'
      BY <1>1, <2>1, <2>2, <2>7
    <3> QED BY <2>6, <3>1, <3>2 DEF PromisesFit
  <2> QED BY <1>1, <2>8 DEF PromisesKept
<1> QED BY <1>1, <1>2, <1>3, <1>4

\* PromisesFit and PromisesKept, one step.
LEMMA StepPromises ==
  ASSUME TypeOK, IdsDistinct, ResidentExact, CopiesSized, GraphTypeOK,
         PromisesFit, PromisesKept, [GraphNext]_graphVars
  PROVE  PromisesFit' /\ PromisesKept'
<1>1. ASSUME pc' \notin {"transfer", "transient"} PROVE PromisesFit' /\ PromisesKept'
  BY <1>1 DEF PromisesFit, PromisesKept
<1>2. CASE Place
  BY <1>2, PlacePromises
<1>3. CASE TakeCached
  BY <1>3, AnswerPromises
<1>4. CASE CacheRefuses
  BY <1>4, RefusalPromises
<1>5. CASE EnsureDevice
  <2>1. /\ pc \in {"transfer", "transient"} /\ pc' # "transient"
        /\ UNCHANGED <<promised, at, storage, schedule, cacheOn>>
    BY <1>5 DEF EnsureDevice, Ensuring, TakeInput, configVars, historyVars
  <2>2. UNCHANGED <<tensors, entries, resident, budget>>
    BY <1>5 DEF EnsureDevice, Own, ConstructElsewhere, vars, hostVars, cacheVars
  <2> QED BY <2>1, <2>2, PromisesSame
<1>6. CASE \/ CacheThrows \/ EnsureThrows \/ AllocThrows \/ RunThrows \/ CopyThrows \/ Return
           \/ AllocOutput \/ RunNode
  BY <1>1, <1>6 DEF CacheThrows, EnsureThrows, AllocThrows, RunThrows, CopyThrows, Return,
                    Unwind, AllocOutput, RunNode
<1>7. CASE MoveOutput \/ CopyOutput
  BY <1>1, <1>7 DEF MoveOutput, CopyOutput, NextOutput
<1>8. CASE CallerStep \/ \E p \in Callings : Begin(p) \/ BeginRejected(p)
  <2>1. pc' \in {"idle", "decide"}
    BY <1>8 DEF CallerStep, WriteTensor, FreezeTensor, ReplaceTensor, Configure,
       SetVramBudgetBytes, SetTransferBandwidthBytesPerNs, SetWeightCacheEnabled,
       ReleaseDeviceWeights, ResetStats, Edit, runVars, Begin, BeginRejected
  <2> QED BY <1>1, <2>1
<1>9. CASE UNCHANGED graphVars
  <2>1. /\ UNCHANGED <<tensors, entries, resident, budget, promised, at, arg, storage, schedule>>
        /\ UNCHANGED <<cacheOn, pc>>
    BY <1>9 DEF graphVars, vars, hostVars, cacheVars, runVars, configVars, historyVars
  <2>2. PromisesKept'
    BY <2>1 DEF PromisesKept, RawIns, Node
  <2>3. RoomFor(promised) => RoomFor(promised)'
    <3>1. Unmet(promised)' = Unmet(promised)
      BY <2>1 DEF Unmet
    <3> QED BY <2>1, <3>1, RoomForBytes
  <2>4. RawIns' = RawIns /\ \A r : FromCache(r)' <=> FromCache(r)
    BY <2>1 DEF RawIns, Node, FromCache, Target
  <2> QED BY <2>1, <2>2, <2>3, <2>4 DEF PromisesFit
<1> QED
  BY <1>2, <1>3, <1>4, <1>5, <1>6, <1>7, <1>8, <1>9 DEF GraphNext, RunStep

\* PromisesKept: what canAdmit() told the cost model of a node, acquire() keeps for
\* all its inputs together, whatever it erases and uploads on the way, if there is
\* room for all of them when the node is placed.
THEOREM GraphPromisesKept == GraphSpec => []PromisesKept
<1>1. GraphInit => PromisesFit /\ PromisesKept
  BY DEF GraphInit, PromisesFit, PromisesKept
<1>2. /\ GraphTypeOK /\ TypeOK /\ CacheInv /\ ResidentExact /\ CopiesSized
      /\ PromisesFit /\ PromisesKept /\ [GraphNext]_graphVars
      => PromisesFit' /\ PromisesKept'
  BY StepPromises DEF CacheInv
<1> QED BY <1>1, <1>2, GraphCacheInv, GraphResidentExact, GraphCopiesSized, PTL DEF GraphSpec
=============================================================================
