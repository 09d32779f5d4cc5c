------------------------ MODULE WeightCacheProofs ------------------------
(***************************************************************************)
(* Proofs about WeightCache for every number of tensors, contents, sizes,  *)
(* budgets and every bound.                                                *)
(***************************************************************************)
EXTENDS WeightCache, FiniteSetTheorems, TLAPS

(***************************************************************************)
(* Type correctness.                                                       *)
(***************************************************************************)

\* Every operation on a Tensor object leaves well-typed tensors and a counter
\* that has not moved back.
LEMMA HostStepType ==
  ASSUME HostTypeOK, NEW s \in Slots, HostStep(s)
  PROVE  HostTypeOK' /\ nextId' \in Nat /\ nextId' >= nextId
<1> USE HostTensorsAssumption DEF HostTypeOK, Tensor, NoTensor, NextIds, Live
<1> DEFINE built(owns, d, b, v) ==
      [id |-> nextId, gen |-> 0, owns |-> owns, device |-> d, bytes |-> b, val |-> v]
<1>0. \A d \in Devices, b \in Sizes, v \in Contents, owns \in BOOLEAN :
        built(owns, d, b, v) \in Tensor
  OBVIOUS
<1>1. CASE Construct(s)
  <2>1. PICK d \in Devices, b \in Sizes, v \in Contents :
          tensors' = [tensors EXCEPT ![s] = built(TRUE, d, b, v)]
    BY <1>1 DEF Construct
  <2>2. built(TRUE, d, b, v) \in Tensor
    BY <1>0
  <2> HIDE DEF built, Tensor, NoTensor
  <2>3. tensors' \in [Slots -> Tensor \cup {NoTensor}]
    BY <2>1, <2>2
  <2> QED BY <1>1, <2>3 DEF Construct
<1>2. CASE ConstructElsewhere BY <1>2 DEF ConstructElsewhere
<1>3. CASE Wrap(s)
  <2>1. PICK d \in Devices, b \in Sizes, v \in Contents :
          tensors' = [tensors EXCEPT ![s] = built(FALSE, d, b, v)]
    BY <1>3 DEF Wrap
  <2>2. built(FALSE, d, b, v) \in Tensor
    BY <1>0
  <2> HIDE DEF built, Tensor, NoTensor
  <2>3. tensors' \in [Slots -> Tensor \cup {NoTensor}]
    BY <2>1, <2>2
  <2> QED BY <1>3, <2>3 DEF Wrap
<1>4. CASE Write(s)          BY <1>4 DEF Write
<1>5. CASE WriteBehind(s)    BY <1>5 DEF WriteBehind
<1>6. CASE Freeze(s)         BY <1>6 DEF Freeze
<1>7. CASE Unfreeze(s)       BY <1>7 DEF Unfreeze
<1>8. CASE \E t \in Slots : Move(s, t)
  <2> HIDE DEF Tensor, NoTensor
  <2> QED BY <1>8 DEF Move
<1>9. CASE Destroy(s)        BY <1>9 DEF Destroy, NoTensor
<1> QED BY <1>1, <1>2, <1>3, <1>4, <1>5, <1>6, <1>7, <1>8, <1>9 DEF HostStep

\* What is cacheable is a tensor, not the empty slot.
LEMMA CacheableType ==
  ASSUME HostTypeOK, NEW s \in Slots, IsCacheable(tensors[s])
  PROVE  tensors[s] \in Tensor
BY DEF HostTypeOK, IsCacheable, NoTensor

\* Adding to a counter leaves natural counters.
LEMMA CountType ==
  ASSUME NEW st \in [Counter -> Nat], NEW c \in Counter, NEW n \in Nat
  PROVE  Count(st, c, n) \in [Counter -> Nat]
BY DEF Count

\* Every name the cache counts under is a counter.
LEMMA Counters ==
  /\ "hits" \in Counter /\ "misses" \in Counter /\ "uploaded" \in Counter
  /\ "avoided" \in Counter /\ "invalidations" \in Counter /\ "evictions" \in Counter
  /\ "integrity_failures" \in Counter /\ "budget_skips" \in Counter
BY DEF Counter

\* The counters stay natural numbers through the erasure of a stale entry.
LEMMA StatsAfterEraseType ==
  ASSUME stats \in [Counter -> Nat], NEW t
  PROVE  StatsAfterErase(t) \in [Counter -> Nat]
<1> DEFINE i == IF t.id \in DOMAIN entries THEN 1 ELSE 0
<1> DEFINE f == IF Tampered(t) THEN 1 ELSE 0
<1>1. i \in Nat /\ f \in Nat
  OBVIOUS
<1> HIDE DEF i, f
<1>2. Count(stats, "invalidations", i) \in [Counter -> Nat]
  BY <1>1, CountType, Counters
<1>3. Count(Count(stats, "invalidations", i), "integrity_failures", f) \in [Counter -> Nat]
  BY <1>1, <1>2, CountType, Counters
<1> QED BY <1>3 DEF StatsAfterErase, i, f

\* Erasing entries leaves well-typed ones, still finitely many.
LEMMA WithoutType ==
  ASSUME TypeOK, NEW ids
  PROVE  /\ Without(ids) \in [DOMAIN entries \ ids -> Entry]
         /\ DOMAIN Without(ids) = DOMAIN entries \ ids
         /\ IsFiniteSet(DOMAIN entries \ ids)
         /\ DOMAIN entries \ ids \subseteq Nat
         /\ Cardinality(DOMAIN entries) \in Nat
<1>1. /\ IsFiniteSet(DOMAIN entries)
      /\ DOMAIN entries \subseteq Nat
      /\ entries \in [DOMAIN entries -> Entry]
  BY DEF TypeOK
<1>2. IsFiniteSet(DOMAIN entries \ ids)
  BY <1>1, FS_Subset
<1>3. Cardinality(DOMAIN entries) \in Nat
  BY <1>1, FS_CardinalityType
<1> QED BY <1>1, <1>2, <1>3 DEF Without

\* Whatever else a step does, erasing entries keeps the types.
LEMMA EraseType ==
  ASSUME TypeOK, NEW ids, entries' = Without(ids), HostTypeOK',
         stats' \in [Counter -> Nat], UNCHANGED <<budget, verify>>,
         answer' \in Contents \cup {NullPtr, Thrown}
  PROVE  TypeOK'
<1> DEFINE left == DOMAIN entries \ ids
<1>0. /\ entries' \in [left -> Entry]
      /\ IsFiniteSet(left)
      /\ left \subseteq Nat
  BY WithoutType
<1> HIDE DEF left
<1>1. DOMAIN entries' = left
  BY <1>0
<1> QED BY <1>0, <1>1 DEF TypeOK

\* No operation of the program or of the cache breaks the types.
LEMMA StepTypeOK == TypeOK /\ [Next]_vars => TypeOK'
<1> SUFFICES ASSUME TypeOK, [Next]_vars PROVE TypeOK'
  OBVIOUS
<1> USE HostTensorsAssumption, WeightCacheAssumption
<1>1. ASSUME NEW s \in Slots, HostStep(s), UNCHANGED cacheVars PROVE TypeOK'
  BY <1>1, HostStepType DEF TypeOK, cacheVars
<1>2. ASSUME NEW s \in Slots, AcquireNotCacheable(s) PROVE TypeOK'
  BY <1>2 DEF AcquireNotCacheable, TypeOK, HostTypeOK, hostVars
<1>3. ASSUME NEW s \in Slots, AcquireHit(s) PROVE TypeOK'
  <2> DEFINE e == entries[tensors[s].id]
  <2>1. e \in Entry
    BY <1>3 DEF AcquireHit, Valid, IsResident, TypeOK
  <2>2. e.bytes \in Nat /\ e.val \in Contents
    BY <2>1 DEF Entry
  <2>3. Count(Count(stats, "hits", 1), "avoided", e.bytes) \in [Counter -> Nat]
    BY <2>2, CountType, Counters DEF TypeOK
  <2> QED
    BY <1>3, <2>2, <2>3 DEF AcquireHit, TypeOK, HostTypeOK, hostVars
<1>4. ASSUME NEW s \in Slots, AcquireOverBudget(s) PROVE TypeOK'
  <2> DEFINE t == tensors[s]
  <2>1. Count(StatsAfterErase(t), "budget_skips", 1) \in [Counter -> Nat]
    BY StatsAfterEraseType, CountType, Counters DEF TypeOK
  <2> QED
    BY <1>4, <2>1, EraseType DEF AcquireOverBudget, TypeOK, HostTypeOK, hostVars
<1>5. ASSUME NEW s \in Slots, AcquireUpload(s) PROVE TypeOK'
  <2> DEFINE t == tensors[s]
  <2>1. t \in Tensor
    BY <1>5, CacheableType DEF AcquireUpload, TypeOK
  <2>2. Count(Count(StatsAfterErase(t), "misses", 1), "uploaded", t.bytes) \in [Counter -> Nat]
    BY <2>1, StatsAfterEraseType, CountType, Counters DEF TypeOK, Tensor
  <2>3. HashOf[t.val] \in {HashOf[v] : v \in Contents}
    BY <2>1 DEF Tensor
  <2>4. entries' \in [DOMAIN entries \cup {t.id} -> Entry]
    BY <1>5, <2>1, <2>3 DEF AcquireUpload, TypeOK, Entry, Tensor
  <2>5. /\ IsFiniteSet(DOMAIN entries \cup {t.id})
        /\ DOMAIN entries \cup {t.id} \subseteq Nat
    BY <2>1, FS_AddElement DEF TypeOK, Tensor
  <2>6. /\ stats' \in [Counter -> Nat]
        /\ answer' \in Contents
        /\ HostTypeOK'
    BY <1>5, <2>1, <2>2 DEF AcquireUpload, TypeOK, HostTypeOK, NextIds, Tensor
  <2> QED
    BY <1>5, <2>4, <2>5, <2>6 DEF AcquireUpload, TypeOK
<1>6. ASSUME NEW s \in Slots, AcquireThrows(s) PROVE TypeOK'
  <2>1. StatsAfterErase(tensors[s]) \in [Counter -> Nat]
    BY StatsAfterEraseType DEF TypeOK
  <2>2. HostTypeOK'
    BY <1>6 DEF AcquireThrows, TypeOK, HostTypeOK, NextIds
  <2> QED
    BY <1>6, <2>1, <2>2, EraseType DEF AcquireThrows
<1>7. ASSUME NEW S \in SUBSET Slots, RetainOnly(S) PROVE TypeOK'
  <2> DEFINE live == {tensors[s].id : s \in {r \in S : IsCacheable(tensors[r])}}
  <2> DEFINE dead == DOMAIN entries \ live
  <2>1. IsFiniteSet(dead) /\ Cardinality(dead) \in Nat
    BY FS_Subset, FS_CardinalityType DEF TypeOK
  <2>2. Count(stats, "evictions", Cardinality(dead)) \in [Counter -> Nat]
    BY <2>1, CountType, Counters DEF TypeOK
  <2>3. /\ entries' = Without(dead)
        /\ stats' = Count(stats, "evictions", Cardinality(dead))
        /\ UNCHANGED <<hostVars, budget, verify, answer>>
    BY <1>7 DEF RetainOnly
  <2> QED
    BY <2>2, <2>3, EraseType DEF TypeOK, HostTypeOK, hostVars
<1>8. CASE Clear
  <2>1. Count(stats, "evictions", Cardinality(DOMAIN entries)) \in [Counter -> Nat]
    BY WithoutType, CountType, Counters DEF TypeOK
  <2> QED
    BY <1>8, <2>1, EraseType DEF Clear, TypeOK, HostTypeOK, hostVars
<1>9. CASE SetBudgetBytes
  BY <1>9 DEF SetBudgetBytes, TypeOK, HostTypeOK, hostVars
<1>10. CASE SetVerifyContent
  BY <1>10 DEF SetVerifyContent, TypeOK, HostTypeOK, hostVars
<1>11. CASE UNCHANGED vars
  BY <1>11 DEF vars, hostVars, cacheVars, TypeOK, HostTypeOK
<1> QED
  BY <1>1, <1>2, <1>3, <1>4, <1>5, <1>6, <1>7, <1>8, <1>9, <1>10, <1>11
  DEF Next, Acquire

\* TypeOK: entries, counters, tensors and answers keep their types through
\* every operation of the cache and of the program around it.
THEOREM SpecTypeOK == Spec => []TypeOK
<1>1. Init => TypeOK
  BY FS_EmptySet, HostTensorsAssumption, WeightCacheAssumption
  DEF Init, HostInit, TypeOK, HostTypeOK, Tensor, NoTensor, Counter
<1>2. TypeOK /\ [Next]_vars => TypeOK'
  BY StepTypeOK
<1> QED BY <1>1, <1>2, PTL DEF Spec

(***************************************************************************)
(* Coherence.  A copy is served when its id and epoch match the tensor's.  *)
(* Epochs are drawn once: a tensor of an epoch already drawn has not       *)
(* changed since the copy was taken, and a new epoch matches no entry.     *)
(***************************************************************************)

\* The identity facts about tensors, apart from the cache.
HostInv == IdsDistinct /\ TensorsDrawn /\ FrozenOwned

\* A tensor of epoch gen keeps its bytes until the epoch ends: in one step of
\* the program a variable either holds what some variable of the same id and
\* epoch held, or holds nothing frozen, or is in an epoch never drawn before.
LEMMA HostStepEpochs ==
  ASSUME HostTypeOK, HostInv, NEW s \in Slots, HostStep(s)
  PROVE  /\ HostInv'
         /\ nextId' >= nextId
         /\ \A r \in Slots :
              \/ tensors'[r].gen = 0
              \/ tensors'[r].gen >= nextId
              \/ \E q \in Slots :
                   /\ tensors'[r].id = tensors[q].id
                   /\ tensors'[r].gen = tensors[q].gen
                   /\ tensors'[r].device = tensors[q].device
                   /\ tensors'[r].bytes = tensors[q].bytes
                   /\ Escapes \/ tensors'[r].val = tensors[q].val
<1> USE HostTensorsAssumption
    DEF HostTypeOK, Tensor, NoTensor, NextIds, Live,
        HostInv, IdsDistinct, TensorsDrawn, FrozenOwned
<1>1. CASE Construct(s) BY <1>1 DEF Construct
<1>2. CASE ConstructElsewhere BY <1>2 DEF ConstructElsewhere
<1>3. CASE Wrap(s)      BY <1>3 DEF Wrap
<1>4. CASE Write(s)     BY <1>4 DEF Write
<1>5. CASE WriteBehind(s) BY <1>5 DEF WriteBehind
<1>6. CASE Freeze(s)    BY <1>6 DEF Freeze
<1>7. CASE Unfreeze(s)  BY <1>7 DEF Unfreeze
<1>8. CASE \E t \in Slots : Move(s, t) BY <1>8 DEF Move
<1>9. CASE Destroy(s)   BY <1>9 DEF Destroy
<1> QED BY <1>1, <1>2, <1>3, <1>4, <1>5, <1>6, <1>7, <1>8, <1>9 DEF HostStep

\* Dropping entries cannot make a served copy wrong.
LEMMA EraseInv ==
  ASSUME CacheInv, NEW ids, entries' = Without(ids), UNCHANGED tensors,
         nextId \in Nat, nextId' \in Nat, nextId' >= nextId, HostTypeOK, TypeOK
  PROVE  CacheInv'
<1>1. \A id \in DOMAIN entries' : id \in DOMAIN entries /\ entries'[id] = entries[id]
  BY DEF Without
<1>2. HostInv'
  BY DEF CacheInv, HostInv, IdsDistinct, TensorsDrawn, FrozenOwned, Live, HostTypeOK,
         Tensor, NoTensor
<1>3. EntriesDrawn' /\ HashesMatch'
  BY <1>1 DEF CacheInv, EntriesDrawn, HashesMatch, TypeOK, Entry
<1>4. Coherent => Coherent'
  BY <1>1 DEF Coherent, IsResident, IsCacheable
<1> QED BY <1>2, <1>3, <1>4 DEF CacheInv, HostInv

\* No operation of the program or of the cache breaks CacheInv.
LEMMA StepCacheInv == TypeOK /\ CacheInv /\ [Next]_vars => CacheInv'
<1> SUFFICES ASSUME TypeOK, CacheInv, [Next]_vars PROVE CacheInv'
  OBVIOUS
<1> USE HostTensorsAssumption, WeightCacheAssumption
<1>0. HostTypeOK /\ nextId \in Nat
  BY DEF TypeOK, HostTypeOK
<1>1. ASSUME NEW s \in Slots, HostStep(s), UNCHANGED cacheVars PROVE CacheInv'
  <2>1. HostInv
    BY DEF CacheInv, HostInv
  <2>2. /\ HostInv'
        /\ nextId' >= nextId
    BY <1>0, <1>1, <2>1, HostStepEpochs
  <2>3. nextId' \in Nat
    BY <1>0, <1>1, HostStepType
  <2>4. EntriesDrawn' /\ HashesMatch'
    BY <1>0, <1>1, <2>2, <2>3 DEF CacheInv, EntriesDrawn, HashesMatch, TypeOK, Entry, cacheVars
  <2>5. ASSUME Coherent, ~Escapes PROVE Coherent'
    <3> SUFFICES ASSUME NEW r \in Slots, IsResident(tensors[r])'
                 PROVE  entries[tensors'[r].id].val = tensors'[r].val
      BY <1>1 DEF Coherent, cacheVars
    <3>1. /\ tensors'[r].gen # 0
          /\ tensors'[r].device = "CPU"
          /\ tensors'[r].id \in DOMAIN entries
          /\ entries[tensors'[r].id].gen = tensors'[r].gen
          /\ entries[tensors'[r].id].bytes = tensors'[r].bytes
      BY <1>1 DEF IsResident, IsCacheable, cacheVars
    <3>2. entries[tensors'[r].id].gen < nextId /\ entries[tensors'[r].id].gen \in Nat
      BY <3>1 DEF CacheInv, EntriesDrawn, TypeOK, Entry
    <3>3. PICK q \in Slots :
            /\ tensors'[r].id = tensors[q].id
            /\ tensors'[r].gen = tensors[q].gen
            /\ tensors'[r].device = tensors[q].device
            /\ tensors'[r].bytes = tensors[q].bytes
            /\ tensors'[r].val = tensors[q].val
      BY <1>0, <1>1, <2>1, <2>5, <3>1, <3>2, HostStepEpochs
    <3> QED
      BY <2>5, <3>1, <3>3 DEF Coherent, IsResident, IsCacheable
  <2> QED
    BY <2>2, <2>4, <2>5 DEF CacheInv, HostInv
<1>2. ASSUME UNCHANGED <<hostVars, entries>> PROVE CacheInv'
  BY <1>2 DEF hostVars, CacheInv, IdsDistinct, TensorsDrawn, FrozenOwned, EntriesDrawn,
              HashesMatch, Coherent, IsResident, IsCacheable, Live
<1>3. ASSUME NEW s \in Slots, AcquireOverBudget(s) PROVE CacheInv'
  BY <1>0, <1>3, EraseInv DEF AcquireOverBudget, hostVars
<1>4. ASSUME NEW s \in Slots, AcquireUpload(s) PROVE CacheInv'
  <2> DEFINE t == tensors[s]
  <2>1. t \in Tensor
    BY <1>0, <1>4, CacheableType DEF AcquireUpload
  <2>2. /\ UNCHANGED tensors
        /\ nextId' = nextId + 2
        /\ DOMAIN entries' = DOMAIN entries \cup {t.id}
        /\ \A id \in DOMAIN entries : id # t.id => entries'[id] = entries[id]
        /\ entries'[t.id] = [gen |-> t.gen, bytes |-> t.bytes,
                             hash |-> HashOf[t.val], val |-> t.val]
    BY <1>4 DEF AcquireUpload, NextIds
  <2>3. HostInv'
    BY <1>0, <2>2 DEF CacheInv, HostInv, IdsDistinct, TensorsDrawn, FrozenOwned, Live,
                      HostTypeOK, Tensor, NoTensor
  <2>4. EntriesDrawn' /\ HashesMatch'
    BY <1>0, <2>1, <2>2 DEF CacheInv, EntriesDrawn, HashesMatch, TensorsDrawn, TypeOK,
                            Entry, Tensor
  <2>5. Coherent => Coherent'
    <3> SUFFICES ASSUME Coherent, NEW r \in Slots, IsResident(tensors[r])'
                 PROVE  entries'[tensors[r].id].val = tensors[r].val
      BY <2>2 DEF Coherent
    <3>1. CASE r = s
      BY <2>2, <3>1
    <3>2. CASE r # s
      <4>1. t.id # 0
        BY <2>1 DEF Tensor
      <4>2. tensors[r].id # t.id
        BY <3>2, <4>1 DEF CacheInv, IdsDistinct, Live
      <4> QED
        BY <2>2, <4>2 DEF Coherent, IsResident, IsCacheable
    <3> QED BY <3>1, <3>2
  <2> QED
    BY <2>3, <2>4, <2>5 DEF CacheInv, HostInv
<1>5. ASSUME NEW s \in Slots, AcquireThrows(s) PROVE CacheInv'
  BY <1>0, <1>5, EraseInv DEF AcquireThrows, NextIds
<1>6. ASSUME NEW S \in SUBSET Slots, RetainOnly(S) PROVE CacheInv'
  <2>1. PICK ids : entries' = Without(ids)
    BY <1>6 DEF RetainOnly
  <2>2. UNCHANGED hostVars
    BY <1>6 DEF RetainOnly
  <2> QED
    BY <1>0, <2>1, <2>2, EraseInv DEF hostVars
<1>7. CASE Clear
  BY <1>0, <1>7, EraseInv DEF Clear, hostVars
<1>8. ASSUME NEW s \in Slots, AcquireNotCacheable(s) \/ AcquireHit(s) PROVE CacheInv'
  BY <1>2, <1>8 DEF AcquireNotCacheable, AcquireHit
<1>9. CASE SetBudgetBytes \/ SetVerifyContent \/ UNCHANGED vars
  BY <1>2, <1>9 DEF SetBudgetBytes, SetVerifyContent, vars, cacheVars
<1> QED
  BY <1>1, <1>3, <1>4, <1>5, <1>6, <1>7, <1>8, <1>9 DEF Next, Acquire

\* CacheInv: coherence and what makes it inductive, for every history.
THEOREM SpecCacheInv == Spec => []CacheInv
<1>1. Init => CacheInv
  BY DEF Init, HostInit, CacheInv, IdsDistinct, TensorsDrawn, FrozenOwned, EntriesDrawn,
         HashesMatch, Coherent, IsResident, IsCacheable, NoTensor, Live
<1>2. TypeOK /\ CacheInv /\ [Next]_vars => CacheInv'
  BY StepCacheInv
<1> QED BY <1>1, <1>2, SpecTypeOK, PTL DEF Spec

\* Coherent: unless a write escapes the freeze checks, no operation sequence
\* lets acquire() serve a copy that differs from the frozen tensor.
THEOREM SpecCoherent ==
  ASSUME Escapes = FALSE
  PROVE  Spec => []Coherent
<1>1. CacheInv => Coherent
  BY DEF CacheInv
<1> QED BY <1>1, SpecCacheInv, PTL

(***************************************************************************)
(* Refinement.                                                             *)
(***************************************************************************)

\* Either nothing escapes the freeze checks, or verify mode is on throughout
\* and no two contents collide under the hash.
Trustworthy ==
  \/ Escapes = FALSE
  \/ /\ VerifyModes = {TRUE}
     /\ \A v, w \in Contents : HashOf[v] = HashOf[w] => v = w

\* What a hit serves is what the tensor holds.
LEMMA HitFresh ==
  ASSUME Trustworthy, TypeOK, CacheInv, NEW s \in Slots, Valid(tensors[s])
  PROVE  entries[tensors[s].id].val = tensors[s].val /\ IsCacheable(tensors[s])
<1> DEFINE t == tensors[s]
<1>1. IsResident(t) /\ IsCacheable(t)
  BY DEF Valid, IsResident
<1>2. CASE Escapes = FALSE
  BY <1>1, <1>2 DEF CacheInv, Coherent
<1>3. CASE /\ VerifyModes = {TRUE}
           /\ \A v, w \in Contents : HashOf[v] = HashOf[w] => v = w
  <2>1. HashOf[t.val] = entries[t.id].hash
    BY <1>1, <1>3 DEF Valid, Tampered, TypeOK
  <2>2. entries[t.id].hash = HashOf[entries[t.id].val]
    BY <1>1 DEF CacheInv, HashesMatch, IsResident
  <2>3. t.val \in Contents /\ entries[t.id].val \in Contents
    BY <1>1, CacheableType DEF TypeOK, Tensor, Entry, IsResident
  <2> QED BY <1>1, <1>3, <2>1, <2>2, <2>3
<1> QED BY <1>2, <1>3 DEF Trustworthy

\* The two modules speak of the same operations on tensors.
LEMMA SameHostStep ==
  ASSUME NEW s \in Slots
  PROVE  HostStep(s) <=> Promise!HostStep(s)
<1> USE DEF NextIds, Promise!NextIds, Live, Promise!Live, NoTensor, Promise!NoTensor,
            None, Promise!None
<1>1. Construct(s) <=> Promise!Construct(s)
  BY DEF Construct, Promise!Construct
<1>2. ConstructElsewhere <=> Promise!ConstructElsewhere
  BY DEF ConstructElsewhere, Promise!ConstructElsewhere
<1>3. Wrap(s) <=> Promise!Wrap(s)
  BY DEF Wrap, Promise!Wrap
<1>4. Write(s) <=> Promise!Write(s)
  BY DEF Write, Promise!Write
<1>5. WriteBehind(s) <=> Promise!WriteBehind(s)
  BY DEF WriteBehind, Promise!WriteBehind
<1>6. Freeze(s) <=> Promise!Freeze(s)
  BY DEF Freeze, Promise!Freeze
<1>7. Unfreeze(s) <=> Promise!Unfreeze(s)
  BY DEF Unfreeze, Promise!Unfreeze
<1>8. \A t \in Slots : Move(s, t) <=> Promise!Move(s, t)
  BY DEF Move, Promise!Move
<1>9. Destroy(s) <=> Promise!Destroy(s)
  BY DEF Destroy, Promise!Destroy
<1> QED
  BY <1>1, <1>2, <1>3, <1>4, <1>5, <1>6, <1>7, <1>8, <1>9 DEF HostStep, Promise!HostStep

\* FreshAnswers: the cache implements FreshCopies.  Every answer is nullptr, an
\* exception, or the bytes of the frozen host tensor at the time of the call.
THEOREM SpecFreshAnswers ==
  ASSUME Trustworthy
  PROVE  Spec => FreshAnswers
<1>1. Init => Promise!Init
  BY DEF Init, Promise!Init, NullPtr, Promise!NullPtr, HostInit, Promise!HostInit,
         NoTensor, Promise!NoTensor, None, Promise!None
<1>2. TypeOK /\ CacheInv /\ [Next]_vars => [Promise!Next]_<<Promise!hostVars, answer>>
  <2> SUFFICES ASSUME TypeOK, CacheInv, [Next]_vars
               PROVE  Promise!Next \/ UNCHANGED <<hostVars, answer>>
    BY DEF hostVars, Promise!hostVars
  <2>1. nextId \in Nat
    BY DEF TypeOK, HostTypeOK
  <2>2. ASSUME NEW s \in Slots, HostStep(s), UNCHANGED cacheVars PROVE Promise!Next
    BY <2>2, SameHostStep DEF Promise!Next, cacheVars
  <2>3. ASSUME NEW s \in Slots, Acquire(s) PROVE Promise!Ask(s)
    <3>1. CASE AcquireNotCacheable(s)
      BY <2>1, <3>1 DEF AcquireNotCacheable, hostVars, Promise!Ask, NullPtr, Promise!NullPtr
    <3>2. CASE AcquireHit(s)
      BY <2>1, <3>2, HitFresh DEF AcquireHit, hostVars, Promise!Ask, IsCacheable, Promise!IsCacheable
    <3>3. CASE AcquireOverBudget(s)
      BY <2>1, <3>3 DEF AcquireOverBudget, hostVars, Promise!Ask, NullPtr, Promise!NullPtr
    <3>4. CASE AcquireUpload(s)
      BY <2>1, <3>4 DEF AcquireUpload, NextIds, Promise!Ask, IsCacheable, Promise!IsCacheable
    <3>5. CASE AcquireThrows(s)
      BY <2>1, <3>5 DEF AcquireThrows, NextIds, Promise!Ask, Thrown, Promise!Thrown
    <3> QED BY <2>3, <3>1, <3>2, <3>3, <3>4, <3>5 DEF Acquire
  <2>4. ASSUME NEW S \in SUBSET Slots, RetainOnly(S) PROVE UNCHANGED <<hostVars, answer>>
    BY <2>4 DEF RetainOnly
  <2>5. CASE Clear \/ SetBudgetBytes \/ SetVerifyContent \/ UNCHANGED vars
    BY <2>5 DEF Clear, SetBudgetBytes, SetVerifyContent, vars, cacheVars
  <2> QED
    BY <2>2, <2>3, <2>4, <2>5 DEF Next, Promise!Next
<1> QED
  BY <1>1, <1>2, SpecTypeOK, SpecCacheInv, PTL DEF Spec, FreshAnswers, Promise!Spec

(***************************************************************************)
(* Conservation of entries.                                                *)
(***************************************************************************)

\* new is st with n more of counter c.
Counted(new, st, c, n) ==
  \A d \in Counter : new[d] = IF d = c THEN st[d] + n ELSE st[d]

\* Count does that.
LEMMA CountAt ==
  ASSUME NEW st \in [Counter -> Nat], NEW c \in Counter, NEW n \in Nat
  PROVE  Counted(Count(st, c, n), st, c, n)
BY DEF Count, Counted

\* Erasing a stale entry counts one invalidation if there was an entry.
LEMMA StatsAfterEraseAt ==
  ASSUME stats \in [Counter -> Nat], NEW t
  PROVE  LET st == StatsAfterErase(t) IN
         /\ st.misses = stats.misses
         /\ st.evictions = stats.evictions
         /\ st.invalidations = stats.invalidations + (IF t.id \in DOMAIN entries THEN 1 ELSE 0)
<1> DEFINE i == IF t.id \in DOMAIN entries THEN 1 ELSE 0
<1> DEFINE f == IF Tampered(t) THEN 1 ELSE 0
<1> DEFINE st1 == Count(stats, "invalidations", i)
<1> DEFINE st2 == Count(st1, "integrity_failures", f)
<1>1. i \in Nat /\ f \in Nat
  OBVIOUS
<1> HIDE DEF i, f
<1>2. st1 \in [Counter -> Nat]
  BY <1>1, CountType, Counters
<1>3. Counted(st1, stats, "invalidations", i)
  BY <1>1, CountAt, Counters
<1> HIDE DEF st1
<1>4. Counted(st2, st1, "integrity_failures", f)
  BY <1>1, <1>2, CountAt, Counters
<1>5. st2 = StatsAfterErase(t)
  BY DEF StatsAfterErase, st1, i, f
<1> HIDE DEF st2
<1>6. /\ st2.misses = stats.misses
      /\ st2.evictions = stats.evictions
      /\ st2.invalidations = stats.invalidations + i
  BY <1>3, <1>4, Counters DEF Counted
<1> QED BY <1>5, <1>6 DEF i

\* The number of entries after the entry of t is erased.
LEMMA EraseCardinality ==
  ASSUME TypeOK, NEW t
  PROVE  Cardinality(DOMAIN Without({t.id})) =
           Cardinality(DOMAIN entries) - (IF t.id \in DOMAIN entries THEN 1 ELSE 0)
<1>1. Cardinality(DOMAIN entries \ {t.id}) =
        IF t.id \in DOMAIN entries THEN Cardinality(DOMAIN entries) - 1
        ELSE Cardinality(DOMAIN entries)
  BY FS_RemoveElement DEF TypeOK
<1>2. DOMAIN Without({t.id}) = DOMAIN entries \ {t.id} /\ Cardinality(DOMAIN entries) \in Nat
  BY WithoutType
<1> QED BY <1>1, <1>2

\* EntriesBalance: in every history each upload is accounted for once.
THEOREM SpecEntriesBalance == Spec => []EntriesBalance
<1>1. Init => EntriesBalance
  BY FS_EmptySet DEF Init, EntriesBalance, Counter
<1>2. TypeOK /\ EntriesBalance /\ [Next]_vars => EntriesBalance'
  <2> SUFFICES ASSUME TypeOK, EntriesBalance, [Next]_vars PROVE EntriesBalance'
    OBVIOUS
  <2>0. /\ stats \in [Counter -> Nat]
        /\ Cardinality(DOMAIN entries) \in Nat
        /\ stats.misses \in Nat /\ stats.invalidations \in Nat /\ stats.evictions \in Nat
        /\ Cardinality(DOMAIN entries) = stats.misses - stats.invalidations - stats.evictions
    BY WithoutType, Counters DEF TypeOK, EntriesBalance
  <2>1. ASSUME UNCHANGED <<entries, stats>> PROVE EntriesBalance'
    BY <2>1 DEF EntriesBalance
  <2>2. ASSUME NEW s \in Slots, AcquireHit(s) PROVE EntriesBalance'
    <3>1. entries[tensors[s].id].bytes \in Nat
      BY <2>2 DEF AcquireHit, Valid, IsResident, TypeOK, Entry
    <3> DEFINE st == Count(stats, "hits", 1)
    <3>2. /\ st \in [Counter -> Nat]
          /\ Counted(st, stats, "hits", 1)
      BY <2>0, CountType, CountAt, Counters
    <3> HIDE DEF st
    <3>3. UNCHANGED entries /\ stats' = Count(st, "avoided", entries[tensors[s].id].bytes)
      BY <2>2 DEF AcquireHit, st
    <3>4. Counted(stats', st, "avoided", entries[tensors[s].id].bytes)
      BY <3>1, <3>2, <3>3, CountAt, Counters
    <3> QED
      BY <2>0, <3>2, <3>3, <3>4, Counters DEF EntriesBalance, Counted
  <2>3. ASSUME NEW s \in Slots, AcquireOverBudget(s) PROVE EntriesBalance'
    <3> DEFINE t == tensors[s]
    <3> DEFINE st == StatsAfterErase(t)
    <3>1. st \in [Counter -> Nat]
      BY <2>0, StatsAfterEraseType
    <3>2. Counted(stats', st, "budget_skips", 1)
      BY <2>3, <3>1, CountAt, Counters DEF AcquireOverBudget
    <3>3. entries' = Without({t.id})
      BY <2>3 DEF AcquireOverBudget
    <3> QED
      BY <2>0, <3>2, <3>3, StatsAfterEraseAt, EraseCardinality, Counters
      DEF EntriesBalance, Counted
  <2>4. ASSUME NEW s \in Slots, AcquireUpload(s) PROVE EntriesBalance'
    <3> DEFINE t == tensors[s]
    <3> DEFINE st == StatsAfterErase(t)
    <3>1. st \in [Counter -> Nat]
      BY <2>0, StatsAfterEraseType
    <3>2. t.bytes \in Nat
      BY <2>4, CacheableType DEF AcquireUpload, TypeOK, Tensor
    <3> DEFINE st1 == Count(st, "misses", 1)
    <3>3. /\ st1 \in [Counter -> Nat]
          /\ Counted(st1, st, "misses", 1)
      BY <3>1, CountType, CountAt, Counters
    <3>4. stats' = Count(st1, "uploaded", t.bytes) /\ DOMAIN entries' = DOMAIN entries \cup {t.id}
      BY <2>4 DEF AcquireUpload
    <3> HIDE DEF st1
    <3>5. Counted(stats', st1, "uploaded", t.bytes)
      BY <3>2, <3>3, <3>4, CountAt, Counters
    <3>6. Cardinality(DOMAIN entries') =
            Cardinality(DOMAIN entries) + (IF t.id \in DOMAIN entries THEN 0 ELSE 1)
      <4>1. Cardinality(DOMAIN entries \cup {t.id}) =
              IF t.id \in DOMAIN entries THEN Cardinality(DOMAIN entries)
              ELSE Cardinality(DOMAIN entries) + 1
        BY FS_AddElement DEF TypeOK
      <4> QED BY <2>0, <3>4, <4>1
    <3> QED
      BY <2>0, <3>3, <3>5, <3>6, StatsAfterEraseAt, Counters
      DEF EntriesBalance, Counted
  <2>5. ASSUME NEW s \in Slots, AcquireThrows(s) PROVE EntriesBalance'
    <3>1. entries' = Without({tensors[s].id}) /\ stats' = StatsAfterErase(tensors[s])
      BY <2>5 DEF AcquireThrows
    <3> QED
      BY <2>0, <3>1, StatsAfterEraseAt, EraseCardinality DEF EntriesBalance
  <2>6. ASSUME NEW dead \in SUBSET DOMAIN entries,
               entries' = Without(dead),
               stats' = Count(stats, "evictions", Cardinality(dead))
        PROVE  EntriesBalance'
    <3>1. Cardinality(dead) \in Nat /\ IsFiniteSet(dead)
      BY FS_Subset, FS_CardinalityType DEF TypeOK
    <3>2. Cardinality(DOMAIN entries') = Cardinality(DOMAIN entries) - Cardinality(dead)
      <4>1. DOMAIN entries' = DOMAIN entries \ dead
        BY <2>6 DEF Without
      <4>2. Cardinality(DOMAIN entries \ dead) =
              Cardinality(DOMAIN entries) - Cardinality(DOMAIN entries \cap dead)
        BY FS_Difference DEF TypeOK
      <4>3. DOMAIN entries \cap dead = dead
        OBVIOUS
      <4> QED BY <4>1, <4>2, <4>3
    <3>3. Counted(stats', stats, "evictions", Cardinality(dead))
      BY <2>0, <2>6, <3>1, CountAt, Counters
    <3> QED
      BY <2>0, <3>1, <3>2, <3>3, Counters DEF EntriesBalance, Counted
  <2>7. ASSUME NEW S \in SUBSET Slots, RetainOnly(S) PROVE EntriesBalance'
    BY <2>6, <2>7 DEF RetainOnly
  <2>8. CASE Clear
    BY <2>6, <2>8 DEF Clear
  <2>9. ASSUME NEW s \in Slots, HostStep(s) /\ UNCHANGED cacheVars PROVE EntriesBalance'
    BY <2>1, <2>9 DEF cacheVars
  <2>10. CASE \E s \in Slots : AcquireNotCacheable(s)
    BY <2>1, <2>10 DEF AcquireNotCacheable
  <2>11. CASE SetBudgetBytes \/ SetVerifyContent \/ UNCHANGED vars
    BY <2>1, <2>11 DEF SetBudgetBytes, SetVerifyContent, vars, cacheVars
  <2> QED
    BY <2>2, <2>3, <2>4, <2>5, <2>7, <2>8, <2>9, <2>10, <2>11 DEF Next, Acquire
<1> QED BY <1>1, <1>2, SpecTypeOK, PTL DEF Spec

(***************************************************************************)
(* Sums of bytes.  MapThenSumSet is a recursive function on the subsets    *)
(* of the set that is summed; it is built here one cardinality at a time,  *)
(* by the induction of Repetition.                                         *)
(***************************************************************************)

\* The bytes that the members of S have in e.
Bytes(e, S) == MapThenSumSet(LAMBDA i : e[i].bytes, S)

\* One level of the sum: for a set, given the sums for the smaller ones.
SumStep(p, i, sums) ==
  [s \in SUBSET p[2] |->
     IF s = {} THEN 0
     ELSE LET x == CHOOSE y \in s : TRUE IN p[1][x].bytes + sums[s \ {x}]]

\* The levels, one cardinality after the other.
Sums == INSTANCE Repetition WITH Step <- SumStep

\* g has the sums for the subsets of S.
SumTable(e, S, g) ==
  g = [s \in SUBSET S |->
         IF s = {} THEN 0
         ELSE LET x == CHOOSE y \in s : TRUE IN e[x].bytes + g[s \ {x}]]

\* The library's recursive sum takes its value from such a table.
LEMMA BytesTable ==
  ASSUME NEW e, NEW S
  PROVE  Bytes(e, S) = (CHOOSE g : SumTable(e, S, g))[S]
BY DEF Bytes, MapThenSumSet, MapThenFoldSet, SumTable

\* A finite set has one: level n has the sums of the subsets below n members.
LEMMA TableExists ==
  ASSUME NEW e, NEW S, IsFiniteSet(S)
  PROVE  \E g : SumTable(e, S, g)
<1> DEFINE H(n) == Sums!Repeated(<<e, S>>, 0, n)
           g == [s \in SUBSET S |-> H(Cardinality(s) + 1)[s]]
<1>1. \A n \in Nat : H(n + 1) = SumStep(<<e, S>>, n + 1, H(n))
  BY Sums!RepeatedUnfolds
<1> HIDE DEF H
<1>2. ASSUME NEW n \in Nat, NEW s \in SUBSET S
      PROVE  H(n + 1)[s] = IF s = {} THEN 0
               ELSE LET x == CHOOSE y \in s : TRUE IN e[x].bytes + H(n)[s \ {x}]
  BY <1>1 DEF SumStep
<1>3. ASSUME NEW s \in SUBSET S
      PROVE  g[s] = IF s = {} THEN 0
               ELSE LET x == CHOOSE y \in s : TRUE IN e[x].bytes + g[s \ {x}]
  <2>1. IsFiniteSet(s) /\ Cardinality(s) \in Nat
    BY FS_Subset, FS_CardinalityType
  <2>2. g[s] = H(Cardinality(s) + 1)[s]
    OBVIOUS
  <2>3. CASE s = {}
    BY <2>1, <2>2, <2>3, <1>2
  <2>4. CASE s # {}
    <3> DEFINE x == CHOOSE y \in s : TRUE
    <3>1. x \in s
      BY <2>4
    <3> HIDE DEF x
    <3>2. Cardinality(s \ {x}) = Cardinality(s) - 1 /\ IsFiniteSet(s \ {x})
      BY <3>1, <2>1, FS_RemoveElement
    <3>3. s \ {x} \in SUBSET S /\ Cardinality(s \ {x}) + 1 = Cardinality(s)
      BY <2>1, <3>2
    <3>4. g[s \ {x}] = H(Cardinality(s))[s \ {x}]
      BY <3>3
    <3>5. H(Cardinality(s) + 1)[s] = e[x].bytes + H(Cardinality(s))[s \ {x}]
      BY <2>1, <2>4, <1>2 DEF x
    <3> QED BY <2>2, <2>4, <3>4, <3>5 DEF x
  <2> QED BY <2>3, <2>4
<1>4. SumTable(e, S, g)
  BY <1>3 DEF SumTable
<1> QED BY <1>4

\* Tables agree on what they both have.
LEMMA TablesAgree ==
  ASSUME NEW e, NEW S, IsFiniteSet(S), NEW T, NEW g, SumTable(e, S, g), NEW h, SumTable(e, T, h)
  PROVE  \A s \in SUBSET (S \cap T) : g[s] = h[s]
<1> DEFINE N == {n \in Nat : \A s \in SUBSET (S \cap T) : Cardinality(s) = n => g[s] = h[s]}
<1>1. \A s \in SUBSET (S \cap T) :
        /\ g[s] = IF s = {} THEN 0
                  ELSE LET x == CHOOSE y \in s : TRUE IN e[x].bytes + g[s \ {x}]
        /\ h[s] = IF s = {} THEN 0
                  ELSE LET x == CHOOSE y \in s : TRUE IN e[x].bytes + h[s \ {x}]
  BY DEF SumTable
<1>2. \A s \in SUBSET (S \cap T) : IsFiniteSet(s) /\ Cardinality(s) \in Nat
  BY FS_Subset, FS_CardinalityType
<1>3. 0 \in N
  <2>1. ASSUME NEW s \in SUBSET (S \cap T), Cardinality(s) = 0 PROVE s = {}
    BY <1>2, <2>1, FS_EmptySet
  <2> QED BY <1>1, <2>1
<1>4. ASSUME NEW k \in Nat, k \in N PROVE k + 1 \in N
  <2> SUFFICES ASSUME NEW s \in SUBSET (S \cap T), Cardinality(s) = k + 1 PROVE g[s] = h[s]
    OBVIOUS
  <2>1. s # {}
    BY FS_EmptySet
  <2> DEFINE x == CHOOSE y \in s : TRUE
  <2>2. x \in s
    BY <2>1
  <2>3. g[s] = e[x].bytes + g[s \ {x}] /\ h[s] = e[x].bytes + h[s \ {x}]
    BY <1>1, <2>1
  <2> HIDE DEF x
  <2>4. Cardinality(s \ {x}) = k
    <3>1. Cardinality(s \ {x}) = (k + 1) - 1
      BY <1>2, <2>2, FS_RemoveElement
    <3> QED BY <3>1
  <2>5. s \ {x} \in SUBSET (S \cap T)
    OBVIOUS
  <2>6. g[s \ {x}] = h[s \ {x}]
    BY <2>4, <2>5, <1>4
  <2> QED BY <2>3, <2>6
<1>5. Nat \subseteq N
  <2> HIDE DEF N
  <2> QED BY <1>3, <1>4, Sums!SetInduction
<1> QED BY <1>2, <1>5

\* The bytes of one member that CHOOSE picks, and those of the others.
LEMMA BytesUnfold ==
  ASSUME NEW e, NEW S, IsFiniteSet(S)
  PROVE  Bytes(e, S) = IF S = {} THEN 0
           ELSE LET x == CHOOSE y \in S : TRUE IN e[x].bytes + Bytes(e, S \ {x})
<1> DEFINE g(T) == CHOOSE f : SumTable(e, T, f)
<1>1. \A T : Bytes(e, T) = g(T)[T]
  BY BytesTable
<1>2. \A T : IsFiniteSet(T) => SumTable(e, T, g(T))
  BY TableExists
<1> HIDE DEF g
<1>3. g(S)[S] = IF S = {} THEN 0
        ELSE LET x == CHOOSE y \in S : TRUE IN e[x].bytes + g(S)[S \ {x}]
  BY <1>2 DEF SumTable
<1>4. CASE S = {}
  BY <1>1, <1>3, <1>4
<1>5. CASE S # {}
  <2> DEFINE x == CHOOSE y \in S : TRUE
  <2> HIDE DEF x
  <2>1. IsFiniteSet(S \ {x})
    BY FS_Subset
  <2>2. S \ {x} \in SUBSET (S \cap (S \ {x}))
    OBVIOUS
  <2>3. SumTable(e, S, g(S)) /\ SumTable(e, S \ {x}, g(S \ {x}))
    BY <1>2, <2>1
  <2>4. g(S)[S \ {x}] = g(S \ {x})[S \ {x}]
    BY <2>2, <2>3, TablesAgree
  <2> QED BY <1>1, <1>3, <1>5, <2>4 DEF x
<1> QED BY <1>4, <1>5

\* No members, no bytes.
LEMMA BytesNone ==
  ASSUME NEW e
  PROVE  Bytes(e, {}) = 0
<1>1. IsFiniteSet({})
  BY FS_EmptySet
<1> QED BY <1>1, BytesUnfold

\* They are a natural number.
LEMMA BytesNatural ==
  ASSUME NEW e, NEW S, IsFiniteSet(S), \A i \in S : e[i].bytes \in Nat
  PROVE  Bytes(e, S) \in Nat
<1> DEFINE N == {n \in Nat : \A s \in SUBSET S : Cardinality(s) = n => Bytes(e, s) \in Nat}
<1>1. \A s \in SUBSET S : IsFiniteSet(s) /\ Cardinality(s) \in Nat
  BY FS_Subset, FS_CardinalityType
<1>2. 0 \in N
  <2>1. ASSUME NEW s \in SUBSET S, Cardinality(s) = 0 PROVE Bytes(e, s) \in Nat
    <3>1. s = {} /\ IsFiniteSet(s)
      BY <1>1, <2>1, FS_EmptySet
    <3> QED BY <3>1, BytesNone
  <2> QED BY <2>1
<1>3. ASSUME NEW k \in Nat, k \in N PROVE k + 1 \in N
  <2> SUFFICES ASSUME NEW s \in SUBSET S, Cardinality(s) = k + 1 PROVE Bytes(e, s) \in Nat
    OBVIOUS
  <2>1. s # {} /\ IsFiniteSet(s)
    BY <1>1, FS_EmptySet
  <2> DEFINE x == CHOOSE y \in s : TRUE
  <2>2. x \in s
    BY <2>1
  <2>3. Bytes(e, s) = e[x].bytes + Bytes(e, s \ {x})
    BY <2>1, BytesUnfold
  <2> HIDE DEF x
  <2>4. Cardinality(s \ {x}) = k /\ s \ {x} \in SUBSET S
    <3>1. Cardinality(s \ {x}) = (k + 1) - 1
      BY <2>1, <2>2, FS_RemoveElement
    <3> QED BY <3>1
  <2>5. Bytes(e, s \ {x}) \in Nat /\ e[x].bytes \in Nat
    BY <2>2, <2>4, <1>3
  <2> QED BY <2>3, <2>5
<1>4. Nat \subseteq N
  <2> HIDE DEF N
  <2> QED BY <1>2, <1>3, Sums!SetInduction
<1> QED BY <1>1, <1>4

\* Any member may be taken out.
LEMMA BytesWithout ==
  ASSUME NEW e, NEW S, IsFiniteSet(S), \A i \in S : e[i].bytes \in Nat, NEW a \in S
  PROVE  Bytes(e, S) = e[a].bytes + Bytes(e, S \ {a})
<1> DEFINE N == {n \in Nat : \A s \in SUBSET S : \A b \in s :
                   Cardinality(s) = n => Bytes(e, s) = e[b].bytes + Bytes(e, s \ {b})}
<1>1. \A s \in SUBSET S : IsFiniteSet(s) /\ Cardinality(s) \in Nat /\ Bytes(e, s) \in Nat
  BY FS_Subset, FS_CardinalityType, BytesNatural
<1>2. 0 \in N
  <2>1. ASSUME NEW s \in SUBSET S, Cardinality(s) = 0 PROVE s = {}
    BY <1>1, <2>1, FS_EmptySet
  <2> QED BY <2>1
<1>3. ASSUME NEW k \in Nat, k \in N PROVE k + 1 \in N
  <2> SUFFICES ASSUME NEW s \in SUBSET S, NEW b \in s, Cardinality(s) = k + 1
               PROVE  Bytes(e, s) = e[b].bytes + Bytes(e, s \ {b})
    OBVIOUS
  <2>1. s # {} /\ IsFiniteSet(s)
    BY <1>1
  <2> DEFINE x == CHOOSE y \in s : TRUE
  <2>2. x \in s
    BY <2>1
  <2>3. Bytes(e, s) = e[x].bytes + Bytes(e, s \ {x})
    BY <2>1, BytesUnfold
  <2> HIDE DEF x
  <2>4. CASE b = x
    BY <2>3, <2>4
  <2>5. CASE b # x
    <3>1. /\ Cardinality(s \ {x}) = k /\ s \ {x} \in SUBSET S /\ b \in s \ {x}
          /\ Cardinality(s \ {b}) = k /\ s \ {b} \in SUBSET S /\ x \in s \ {b}
      <4>1. Cardinality(s \ {x}) = (k + 1) - 1 /\ Cardinality(s \ {b}) = (k + 1) - 1
        BY <2>1, <2>2, FS_RemoveElement
      <4> QED BY <4>1, <2>2, <2>5
    <3>2. Bytes(e, s \ {x}) = e[b].bytes + Bytes(e, (s \ {x}) \ {b})
      BY <3>1, <1>3
    <3>3. Bytes(e, s \ {b}) = e[x].bytes + Bytes(e, (s \ {b}) \ {x})
      BY <3>1, <1>3
    <3>4. (s \ {x}) \ {b} = (s \ {b}) \ {x}
      OBVIOUS
    <3> DEFINE r == Bytes(e, (s \ {x}) \ {b})
    <3>5. e[b].bytes \in Nat /\ e[x].bytes \in Nat /\ r \in Nat
      BY <1>1, <2>2
    <3>6. Bytes(e, s \ {x}) = e[b].bytes + r /\ Bytes(e, s \ {b}) = e[x].bytes + r
      BY <3>2, <3>3, <3>4
    <3> HIDE DEF r
    <3> QED BY <2>3, <3>5, <3>6
  <2> QED BY <2>4, <2>5
<1>4. Nat \subseteq N
  <2> HIDE DEF N
  <2> QED BY <1>2, <1>3, Sums!SetInduction
<1> QED BY <1>1, <1>4

\* Or any set of them.
LEMMA BytesSplit ==
  ASSUME NEW e, NEW S, IsFiniteSet(S), \A i \in S : e[i].bytes \in Nat, NEW T \in SUBSET S
  PROVE  Bytes(e, S) = Bytes(e, T) + Bytes(e, S \ T)
<1> DEFINE N == {n \in Nat : \A s \in SUBSET S :
                   Cardinality(s) = n => Bytes(e, S) = Bytes(e, s) + Bytes(e, S \ s)}
<1>1. \A s \in SUBSET S : IsFiniteSet(s) /\ Cardinality(s) \in Nat /\ Bytes(e, s) \in Nat
  BY FS_Subset, FS_CardinalityType, BytesNatural
<1>2. 0 \in N
  <2>1. ASSUME NEW s \in SUBSET S, Cardinality(s) = 0
        PROVE  Bytes(e, S) = Bytes(e, s) + Bytes(e, S \ s)
    <3>1. s = {} /\ S \ s = S
      BY <1>1, <2>1, FS_EmptySet
    <3>2. Bytes(e, s) = 0
      BY <3>1, BytesNone
    <3> QED BY <1>1, <3>1, <3>2
  <2> QED BY <2>1
<1>3. ASSUME NEW k \in Nat, k \in N PROVE k + 1 \in N
  <2> SUFFICES ASSUME NEW s \in SUBSET S, Cardinality(s) = k + 1
               PROVE  Bytes(e, S) = Bytes(e, s) + Bytes(e, S \ s)
    OBVIOUS
  <2>1. s # {} /\ IsFiniteSet(s)
    BY <1>1, FS_EmptySet
  <2>2. PICK x : x \in s
    BY <2>1
  <2>3. Cardinality(s \ {x}) = k /\ s \ {x} \in SUBSET S
    <3>1. Cardinality(s \ {x}) = (k + 1) - 1
      BY <2>1, <2>2, FS_RemoveElement
    <3> QED BY <3>1
  <2>4. Bytes(e, S) = Bytes(e, s \ {x}) + Bytes(e, S \ (s \ {x}))
    BY <2>3, <1>3
  <2>5. Bytes(e, s) = e[x].bytes + Bytes(e, s \ {x})
    BY <2>1, <2>2, BytesWithout
  <2>6. /\ IsFiniteSet(S \ (s \ {x})) /\ x \in S \ (s \ {x})
        /\ (S \ (s \ {x})) \ {x} = S \ s
    BY <1>1, <2>2
  <2>7. Bytes(e, S \ (s \ {x})) = e[x].bytes + Bytes(e, S \ s)
    BY <2>6, BytesWithout
  <2>8. e[x].bytes \in Nat /\ Bytes(e, s \ {x}) \in Nat /\ Bytes(e, S \ s) \in Nat
    BY <1>1, <2>2
  <2> QED BY <2>4, <2>5, <2>7, <2>8
<1>4. Nat \subseteq N
  <2> HIDE DEF N
  <2> QED BY <1>2, <1>3, Sums!SetInduction
<1> QED BY <1>1, <1>4

\* Only the bytes of the members matter.
LEMMA BytesSame ==
  ASSUME NEW e, NEW d, NEW S, \A i \in S : e[i].bytes = d[i].bytes
  PROVE  Bytes(e, S) = Bytes(d, S)
<1>1. ASSUME NEW g, NEW s \in SUBSET S
      PROVE  (IF s = {} THEN 0
              ELSE LET x == CHOOSE y \in s : TRUE IN e[x].bytes + g[s \ {x}])
             = (IF s = {} THEN 0
                ELSE LET x == CHOOSE y \in s : TRUE IN d[x].bytes + g[s \ {x}])
  <2>1. CASE s = {}
    BY <2>1
  <2>2. CASE s # {}
    <3> DEFINE x == CHOOSE y \in s : TRUE
    <3>1. x \in S
      BY <2>2
    <3> QED BY <3>1
  <2> QED BY <2>1, <2>2
<1>2. ASSUME NEW g PROVE SumTable(e, S, g) <=> SumTable(d, S, g)
  BY <1>1 DEF SumTable
<1> HIDE DEF SumTable
<1>3. (CHOOSE g : SumTable(e, S, g)) = (CHOOSE g : SumTable(d, S, g))
  BY <1>2
<1> QED BY <1>3, BytesTable

(***************************************************************************)
(* Accounting of resident bytes.                                           *)
(***************************************************************************)

\* The bytes of entries are natural numbers, and so is their sum.
LEMMA EntryBytes ==
  ASSUME TypeOK
  PROVE  /\ IsFiniteSet(DOMAIN entries)
         /\ \A id \in DOMAIN entries : entries[id].bytes \in Nat
         /\ \A ids \in SUBSET DOMAIN entries : BytesOf(ids) = Bytes(entries, ids) /\ BytesOf(ids) \in Nat
         /\ \A t : StaleBytes(t) \in Nat
         /\ ResidentExact => resident \in Nat
<1>1. IsFiniteSet(DOMAIN entries) /\ \A id \in DOMAIN entries : entries[id].bytes \in Nat
  BY DEF TypeOK, Entry
<1>2. \A ids : BytesOf(ids) = Bytes(entries, ids)
  BY DEF BytesOf, Bytes, MapThenSumSet, MapThenFoldSet
<1>3. \A ids \in SUBSET DOMAIN entries : BytesOf(ids) \in Nat
  BY <1>1, <1>2, FS_Subset, BytesNatural
<1> QED BY <1>1, <1>2, <1>3 DEF StaleBytes, ResidentExact

\* Erasing entries takes their bytes off the sum.
LEMMA EraseBytes ==
  ASSUME TypeOK, ResidentExact, NEW ids \in SUBSET DOMAIN entries,
         entries' = Without(ids), resident' = resident - BytesOf(ids)
  PROVE  ResidentExact'
<1> DEFINE left == DOMAIN entries \ ids
<1>1. DOMAIN entries' = left /\ \A id \in left : entries'[id].bytes = entries[id].bytes
  BY DEF Without
<1>2. Bytes(entries', left) = Bytes(entries, left)
  BY <1>1, BytesSame
<1>3. Bytes(entries, DOMAIN entries) = Bytes(entries, ids) + Bytes(entries, left)
  BY EntryBytes, BytesSplit
<1>4. BytesOf(DOMAIN entries)' = Bytes(entries', DOMAIN entries')
  BY DEF BytesOf, Bytes, MapThenSumSet, MapThenFoldSet
<1>5. resident = Bytes(entries, DOMAIN entries) /\ resident \in Nat
      /\ BytesOf(ids) = Bytes(entries, ids) /\ BytesOf(ids) \in Nat
  BY EntryBytes DEF ResidentExact
<1>6. Bytes(entries, left) \in Nat
  BY EntryBytes
<1> HIDE DEF left
<1>7. Bytes(entries', DOMAIN entries') = Bytes(entries, left)
  BY <1>1, <1>2
<1>8. resident' = Bytes(entries, left)
  BY <1>3, <1>5, <1>6
<1> QED BY <1>4, <1>7, <1>8 DEF ResidentExact

\* Also the entry of one tensor, if there is one.
LEMMA EraseStaleBytes ==
  ASSUME TypeOK, ResidentExact, NEW t,
         entries' = Without({t.id}), resident' = resident - StaleBytes(t)
  PROVE  ResidentExact'
<1> DEFINE ids == {t.id} \cap DOMAIN entries
<1>1. entries' = Without(ids)
  <2>1. DOMAIN entries \ {t.id} = DOMAIN entries \ ids
    OBVIOUS
  <2> QED BY <2>1 DEF Without
<1>2. StaleBytes(t) = BytesOf(ids)
  <2>1. BytesOf(ids) = Bytes(entries, ids)
    BY EntryBytes
  <2>2. CASE t.id \in DOMAIN entries
    <3>1. ids = {t.id} /\ ids \ {t.id} = {} /\ IsFiniteSet(ids)
      BY <2>2, EntryBytes, FS_Subset
    <3>2. Bytes(entries, ids) = entries[t.id].bytes + Bytes(entries, ids \ {t.id})
      BY <3>1, <2>2, EntryBytes, BytesWithout
    <3>3. Bytes(entries, {}) = 0 /\ entries[t.id].bytes \in Nat
      BY <2>2, BytesNone, EntryBytes
    <3> QED BY <2>1, <2>2, <3>1, <3>2, <3>3 DEF StaleBytes
  <2>3. CASE t.id \notin DOMAIN entries
    <3>1. ids = {}
      BY <2>3
    <3> QED BY <2>1, <2>3, <3>1, BytesNone DEF StaleBytes
  <2> QED BY <2>2, <2>3
<1> HIDE DEF ids
<1>3. ids \in SUBSET DOMAIN entries
  BY DEF ids
<1> QED BY <1>1, <1>2, <1>3, EraseBytes

\* An upload replaces the bytes of the stale entry by those of the new one.
LEMMA UploadBytes ==
  ASSUME TypeOK, ResidentExact, NEW s \in Slots, AcquireUpload(s)
  PROVE  ResidentExact'
<1> DEFINE t == tensors[s]
           old == DOMAIN entries \ {t.id}
<1>1. t.bytes \in Nat /\ t.id \in Nat
  BY CacheableType DEF AcquireUpload, TypeOK, Tensor
<1>2. /\ DOMAIN entries' = DOMAIN entries \cup {t.id}
      /\ \A id \in old : entries'[id] = entries[id]
      /\ entries'[t.id].bytes = t.bytes
      /\ resident' = resident - StaleBytes(t) + t.bytes
  BY DEF AcquireUpload
<1> HIDE DEF t
<1>3. IsFiniteSet(DOMAIN entries') /\ \A id \in DOMAIN entries' : entries'[id].bytes \in Nat
  BY <1>1, <1>2, EntryBytes, FS_AddElement
<1>4. DOMAIN entries' \ {t.id} = old /\ t.id \in DOMAIN entries'
  BY <1>2
<1>5. Bytes(entries', DOMAIN entries') = t.bytes + Bytes(entries', old)
  BY <1>2, <1>3, <1>4, BytesWithout
<1>6. Bytes(entries', old) = Bytes(entries, old)
  BY <1>2, BytesSame
<1>7. Bytes(entries, old) \in Nat /\ resident \in Nat /\ resident = Bytes(entries, DOMAIN entries)
  BY EntryBytes DEF ResidentExact
<1>8. resident - StaleBytes(t) = Bytes(entries, old)
  <2>1. CASE t.id \in DOMAIN entries
    <3>1. Bytes(entries, DOMAIN entries) = entries[t.id].bytes + Bytes(entries, old)
      BY <2>1, EntryBytes, BytesWithout
    <3>2. StaleBytes(t) = entries[t.id].bytes /\ StaleBytes(t) \in Nat
      BY <2>1, EntryBytes DEF StaleBytes
    <3> HIDE DEF old
    <3> QED BY <1>7, <3>1, <3>2
  <2>2. CASE t.id \notin DOMAIN entries
    <3>1. old = DOMAIN entries /\ StaleBytes(t) = 0
      BY <2>2 DEF StaleBytes
    <3> QED BY <1>7, <3>1
  <2> QED BY <2>1, <2>2
<1>9. BytesOf(DOMAIN entries)' = Bytes(entries', DOMAIN entries')
  BY DEF BytesOf, Bytes, MapThenSumSet, MapThenFoldSet
<1> HIDE DEF old
<1>10. resident' = Bytes(entries', DOMAIN entries')
  BY <1>1, <1>2, <1>5, <1>6, <1>7, <1>8
<1> QED BY <1>9, <1>10 DEF ResidentExact

\* No operation lets the counter of resident bytes drift.
LEMMA StepResidentExact == TypeOK /\ ResidentExact /\ [Next]_vars => ResidentExact'
<1> SUFFICES ASSUME TypeOK, ResidentExact, [Next]_vars PROVE ResidentExact'
  OBVIOUS
<1>1. ASSUME UNCHANGED <<entries, resident>> PROVE ResidentExact'
  BY <1>1 DEF ResidentExact, BytesOf, MapThenSumSet, MapThenFoldSet
<1>2. ASSUME NEW s \in Slots, AcquireOverBudget(s) \/ AcquireThrows(s) PROVE ResidentExact'
  BY <1>2, EraseStaleBytes DEF AcquireOverBudget, AcquireThrows
<1>3. ASSUME NEW s \in Slots, AcquireUpload(s) PROVE ResidentExact'
  BY <1>3, UploadBytes
<1>4. ASSUME NEW S \in SUBSET Slots, RetainOnly(S) PROVE ResidentExact'
  BY <1>4, EraseBytes DEF RetainOnly
<1>5. CASE Clear
  <2>1. resident' = resident - BytesOf(DOMAIN entries)
    BY <1>5, EntryBytes DEF Clear, ResidentExact
  <2> QED BY <1>5, <2>1, EraseBytes DEF Clear
<1>6. ASSUME NEW s \in Slots, HostStep(s) /\ UNCHANGED cacheVars PROVE ResidentExact'
  BY <1>1, <1>6 DEF cacheVars
<1>7. ASSUME NEW s \in Slots, AcquireNotCacheable(s) \/ AcquireHit(s) PROVE ResidentExact'
  BY <1>1, <1>7 DEF AcquireNotCacheable, AcquireHit
<1>8. CASE SetBudgetBytes \/ SetVerifyContent \/ UNCHANGED vars
  BY <1>1, <1>8 DEF SetBudgetBytes, SetVerifyContent, vars, cacheVars
<1> QED
  BY <1>2, <1>3, <1>4, <1>5, <1>6, <1>7, <1>8 DEF Next, Acquire

\* ResidentExact: whatever is erased, evicted, replaced or fails to upload, in
\* whatever order, resident_bytes_ is the bytes of the copies that are held.
THEOREM SpecResidentExact == Spec => []ResidentExact
<1>1. Init => ResidentExact
  <2> SUFFICES ASSUME Init PROVE ResidentExact
    OBVIOUS
  <2>1. DOMAIN entries = {} /\ resident = 0
    BY DEF Init
  <2>2. BytesOf({}) = Bytes(entries, {})
    BY DEF BytesOf, Bytes, MapThenSumSet, MapThenFoldSet
  <2> QED BY <2>1, <2>2, BytesNone DEF ResidentExact
<1>2. TypeOK /\ ResidentExact /\ [Next]_vars => ResidentExact'
  BY StepResidentExact
<1> QED BY <1>1, <1>2, SpecTypeOK, PTL DEF Spec

\* AdmissionWithinBudget: no step adds bytes but an upload, which does so only
\* where the total stays within the budget.
THEOREM SpecAdmissionWithinBudget == Spec => AdmissionWithinBudget
<1>1. TypeOK /\ ResidentExact /\ [Next]_vars => [resident' > resident => resident' <= budget']_vars
  <2> SUFFICES ASSUME TypeOK, ResidentExact, Next, resident' > resident
               PROVE  resident' <= budget'
    BY DEF vars
  <2>0. resident \in Nat /\ \A t : StaleBytes(t) \in Nat
    BY EntryBytes
  <2>1. ASSUME UNCHANGED resident PROVE FALSE
    BY <2>0, <2>1
  <2>2. ASSUME NEW n \in Nat, resident' = resident - n PROVE FALSE
    BY <2>0, <2>2
  <2>3. ASSUME NEW s \in Slots, AcquireUpload(s) PROVE resident' <= budget'
    BY <2>3 DEF AcquireUpload, Fits
  <2>4. ASSUME NEW s \in Slots, AcquireOverBudget(s) \/ AcquireThrows(s) PROVE FALSE
    BY <2>0, <2>2, <2>4 DEF AcquireOverBudget, AcquireThrows
  <2>5. ASSUME NEW S \in SUBSET Slots, RetainOnly(S) PROVE FALSE
    BY <2>2, <2>5, EntryBytes DEF RetainOnly
  <2>6. CASE Clear
    BY <2>0, <2>6 DEF Clear
  <2>7. ASSUME NEW s \in Slots, HostStep(s) /\ UNCHANGED cacheVars PROVE FALSE
    BY <2>1, <2>7 DEF cacheVars
  <2>8. ASSUME NEW s \in Slots, AcquireNotCacheable(s) \/ AcquireHit(s) PROVE FALSE
    BY <2>1, <2>8 DEF AcquireNotCacheable, AcquireHit
  <2>9. CASE SetBudgetBytes \/ SetVerifyContent
    BY <2>1, <2>9 DEF SetBudgetBytes, SetVerifyContent
  <2> QED
    BY <2>3, <2>4, <2>5, <2>6, <2>7, <2>8, <2>9 DEF Next, Acquire
<1> QED BY <1>1, SpecTypeOK, SpecResidentExact, PTL DEF Spec, AdmissionWithinBudget
=============================================================================
