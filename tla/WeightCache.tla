--------------------------- MODULE WeightCache ---------------------------
(***************************************************************************)
(* DeviceWeightCache (include/forgert/scheduler/weight_cache.h, src/       *)
(* scheduler/weight_cache.cpp): device copies of frozen host tensors kept  *)
(* across runs, keyed on the host tensor's id and validated by its freeze  *)
(* generation, under a byte budget.                                        *)
(*                                                                         *)
(* One action per public operation.  acquire() is split by its outcome:    *)
(* not cacheable, served from a resident copy, over budget, uploaded, and  *)
(* failed while uploading; the last three first drop a stale entry.        *)
(***************************************************************************)
EXTENDS HostTensors, FiniteSets, FiniteSetsExt

CONSTANTS
  Budgets,      \* values setBudgetBytes() is called with
  VerifyModes,  \* values setVerifyContent() is called with
  HashOf,       \* hashBytes(): contents -> hash
  MaxAnswers    \* bound: acquire() calls the cache counts as answered

ASSUME WeightCacheAssumption ==
  /\ Budgets \subseteq Nat
  /\ VerifyModes \subseteq BOOLEAN
  /\ DOMAIN HashOf = Contents
  /\ MaxAnswers \in Nat

VARIABLES
  entries,      \* entries_: host tensor id -> resident copy
  resident,     \* resident_bytes_
  budget,       \* budget_bytes_
  verify,       \* verify_content_
  stats,        \* the counters of WeightCacheStats
  answer        \* history: contents of the tensor acquire() last returned

cacheVars == <<entries, resident, budget, verify, stats, answer>>
vars == <<hostVars, cacheVars>>

NullPtr == "nullptr"
Thrown  == "thrown"

\* A resident copy: the epoch and size it was taken at, the hash of the host
\* bytes then, and the bytes of the device tensor, which no one writes again.
Entry == [gen : Nat, bytes : Nat, hash : {HashOf[v] : v \in Contents}, val : Contents]

Counter == {"hits", "misses", "uploaded", "avoided", "invalidations",
            "integrity_failures", "budget_skips", "evictions"}

\* What resident is, ResidentExact says.
TypeOK ==
  /\ HostTypeOK
  /\ IsFiniteSet(DOMAIN entries)
  /\ DOMAIN entries \subseteq Nat
  /\ entries \in [DOMAIN entries -> Entry]
  /\ budget \in Budgets
  /\ verify \in VerifyModes
  /\ stats \in [Counter -> Nat]
  /\ answer \in Contents \cup {NullPtr, Thrown}

Init ==
  /\ HostInit
  /\ entries = [id \in {} |-> {}]
  /\ resident = 0
  /\ budget \in Budgets
  /\ verify \in VerifyModes
  /\ stats = [c \in Counter |-> 0]
  /\ answer = NullPtr

-----------------------------------------------------------------------------
\* Mutant: the epoch of the copy is not compared.
ResidentAnyEpoch(t) == IsCacheable(t) /\ t.id \in DOMAIN entries

\* isResident(): dtype and shape are a property of the id, so equal sizes
\* stand for comparing them.
IsResident(t) ==
  /\ IsCacheable(t)
  /\ t.id \in DOMAIN entries
  /\ entries[t.id].gen = t.gen
  /\ entries[t.id].bytes = t.bytes

\* canAdmit(): the scheduler's question, asked of the state as it is.
CanAdmit(t) ==
  /\ IsCacheable(t)
  /\ IsResident(t) \/ (t.bytes <= budget /\ resident + t.bytes <= budget)

\* Mutant: verify mode trusts a matching epoch.
NeverTampered(t) == FALSE

\* In verify mode the host bytes no longer hash to what was uploaded.
Tampered(t) == verify /\ IsResident(t) /\ HashOf[t.val] # entries[t.id].hash

Valid(t) == IsResident(t) /\ ~Tampered(t)

\* Mutant: the stale entry's bytes stay accounted as resident.
StaleBytesKept(t) == 0

\* Bytes given back by erasing the entry of a tensor that is no longer valid.
StaleBytes(t) ==
  IF t.id \in DOMAIN entries THEN entries[t.id].bytes ELSE 0

Without(ids) == [id \in DOMAIN entries \ ids |-> entries[id]]

BytesOf(ids) == MapThenSumSet(LAMBDA id : entries[id].bytes, ids)

\* n more of counter c.
Count(st, c, n) == [st EXCEPT ![c] = @ + n]

\* Counters after the erasure that precedes a re-upload.
StatsAfterErase(t) ==
  Count(Count(stats, "invalidations", IF t.id \in DOMAIN entries THEN 1 ELSE 0),
        "integrity_failures", IF Tampered(t) THEN 1 ELSE 0)

\* Mutant: only the size of the tensor itself is held against the budget.
FitsAlone(t) == t.bytes <= budget

Fits(t) == t.bytes <= budget /\ resident - StaleBytes(t) + t.bytes <= budget

Answered == stats.hits + stats.misses + stats.budget_skips < MaxAnswers

-----------------------------------------------------------------------------
AcquireNotCacheable(s) ==
  /\ Live(s)
  /\ ~IsCacheable(tensors[s])
  /\ answer' = NullPtr
  /\ UNCHANGED <<hostVars, entries, resident, budget, verify, stats>>

AcquireHit(s) ==
  LET t == tensors[s] IN
  /\ Valid(t)
  /\ Answered
  /\ stats' = Count(Count(stats, "hits", 1), "avoided", entries[t.id].bytes)
  /\ answer' = entries[t.id].val
  /\ UNCHANGED <<hostVars, entries, resident, budget, verify>>

AcquireOverBudget(s) ==
  LET t == tensors[s] IN
  /\ IsCacheable(t)
  /\ ~Valid(t)
  /\ ~Fits(t)
  /\ Answered
  /\ entries' = Without({t.id})
  /\ resident' = resident - StaleBytes(t)
  /\ stats' = Count(StatsAfterErase(t), "budget_skips", 1)
  /\ answer' = NullPtr
  /\ UNCHANGED <<hostVars, budget, verify>>

\* The device tensor and its freeze() each draw from the id counter.
AcquireUpload(s) ==
  LET t == tensors[s] IN
  /\ IsCacheable(t)
  /\ ~Valid(t)
  /\ Fits(t)
  /\ Answered
  /\ NextIds(2)
  /\ entries' = [id \in DOMAIN entries \cup {t.id} |->
       IF id # t.id THEN entries[id]
       ELSE [gen |-> t.gen, bytes |-> t.bytes, hash |-> HashOf[t.val], val |-> t.val]]
  /\ resident' = resident - StaleBytes(t) + t.bytes
  /\ stats' = Count(Count(StatsAfterErase(t), "misses", 1), "uploaded", t.bytes)
  /\ answer' = t.val
  /\ UNCHANGED <<tensors, budget, verify>>

\* Mutant: the entry is created before the allocation that throws.
ThrowAfterInsert(s) ==
  LET t == tensors[s] IN
  /\ IsCacheable(t)
  /\ ~Valid(t)
  /\ Fits(t)
  /\ NextIds(1)
  /\ entries' = [id \in DOMAIN entries \cup {t.id} |->
       IF id # t.id THEN entries[id]
       ELSE [gen |-> t.gen, bytes |-> t.bytes, hash |-> HashOf[t.val], val |-> None]]
  /\ resident' = resident - StaleBytes(t)
  /\ stats' = StatsAfterErase(t)
  /\ answer' = Thrown
  /\ UNCHANGED <<tensors, budget, verify>>

\* Mutant: accounting is done before the allocation that throws.
ThrowAfterAccounting(s) ==
  LET t == tensors[s] IN
  /\ IsCacheable(t)
  /\ ~Valid(t)
  /\ Fits(t)
  /\ NextIds(1)
  /\ entries' = Without({t.id})
  /\ resident' = resident - StaleBytes(t) + t.bytes
  /\ stats' = StatsAfterErase(t)
  /\ answer' = Thrown
  /\ UNCHANGED <<tensors, budget, verify>>

\* The device allocation or the copy throws: the stale entry is gone already,
\* nothing takes its place, and the id of the device tensor is spent.
AcquireThrows(s) ==
  LET t == tensors[s] IN
  /\ IsCacheable(t)
  /\ ~Valid(t)
  /\ Fits(t)
  /\ NextIds(1)
  /\ entries' = Without({t.id})
  /\ resident' = resident - StaleBytes(t)
  /\ stats' = StatsAfterErase(t)
  /\ answer' = Thrown
  /\ UNCHANGED <<tensors, budget, verify>>

\* Mutant: the tensors named are the ones released.
RetainOthers(S) ==
  LET live == {tensors[s].id : s \in {r \in S : IsCacheable(tensors[r])}}
      dead == DOMAIN entries \cap live IN
  /\ entries' = Without(dead)
  /\ resident' = resident - BytesOf(dead)
  /\ stats' = Count(stats, "evictions", Cardinality(dead))
  /\ UNCHANGED <<hostVars, budget, verify, answer>>

\* retainOnly(), with the ids ScheduledGraph::execute passes: those of the
\* tensors of S, the inputs of a run, that are cacheable.
RetainOnly(S) ==
  LET live == {tensors[s].id : s \in {r \in S : IsCacheable(tensors[r])}}
      dead == DOMAIN entries \ live IN
  /\ entries' = Without(dead)
  /\ resident' = resident - BytesOf(dead)
  /\ stats' = Count(stats, "evictions", Cardinality(dead))
  /\ UNCHANGED <<hostVars, budget, verify, answer>>

Clear ==
  /\ entries' = Without(DOMAIN entries)
  /\ resident' = 0
  /\ stats' = Count(stats, "evictions", Cardinality(DOMAIN entries))
  /\ UNCHANGED <<hostVars, budget, verify, answer>>

SetBudgetBytes ==
  /\ budget' \in Budgets
  /\ UNCHANGED <<hostVars, entries, resident, verify, stats, answer>>

SetVerifyContent ==
  /\ verify' \in VerifyModes
  /\ UNCHANGED <<hostVars, entries, resident, budget, stats, answer>>

Acquire(s) ==
  \/ AcquireNotCacheable(s)
  \/ AcquireHit(s)
  \/ AcquireOverBudget(s)
  \/ AcquireUpload(s)
  \/ AcquireThrows(s)

Next ==
  \/ \E s \in Slots : HostStep(s) /\ UNCHANGED cacheVars
  \/ \E s \in Slots : Acquire(s)
  \/ \E S \in SUBSET Slots : RetainOnly(S)
  \/ Clear
  \/ SetBudgetBytes
  \/ SetVerifyContent

Spec == Init /\ [][Next]_vars

-----------------------------------------------------------------------------
(***************************************************************************)
(* Properties                                                              *)
(***************************************************************************)

\* A copy that acquire() would serve (same id, same epoch) holds the bytes the
\* host tensor holds now, after any history of moves, re-freezing, address
\* reuse and failed uploads: the contract at weight_cache.h:11-17.
Coherent ==
  \A s \in Slots : IsResident(tensors[s]) => entries[tensors[s].id].val = tensors[s].val

\* What makes Coherent inductive.  No two variables hold one id, ids and
\* epochs come from the counter and are never drawn twice, frozen tensors own
\* their memory, entries are of epochs already drawn and hash what they hold.
IdsDistinct ==
  \A s, t \in Slots : s # t /\ Live(s) => tensors[s].id # tensors[t].id

TensorsDrawn ==
  \A s \in Slots : tensors[s].id < nextId /\ tensors[s].gen < nextId

FrozenOwned == \A s \in Slots : tensors[s].gen # 0 => tensors[s].owns

EntriesDrawn == \A id \in DOMAIN entries : entries[id].gen < nextId

HashesMatch == \A id \in DOMAIN entries : entries[id].hash = HashOf[entries[id].val]

\* The inductive invariant: the identity facts above and, unless writes may
\* escape the freeze checks, coherence itself.
CacheInv ==
  /\ IdsDistinct
  /\ TensorsDrawn
  /\ FrozenOwned
  /\ EntriesDrawn
  /\ HashesMatch
  /\ Escapes \/ Coherent

\* resident_bytes_ is the bytes of the entries and nothing else, through every
\* erase, failed upload and eviction: it bounds VRAM and must not drift.
ResidentExact == resident = BytesOf(DOMAIN entries)

\* The counters tell how many copies are held: every upload was since dropped
\* by exactly one of invalidation and eviction, or is still there.
EntriesBalance ==
  Cardinality(DOMAIN entries) = stats.misses - stats.invalidations - stats.evictions

\* Bytes are only added while the total stays within the budget in force.
AdmissionWithinBudget == [][resident' > resident => resident' <= budget']_vars

\* The cache gives its callers what FreshCopies promises.
Promise == INSTANCE FreshCopies
FreshAnswers == Promise!Spec
=============================================================================
