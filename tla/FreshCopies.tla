--------------------------- MODULE FreshCopies ---------------------------
(***************************************************************************)
(* What a caller of DeviceWeightCache::acquire may rely on, with no cache  *)
(* in sight: an answer is either no copy at all (nullptr, or an exception) *)
(* or a device copy that holds, now, the bytes of the tensor asked about,  *)
(* and a copy is only ever given of a frozen host tensor.                  *)
(***************************************************************************)
EXTENDS HostTensors

VARIABLE answer   \* contents of the device tensor last returned, or a refusal

NullPtr == "nullptr"
Thrown  == "thrown"

Init ==
  /\ HostInit
  /\ answer = NullPtr

\* The ids a copy and its freeze epoch consume are the only other effect.
Ask(s) ==
  /\ \/ answer' \in {NullPtr, Thrown}
     \/ IsCacheable(tensors[s]) /\ answer' = tensors[s].val
  /\ nextId' \in {nextId, nextId + 1, nextId + 2}
  /\ UNCHANGED tensors

Next == \E s \in Slots :
  \/ HostStep(s) /\ UNCHANGED answer
  \/ Ask(s)

Spec == Init /\ [][Next]_<<hostVars, answer>>
=============================================================================
