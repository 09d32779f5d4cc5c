-------------------------- MODULE OptimizerProofs --------------------------
(***************************************************************************)
(* Theorems about GraphOptimizer, for graphs of every size.                *)
(***************************************************************************)
EXTENDS GraphOptimizer, GraphProofs

-----------------------------------------------------------------------------
(* The invariant *)

Optimizing == phase \in {"walking", "rebuilding", "optimized"}

\* Every value of id_map stands for one of the same shape.
Translated ==
  \A v \in DOMAIN idMap :
    /\ v \in Values(g) /\ idMap[v] \in Values(rebuilt)
    /\ rebuilt.shape[idMap[v]] = g.shape[v]

\* The inputs replayed so far.
InputsKept ==
  /\ Len(rebuilt.inputs) <= Len(g.inputs)
  /\ \A i \in DOMAIN rebuilt.inputs :
       /\ g.inputs[i] \in DOMAIN idMap
       /\ rebuilt.shape[rebuilt.inputs[i]] = g.shape[g.inputs[i]]

\* The outputs are live, and what live nodes read is.
LiveClosed ==
  /\ \A i \in DOMAIN g.outputs : g.outputs[i] \in liveValues
  /\ \A n \in liveNodes : \A j \in DOMAIN g.nodes[n].in : g.nodes[n].in[j] \in liveValues

\* The nodes after place at of the order have been walked: those are live whose
\* output is.
Walked ==
  /\ \A k \in DOMAIN order :
       k > at => (order[k] \in liveNodes <=> g.nodes[order[k]].out \in liveValues)
  /\ \A n \in liveNodes : \E k \in DOMAIN order : k > at /\ order[k] = n

\* The inputs and the live nodes up to place at have their clones.
Cloned ==
  /\ \A n \in NodeIds(g) : g.nodes[n].out \in liveValues => n \in liveNodes
  /\ Len(rebuilt.inputs) = Len(g.inputs)
  /\ \A k \in DOMAIN order :
       k <= at /\ order[k] \in liveNodes => g.nodes[order[k]].out \in DOMAIN idMap

OptInv ==
  /\ WellBuilt(rebuilt)
  /\ Translated /\ InputsKept
  /\ ~ Optimizing => rebuilt.inputs = <<>> /\ DOMAIN idMap = {}
  /\ phase = "walking" => LiveClosed /\ Walked
  /\ phase = "rebuilding" => LiveClosed /\ Cloned
  /\ phase = "optimized" => SameSignature

Safe == GraphInv /\ NeverThrown /\ OptInv

-----------------------------------------------------------------------------
(* Steps on the rebuilt graph *)

LEMMA BuiltOutputs ==
  ASSUME NEW gr, WellBuilt(gr), NEW out \in Seq(Values(gr))
  PROVE  /\ WellBuilt([gr EXCEPT !.outputs = out])
         /\ [gr EXCEPT !.outputs = out].outputs = out
         /\ [gr EXCEPT !.outputs = out].inputs = gr.inputs
         /\ [gr EXCEPT !.outputs = out].shape = gr.shape
         /\ [gr EXCEPT !.outputs = out].nodes = gr.nodes
<1> DEFINE h == [gr EXCEPT !.outputs = out]
<1>1. h = [nodes |-> gr.nodes, inputs |-> gr.inputs, outputs |-> out,
           next |-> gr.next, shape |-> gr.shape]
  <2>1. gr = [nodes |-> gr.nodes, inputs |-> gr.inputs, outputs |-> gr.outputs,
              next |-> gr.next, shape |-> gr.shape]
    BY DEF WellBuilt, Typed
  <2>2. PICK n, i, o, y, t : gr = [nodes |-> n, inputs |-> i, outputs |-> o, next |-> y, shape |-> t]
    BY <2>1
  <2>3. h = [nodes |-> n, inputs |-> i, outputs |-> out, next |-> y, shape |-> t]
    BY <2>2
  <2> QED BY <2>2, <2>3
<1> HIDE DEF h
<1>2. /\ h.nodes = gr.nodes /\ h.inputs = gr.inputs /\ h.next = gr.next /\ h.shape = gr.shape
      /\ h.outputs = out
  BY <1>1
<1>3. Values(gr) \subseteq Nat
  BY DEF WellBuilt, Typed
<1>4. h.outputs \in Seq(Nat) /\ \A i \in DOMAIN h.outputs : h.outputs[i] \in Values(gr)
  BY <1>2, <1>3, SeqMonotonic
<1>5. Values(h) = Values(gr) /\ NodeIds(h) = NodeIds(gr)
  BY <1>2 DEF Values, NodeIds
<1>6. Typed(h)
  BY <1>1, <1>2, <1>4, <1>5 DEF WellBuilt, Typed
<1>7. WellFormed(h)
  <2>1. WellFormed(gr)
    BY DEF WellBuilt
  <2>2. \A n \in NodeIds(h) :
          /\ \A i \in DOMAIN h.inputs : h.nodes[n].out # h.inputs[i]
          /\ \A k \in NodeIds(h) : k # n => h.nodes[k].out # h.nodes[n].out
    BY <2>1, <1>2, <1>5 DEF WellFormed
  <2>3. \A n \in NodeIds(h) : \A i \in DOMAIN h.nodes[n].in :
          \/ \E k \in DOMAIN h.inputs : h.nodes[n].in[i] = h.inputs[k]
          \/ \E k \in 1 .. n - 1 : h.nodes[n].in[i] = h.nodes[k].out
    BY <2>1, <1>2, <1>5 DEF WellFormed
  <2>4. \A i \in DOMAIN h.outputs : h.outputs[i] \in Values(h)
    BY <1>4, <1>5
  <2>5. ASSUME NEW n \in NodeIds(h)
        PROVE  /\ \A i \in DOMAIN h.inputs : h.nodes[n].out # h.inputs[i]
               /\ \A k \in NodeIds(h) : k # n => h.nodes[k].out # h.nodes[n].out
               /\ \A i \in DOMAIN h.nodes[n].in :
                    \/ \E k \in DOMAIN h.inputs : h.nodes[n].in[i] = h.inputs[k]
                    \/ \E k \in 1 .. n - 1 : h.nodes[n].in[i] = h.nodes[k].out
    BY <2>2, <2>3
  <2> QED BY <2>4, <2>5 DEF WellFormed
<1>8. Sourced(h)
  BY <1>2, <1>5 DEF WellBuilt, Sourced
<1>9. Accepted(h)
  BY <1>2, <1>5 DEF WellBuilt, Accepted, ShapesOf
<1>10. WellBuilt(h)
  BY <1>6, <1>7, <1>8, <1>9 DEF WellBuilt
<1> QED BY <1>2, <1>10 DEF h

\* id_map after value v has been given its clone, the next of the new graph.
LEMMA MappedNext ==
  ASSUME WellBuilt(rebuilt), Translated, NEW v \in Values(g), g.shape[v] \in Shapes,
         g' = g, idMap' = MapToNext(v),
         Values(rebuilt') = Values(rebuilt) \cup {rebuilt.next},
         rebuilt'.shape = Grow(rebuilt, g.shape[v])
  PROVE  /\ Translated'
         /\ DOMAIN idMap' = DOMAIN idMap \cup {v}
<1>1. DOMAIN idMap' = DOMAIN idMap \cup {v}
      /\ \A u \in DOMAIN idMap' : idMap'[u] = IF u = v THEN rebuilt.next ELSE idMap[u]
  BY DEF MapToNext
<1>2. /\ Grow(rebuilt, g.shape[v])[rebuilt.next] = g.shape[v]
      /\ \A u \in Values(rebuilt) : Grow(rebuilt, g.shape[v])[u] = rebuilt.shape[u]
  BY Grown
<1>3. ASSUME NEW u \in DOMAIN idMap'
      PROVE  /\ u \in Values(g) /\ idMap'[u] \in Values(rebuilt')
             /\ rebuilt'.shape[idMap'[u]] = g.shape[u]
  <2>1. CASE u = v
    BY <1>1, <1>2, <2>1
  <2>2. CASE u # v
    <3>1. u \in DOMAIN idMap /\ idMap'[u] = idMap[u]
      BY <1>1, <2>2
    <3>2. u \in Values(g) /\ idMap[u] \in Values(rebuilt) /\ rebuilt.shape[idMap[u]] = g.shape[u]
      BY <3>1 DEF Translated
    <3> QED BY <1>2, <3>1, <3>2
  <2> QED BY <2>1, <2>2
<1>4. Translated'
  BY <1>3 DEF Translated
<1> QED BY <1>1, <1>4

LEMMA ReplayInputKeeps ==
  ASSUME Safe, ReplayInput
  PROVE  OptInv'
<1> DEFINE m == Len(rebuilt.inputs)
           v == g.inputs[m + 1]
           sh == g.shape[v]
<1>1. /\ phase = "walking" /\ at = 0 /\ m < Len(g.inputs)
      /\ rebuilt' = WithInput(rebuilt, sh) /\ idMap' = MapToNext(v)
      /\ UNCHANGED <<g, phase, sortVars, at, liveValues, liveNodes>>
  BY DEF ReplayInput
<1>2. WellBuilt(rebuilt) /\ WellBuilt(g) /\ Translated /\ InputsKept /\ LiveClosed /\ Walked
  BY <1>1 DEF Safe, GraphInv, OptInv
<1>3. /\ rebuilt.inputs \in Seq(Nat) /\ g.inputs \in Seq(Nat)
      /\ g.shape \in [Values(g) -> Shapes] /\ rebuilt.next \in Nat
  BY <1>2 DEF WellBuilt, Typed
<1>4. m \in Nat /\ DOMAIN rebuilt.inputs = 1 .. m /\ m + 1 \in DOMAIN g.inputs
  BY <1>1, <1>3
<1>5. v \in Values(g) /\ sh \in Shapes
  BY <1>2, <1>3, <1>4 DEF WellBuilt, Sourced
<1> HIDE DEF v, sh
<1>6. WellBuilt(rebuilt')
  BY <1>1, <1>2, <1>5, BuiltInput
<1>7. /\ rebuilt'.inputs = Append(rebuilt.inputs, rebuilt.next)
      /\ rebuilt'.shape = Grow(rebuilt, sh)
  BY <1>1, <1>2, InputFields
<1>8. Values(rebuilt') = Values(rebuilt) \cup {rebuilt.next}
  <2>1. DOMAIN Grow(rebuilt, sh) = Values(rebuilt) \cup {rebuilt.next}
    BY <1>2, <1>5, Grown
  <2> QED BY <1>7, <2>1 DEF Values
<1>9. Translated' /\ DOMAIN idMap' = DOMAIN idMap \cup {v}
  BY <1>1, <1>2, <1>5, <1>7, <1>8, MappedNext DEF sh
<1>10. InputsKept'
  <2>1. /\ Len(rebuilt'.inputs) = m + 1 /\ DOMAIN rebuilt'.inputs = 1 .. m + 1
        /\ rebuilt'.inputs[m + 1] = rebuilt.next
        /\ \A i \in 1 .. m : rebuilt'.inputs[i] = rebuilt.inputs[i]
    BY <1>3, <1>4, <1>7
  <2>2. m + 1 <= Len(g.inputs)
    BY <1>1, <1>3
  <2>3. /\ Grow(rebuilt, sh)[rebuilt.next] = sh
        /\ \A u \in Values(rebuilt) : Grow(rebuilt, sh)[u] = rebuilt.shape[u]
    BY <1>2, <1>5, Grown
  <2>4. ASSUME NEW i \in 1 .. m
        PROVE  g.inputs[i] \in DOMAIN idMap' /\ rebuilt'.shape[rebuilt'.inputs[i]] = g.shape[g.inputs[i]]
    <3>1. rebuilt.inputs[i] \in Values(rebuilt) /\ i \in DOMAIN rebuilt.inputs
      BY <1>2, <1>4 DEF WellBuilt, Sourced
    <3>2. g.inputs[i] \in DOMAIN idMap /\ rebuilt.shape[rebuilt.inputs[i]] = g.shape[g.inputs[i]]
      BY <1>2, <3>1 DEF InputsKept
    <3> QED BY <1>7, <1>9, <2>1, <2>3, <3>1, <3>2
  <2>5. g.inputs[m + 1] \in DOMAIN idMap' /\ rebuilt'.shape[rebuilt'.inputs[m + 1]] = g.shape[g.inputs[m + 1]]
    BY <1>7, <1>9, <2>1, <2>3 DEF v, sh
  <2>6. \A i \in 1 .. m + 1 : i \in 1 .. m \/ i = m + 1
    BY <1>4
  <2>7. g' = g
    BY <1>1
  <2> HIDE DEF m
  <2> QED BY <2>1, <2>2, <2>4, <2>5, <2>6, <2>7 DEF InputsKept
<1>11. LiveClosed' /\ Walked'
  BY <1>1, <1>2 DEF LiveClosed, Walked, sortVars
<1> QED BY <1>1, <1>6, <1>9, <1>10, <1>11 DEF OptInv, Optimizing

\* A node that is walked is after all that reads from it, and before all that it
\* reads from.
LEMMA WalkNodeKeeps ==
  ASSUME Safe, WalkNode
  PROVE  OptInv'
<1> DEFINE n == order[at]
<1>1. /\ phase = "walking" /\ at > 0 /\ at' = at - 1
      /\ UNCHANGED <<g, phase, sortVars, rebuilt, idMap>>
  BY DEF WalkNode
<1>2. /\ WellBuilt(rebuilt) /\ WellBuilt(g) /\ Translated /\ InputsKept /\ LiveClosed /\ Walked
      /\ CallOK /\ OrderTopological /\ Ordered
  BY <1>1 DEF Safe, GraphInv, OptInv, Ordered
<1>3. /\ order \in Seq(NodeIds(g)) /\ at \in 1 .. Len(order) /\ DOMAIN order = 1 .. Len(order)
      /\ at \in DOMAIN order /\ n \in NodeIds(g)
      /\ \A k \in DOMAIN order : k > at' <=> k > at \/ k = at
  BY <1>1, <1>2 DEF CallOK
<1>4. \A k \in DOMAIN order : k # at => order[k] # n
  BY <1>2, <1>3 DEF OrderTopological
<1>5. n \notin liveNodes
  <2>1. ASSUME n \in liveNodes PROVE FALSE
    <3>1. PICK k \in DOMAIN order : k > at /\ order[k] = n
      BY <1>2, <2>1 DEF Walked
    <3> QED BY <1>3, <1>4, <3>1
  <2> QED BY <2>1
<1>6. \A k \in DOMAIN order : k >= at =>
        \A j \in DOMAIN g.nodes[n].in : g.nodes[n].in[j] # g.nodes[order[k]].out
  <2>1. \A k \in DOMAIN order : k >= at => ReadsFrom(g, n, order[k]) = {}
    BY <1>2, <1>3 DEF OrderTopological
  <2> QED BY <2>1 DEF ReadsFrom
<1>7. LiveClosed' /\ Walked'
  <2>1. CASE g.nodes[n].out \in liveValues
    <3>1. /\ liveNodes' = liveNodes \cup {n}
          /\ liveValues' = liveValues \cup {g.nodes[n].in[i] : i \in DOMAIN g.nodes[n].in}
          /\ g' = g /\ order' = order
      BY <2>1 DEF WalkNode, sortVars
    <3>2. LiveClosed'
      <4>1. \A i \in DOMAIN g.outputs : g.outputs[i] \in liveValues'
        BY <1>2, <3>1 DEF LiveClosed
      <4>2. \A p \in liveNodes' : \A j \in DOMAIN g.nodes[p].in : g.nodes[p].in[j] \in liveValues'
        BY <1>2, <3>1 DEF LiveClosed
      <4> QED BY <3>1, <4>1, <4>2 DEF LiveClosed
    <3>3. ASSUME NEW k \in DOMAIN order, k > at'
          PROVE  order[k] \in liveNodes' <=> g.nodes[order[k]].out \in liveValues'
      <4>1. g.nodes[order[k]].out \in liveValues' <=> g.nodes[order[k]].out \in liveValues
        BY <1>3, <1>6, <3>1, <3>3
      <4>2. CASE k = at
        BY <2>1, <3>1, <4>1, <4>2
      <4>3. CASE k > at
        <5>1. order[k] # n
          BY <1>3, <1>4, <4>3
        <5>2. order[k] \in liveNodes <=> g.nodes[order[k]].out \in liveValues
          BY <1>2, <4>3 DEF Walked
        <5> QED BY <3>1, <4>1, <5>1, <5>2
      <4> QED BY <1>3, <3>3, <4>2, <4>3
    <3>4. \A p \in liveNodes' : \E k \in DOMAIN order : k > at' /\ order[k] = p
      BY <1>2, <1>3, <3>1 DEF Walked
    <3>5. Walked'
      BY <3>1, <3>3, <3>4 DEF Walked
    <3> QED BY <3>2, <3>5
  <2>2. CASE g.nodes[n].out \notin liveValues
    <3>1. liveNodes' = liveNodes /\ liveValues' = liveValues /\ g' = g /\ order' = order
      BY <2>2 DEF WalkNode, sortVars
    <3>2. LiveClosed'
      BY <1>2, <3>1 DEF LiveClosed
    <3>3. \A k \in DOMAIN order :
            k > at' => (order[k] \in liveNodes <=> g.nodes[order[k]].out \in liveValues)
      BY <1>2, <1>3, <1>5, <2>2 DEF Walked
    <3>4. \A p \in liveNodes : \E k \in DOMAIN order : k > at' /\ order[k] = p
      BY <1>2, <1>3 DEF Walked
    <3>5. Walked'
      BY <3>1, <3>3, <3>4 DEF Walked
    <3> QED BY <3>2, <3>5
  <2> QED BY <2>1, <2>2
<1>8. Translated' /\ InputsKept'
  BY <1>1, <1>2 DEF Translated, InputsKept
<1> QED BY <1>1, <1>2, <1>7, <1>8 DEF OptInv, Optimizing

LEMMA SeedKeeps ==
  ASSUME Safe, Seed
  PROVE  OptInv'
<1>1. /\ phase = "sorted" /\ phase' = "walking" /\ at' = Len(order) /\ liveNodes' = {}
      /\ liveValues' = {g.outputs[i] : i \in DOMAIN g.outputs}
      /\ g' = g /\ order' = order /\ rebuilt' = rebuilt /\ idMap' = idMap
  BY DEF Seed, sortVars
<1>2. order \in Seq(NodeIds(g))
  BY DEF Safe, GraphInv, CallOK
<1>3. LiveClosed'
  BY <1>1 DEF LiveClosed
<1>4. \A k \in DOMAIN order : ~ k > Len(order)
  BY <1>2
<1>5. Walked'
  BY <1>1, <1>4 DEF Walked
<1>6. Translated' /\ InputsKept' /\ WellBuilt(rebuilt)'
  BY <1>1 DEF Safe, OptInv, Translated, InputsKept
<1> QED BY <1>1, <1>3, <1>5, <1>6 DEF OptInv, Optimizing

\* With the walk at its end the live nodes are those whose output is live.
LEMMA InputsReplayedKeeps ==
  ASSUME Safe, InputsReplayed
  PROVE  OptInv'
<1>1. /\ phase = "walking" /\ phase' = "rebuilding" /\ at = 0 /\ at' = at
      /\ Len(rebuilt.inputs) = Len(g.inputs)
      /\ g' = g /\ order' = order /\ rebuilt' = rebuilt /\ idMap' = idMap
      /\ liveNodes' = liveNodes /\ liveValues' = liveValues
  BY DEF InputsReplayed, sortVars, optVars
<1>2. /\ LiveClosed /\ Walked /\ CallOK /\ OrderTopological /\ Ordered
  BY <1>1 DEF Safe, GraphInv, OptInv, Ordered
<1>3. DOMAIN order = 1 .. Len(order) /\ Len(order) \in Nat
  BY <1>2 DEF CallOK
<1>4. ASSUME NEW n \in NodeIds(g), g.nodes[n].out \in liveValues PROVE n \in liveNodes
  <2>1. PICK k \in DOMAIN order : order[k] = n
    BY <1>2 DEF OrderTopological
  <2>2. k > at
    BY <1>1, <1>3
  <2> QED BY <1>2, <1>4, <2>1, <2>2 DEF Walked
<1>5. \A k \in DOMAIN order : ~ k <= at
  BY <1>1, <1>3
<1>6. Cloned'
  BY <1>1, <1>4, <1>5 DEF Cloned
<1>7. LiveClosed'
  BY <1>1, <1>2 DEF LiveClosed
<1>8. Translated' /\ InputsKept' /\ WellBuilt(rebuilt)'
  BY <1>1 DEF Safe, OptInv, Translated, InputsKept
<1> QED BY <1>1, <1>6, <1>7, <1>8 DEF OptInv, Optimizing

LEMMA SkipDeadKeeps ==
  ASSUME Safe, SkipDead
  PROVE  OptInv'
<1>1. /\ phase = "rebuilding" /\ phase' = phase /\ order[at + 1] \notin liveNodes /\ at' = at + 1
      /\ g' = g /\ order' = order /\ rebuilt' = rebuilt /\ idMap' = idMap
      /\ liveNodes' = liveNodes /\ liveValues' = liveValues
  BY DEF SkipDead, sortVars, optVars
<1>2. LiveClosed /\ Cloned /\ CallOK
  BY <1>1 DEF Safe, GraphInv, OptInv
<1>3. \A k \in DOMAIN order : k <= at + 1 <=> k <= at \/ k = at + 1
  BY <1>2 DEF CallOK
<1>4. Cloned'
  BY <1>1, <1>2, <1>3 DEF Cloned
<1>5. LiveClosed'
  BY <1>1, <1>2 DEF LiveClosed
<1>6. Translated' /\ InputsKept' /\ WellBuilt(rebuilt)'
  BY <1>1 DEF Safe, OptInv, Translated, InputsKept
<1> QED BY <1>1, <1>4, <1>5, <1>6 DEF OptInv, Optimizing

\* What a live node reads has its clone: the node that makes it is live and
\* comes before it in the order.
LEMMA AlwaysMapped ==
  ASSUME Safe, phase = "rebuilding", at < Len(order), order[at + 1] \in liveNodes
  PROVE  Mapped(Handled)
<1> DEFINE n == order[at + 1]
<1>1. /\ WellBuilt(g) /\ CallOK /\ OrderTopological /\ Ordered
      /\ LiveClosed /\ Cloned /\ InputsKept /\ WellBuilt(rebuilt)
  BY DEF Safe, GraphInv, OptInv, Ordered
<1>2. /\ n \in NodeIds(g) /\ Handled = g.nodes[n] /\ at \in Int
      /\ at + 1 \in DOMAIN order /\ DOMAIN order = 1 .. Len(order)
  BY <1>1 DEF CallOK, Handled
<1>3. \A j \in DOMAIN g.nodes[n].in : g.nodes[n].in[j] \in liveValues
  BY <1>1 DEF LiveClosed
<1> SUFFICES ASSUME NEW j \in DOMAIN g.nodes[n].in
             PROVE  g.nodes[n].in[j] \in DOMAIN idMap
  BY <1>2 DEF Mapped
<1> DEFINE v == g.nodes[n].in[j]
<1>4. \/ \E k \in DOMAIN g.inputs : v = g.inputs[k]
      \/ \E k \in 1 .. n - 1 : v = g.nodes[k].out
  BY <1>1, <1>2 DEF WellBuilt, WellFormed
<1>5. CASE \E k \in DOMAIN g.inputs : v = g.inputs[k]
  <2>1. DOMAIN g.inputs = DOMAIN rebuilt.inputs
    BY <1>1 DEF Cloned, WellBuilt, Typed
  <2> QED BY <1>1, <1>5, <2>1 DEF InputsKept
<1>6. ASSUME NEW p \in 1 .. n - 1, v = g.nodes[p].out PROVE v \in DOMAIN idMap
  <2>1. p \in NodeIds(g)
    BY <1>1, <1>2, GraphSequences
  <2>2. p \in liveNodes
    BY <1>1, <1>3, <1>6, <2>1 DEF Cloned
  <2>3. PICK k \in DOMAIN order : order[k] = p
    BY <1>1, <2>1 DEF OrderTopological
  <2>4. ReadsFrom(g, n, p) # {}
    BY <1>6 DEF ReadsFrom
  <2>5. k < at + 1
    BY <1>1, <1>2, <2>3, <2>4 DEF OrderTopological
  <2>6. k <= at
    BY <1>2, <2>5
  <2> QED BY <1>1, <1>6, <2>2, <2>3, <2>6 DEF Cloned
<1> QED BY <1>4, <1>5, <1>6

\* The clone of a node is given what has the shapes that the node was given, so
\* its operator takes it.
LEMMA CloneAccepted ==
  ASSUME Safe, phase = "rebuilding", at < Len(order), order[at + 1] \in liveNodes
  PROVE  /\ Handled.op \in Ops /\ MappedInputs(Handled) \in Seq(Nat)
         /\ \A i \in DOMAIN MappedInputs(Handled) : MappedInputs(Handled)[i] \in Values(rebuilt)
         /\ Infer(Handled.op, ShapesOf(rebuilt, MappedInputs(Handled))) \in Shapes
         /\ Infer(Handled.op, ShapesOf(rebuilt, MappedInputs(Handled))) = g.shape[Handled.out]
         /\ Handled.out \in Values(g)
<1> DEFINE n == order[at + 1]
           in == MappedInputs(Handled)
<1>1. WellBuilt(g) /\ CallOK /\ WellBuilt(rebuilt) /\ Translated
  BY DEF Safe, GraphInv, OptInv
<1>2. n \in NodeIds(g) /\ Handled = g.nodes[n]
  BY <1>1 DEF CallOK, Handled
<1>3. /\ Handled.op \in Ops /\ Handled.in \in Seq(Nat)
      /\ Handled.out \in Values(g)
      /\ Infer(Handled.op, ShapesOf(g, Handled.in)) \in Shapes
      /\ g.shape[Handled.out] = Infer(Handled.op, ShapesOf(g, Handled.in))
  BY <1>1, <1>2, GraphSequences DEF WellBuilt, Accepted, Sourced
<1>4. \A j \in DOMAIN Handled.in : Handled.in[j] \in DOMAIN idMap
  BY AlwaysMapped DEF Mapped
<1>5. /\ DOMAIN in = DOMAIN Handled.in
      /\ \A j \in DOMAIN in : in[j] = idMap[Handled.in[j]]
      /\ in = [j \in DOMAIN Handled.in |-> in[j]]
  BY DEF MappedInputs
<1> HIDE DEF in
<1>6. \A j \in DOMAIN in : in[j] \in Values(rebuilt) /\ rebuilt.shape[in[j]] = g.shape[Handled.in[j]]
  BY <1>1, <1>4, <1>5 DEF Translated
<1>7. in \in Seq(Nat)
  <2>1. Values(rebuilt) \subseteq Nat
    BY <1>1 DEF WellBuilt, Typed
  <2>2. DOMAIN Handled.in = 1 .. Len(Handled.in) /\ Len(Handled.in) \in Nat
    BY <1>3
  <2>3. in \in [1 .. Len(Handled.in) -> Nat]
    BY <1>5, <1>6, <2>1, <2>2
  <2> QED BY <2>2, <2>3
<1>8. ShapesOf(rebuilt, in) = ShapesOf(g, Handled.in)
  BY <1>5, <1>6 DEF ShapesOf
<1> QED BY <1>3, <1>6, <1>7, <1>8 DEF in

LEMMA ReplayNodeKeeps ==
  ASSUME Safe, ReplayNode
  PROVE  OptInv' /\ phase' = phase /\ at' = at + 1
<1> DEFINE in == MappedInputs(Handled)
           v == Handled.out
           sh == g.shape[v]
<1>1. /\ phase = "rebuilding" /\ at < Len(order) /\ order[at + 1] \in liveNodes
      /\ g' = g /\ order' = order /\ liveNodes' = liveNodes /\ liveValues' = liveValues
  BY DEF ReplayNode, sortVars
<1>2. /\ Handled.op \in Ops /\ in \in Seq(Nat)
      /\ \A i \in DOMAIN in : in[i] \in Values(rebuilt)
      /\ Infer(Handled.op, ShapesOf(rebuilt, in)) = sh
      /\ sh \in Shapes /\ v \in Values(g)
  BY <1>1, CloneAccepted
<1>3. Mapped(Handled) /\ Accepts(rebuilt, Handled.op, in)
  BY <1>1, <1>2, AlwaysMapped, GraphAssumption DEF Accepts
<1>4. /\ rebuilt' = WithNode(rebuilt, Handled.op, in) /\ idMap' = MapToNext(v)
      /\ at' = at + 1 /\ phase' = phase
  BY <1>3 DEF ReplayNode, Clone
<1>5. /\ WellBuilt(rebuilt) /\ Translated /\ InputsKept /\ LiveClosed /\ Cloned
      /\ CallOK /\ WellBuilt(g)
  BY <1>1 DEF Safe, GraphInv, OptInv
<1> HIDE DEF in, sh
<1>6. WellBuilt(rebuilt')
  BY <1>2, <1>4, <1>5, BuiltNode
<1>7. rebuilt'.inputs = rebuilt.inputs /\ rebuilt'.shape = Grow(rebuilt, sh)
  <2>1. WithNode(rebuilt, Handled.op, in) =
          [nodes |-> Append(rebuilt.nodes, [op |-> Handled.op, in |-> in, out |-> rebuilt.next]),
           inputs |-> rebuilt.inputs, outputs |-> rebuilt.outputs,
           next |-> rebuilt.next + 1,
           shape |-> Grow(rebuilt, Infer(Handled.op, ShapesOf(rebuilt, in)))]
    BY <1>5, NodeFields
  <2> QED BY <1>2, <1>4, <2>1
<1>8. Values(rebuilt') = Values(rebuilt) \cup {rebuilt.next}
  <2>1. DOMAIN Grow(rebuilt, sh) = Values(rebuilt) \cup {rebuilt.next}
    BY <1>2, <1>5, Grown
  <2> QED BY <1>7, <2>1 DEF Values
<1>9. Translated' /\ DOMAIN idMap' = DOMAIN idMap \cup {v}
  BY <1>1, <1>2, <1>4, <1>5, <1>7, <1>8, MappedNext DEF sh
<1>10. InputsKept'
  <2>1. \A i \in DOMAIN rebuilt.inputs : rebuilt.inputs[i] \in Values(rebuilt)
    BY <1>5 DEF WellBuilt, Sourced
  <2>2. \A u \in Values(rebuilt) : Grow(rebuilt, sh)[u] = rebuilt.shape[u]
    BY <1>2, <1>5, Grown
  <2> QED BY <1>1, <1>5, <1>7, <1>9, <2>1, <2>2 DEF InputsKept
<1>11. LiveClosed'
  BY <1>1, <1>5 DEF LiveClosed
<1>12. \A k \in DOMAIN order : k <= at + 1 <=> k <= at \/ k = at + 1
  BY <1>5 DEF CallOK
<1>13. Cloned'
  <2>1. ASSUME NEW k \in DOMAIN order, k <= at + 1, order[k] \in liveNodes
        PROVE  g.nodes[order[k]].out \in DOMAIN idMap'
    <3>1. CASE k <= at
      BY <1>5, <1>9, <2>1, <3>1 DEF Cloned
    <3>2. CASE k = at + 1
      BY <1>9, <3>2 DEF Handled
    <3> QED BY <1>12, <2>1, <3>1, <3>2
  <2> QED BY <1>1, <1>4, <1>5, <1>7, <2>1 DEF Cloned
<1> QED BY <1>1, <1>4, <1>6, <1>9, <1>10, <1>11, <1>13 DEF OptInv, Optimizing

\* Every output is an input or made by a live node, so it has its place.
LEMMA OutputsMapped ==
  ASSUME Safe, phase = "rebuilding", at = Len(order)
  PROVE  \A i \in DOMAIN g.outputs : g.outputs[i] \in DOMAIN idMap
<1>2. /\ WellBuilt(rebuilt) /\ Translated /\ InputsKept /\ LiveClosed /\ Cloned
      /\ CallOK /\ WellBuilt(g) /\ OrderTopological /\ Ordered
  BY DEF Safe, GraphInv, OptInv, Ordered
<1>3. ASSUME NEW i \in DOMAIN g.outputs PROVE g.outputs[i] \in DOMAIN idMap
  <2>1. g.outputs[i] \in Values(g) /\ g.outputs[i] \in liveValues
    BY <1>2 DEF WellBuilt, WellFormed, LiveClosed
  <2>2. \/ \E k \in DOMAIN g.inputs : g.outputs[i] = g.inputs[k]
        \/ \E k \in NodeIds(g) : g.outputs[i] = g.nodes[k].out
    BY <1>2, <2>1 DEF WellBuilt, Sourced
  <2>3. CASE \E k \in DOMAIN g.inputs : g.outputs[i] = g.inputs[k]
    <3>1. DOMAIN g.inputs = DOMAIN rebuilt.inputs
      BY <1>2 DEF Cloned, WellBuilt, Typed
    <3> QED BY <1>2, <2>3, <3>1 DEF InputsKept
  <2>4. ASSUME NEW n \in NodeIds(g), g.outputs[i] = g.nodes[n].out PROVE g.outputs[i] \in DOMAIN idMap
    <3>1. n \in liveNodes
      BY <1>2, <2>1, <2>4 DEF Cloned
    <3>2. PICK k \in DOMAIN order : order[k] = n
      BY <1>2 DEF OrderTopological
    <3>3. k <= at
      BY <1>2 DEF CallOK
    <3> QED BY <1>2, <2>4, <3>1, <3>2, <3>3 DEF Cloned
  <2> QED BY <2>2, <2>3, <2>4
<1> QED BY <1>3

\* So the outputs of the new graph are marked.
LEMMA MarkOutputsKeeps ==
  ASSUME Safe, MarkOutputs
  PROVE  OptInv' /\ phase' = "optimized"
<1> DEFINE out == [i \in DOMAIN g.outputs |-> idMap[g.outputs[i]]]
<1>1. /\ phase = "rebuilding" /\ at = Len(order)
      /\ g' = g /\ order' = order /\ idMap' = idMap
  BY DEF MarkOutputs, sortVars
<1>2. /\ WellBuilt(rebuilt) /\ Translated /\ InputsKept /\ LiveClosed /\ Cloned
      /\ CallOK /\ WellBuilt(g) /\ OrderTopological /\ Ordered
  BY <1>1 DEF Safe, GraphInv, OptInv, Ordered
<1>3. \A i \in DOMAIN g.outputs : g.outputs[i] \in DOMAIN idMap
  BY <1>1, OutputsMapped
<1>4. phase' = "optimized" /\ rebuilt' = [rebuilt EXCEPT !.outputs = out]
  BY <1>3 DEF MarkOutputs
<1>5. /\ g.outputs \in Seq(Nat) /\ DOMAIN out = DOMAIN g.outputs
      /\ \A i \in DOMAIN g.outputs : /\ out[i] = idMap[g.outputs[i]]
                                     /\ out[i] \in Values(rebuilt)
                                     /\ rebuilt.shape[out[i]] = g.shape[g.outputs[i]]
  BY <1>2, <1>3 DEF Translated, WellBuilt, Typed
<1>6. out \in Seq(Values(rebuilt)) /\ Len(out) = Len(g.outputs)
  <2>1. DOMAIN g.outputs = 1 .. Len(g.outputs) /\ Len(g.outputs) \in Nat
    BY <1>5
  <2>2. out \in [1 .. Len(g.outputs) -> Values(rebuilt)]
    BY <1>5, <2>1
  <2> QED BY <2>1, <2>2
<1> HIDE DEF out
<1>7. WellBuilt(rebuilt') /\ rebuilt'.outputs = out /\ rebuilt'.inputs = rebuilt.inputs
      /\ rebuilt'.shape = rebuilt.shape
  BY <1>2, <1>4, <1>6, BuiltOutputs
<1>8. Values(rebuilt') = Values(rebuilt)
  BY <1>7 DEF Values
<1>9. Translated' /\ InputsKept'
  BY <1>1, <1>2, <1>7, <1>8 DEF Translated, InputsKept
<1>10. SameSignature'
  <2>1. DOMAIN g.inputs = DOMAIN rebuilt.inputs /\ Len(rebuilt.inputs) = Len(g.inputs)
    BY <1>2 DEF Cloned, WellBuilt, Typed
  <2>2. \A i \in DOMAIN g.inputs : rebuilt.shape[rebuilt.inputs[i]] = g.shape[g.inputs[i]]
    BY <1>2, <2>1 DEF InputsKept
  <2> QED BY <1>1, <1>5, <1>6, <1>7, <2>1, <2>2 DEF SameSignature
<1> QED BY <1>1, <1>4, <1>7, <1>9, <1>10 DEF OptInv, Optimizing

-----------------------------------------------------------------------------
(* The invariant is inductive *)

\* The optimizer leaves the graph it is given and its order alone.
LEMMA OptStepGraph ==
  ASSUME Safe, OptStep, Optimizing', at' \in 0 .. Len(order)
  PROVE  GraphInv' /\ NeverThrown'
<1>1. g' = g /\ order' = order /\ queue' = queue /\ indegree' = indegree
  BY DEF OptStep, Seed, WalkNode, ReplayInput, InputsReplayed, SkipDead, ReplayNode, MarkOutputs, sortVars
<1>2. phase \in {"sorted", "walking", "rebuilding"}
  BY DEF OptStep, Seed, WalkNode, ReplayInput, InputsReplayed, SkipDead, ReplayNode, MarkOutputs
<1>3. GraphInv
  BY DEF Safe
<1>4. WellBuilt(g)' /\ CallOK'
  BY <1>1, <1>3 DEF GraphInv, CallOK, Optimizing
<1>5. OrderTopological'
  BY <1>1, <1>2, <1>3 DEF GraphInv, OrderTopological, Ordered
<1>6. SortInv' /\ StorageInv' /\ NeverThrown'
  BY DEF SortInv, StorageInv, NeverThrown, Optimizing
<1> QED BY <1>4, <1>5, <1>6 DEF GraphInv

LEMMA OptStepKeeps ==
  ASSUME Safe, OptStep
  PROVE  Safe'
<1>0. order \in Seq(NodeIds(g)) /\ at \in 0 .. Len(order) /\ Len(order) \in Nat
  BY DEF Safe, GraphInv, CallOK
<1>1. CASE Seed
  <2>1. Optimizing' /\ at' \in 0 .. Len(order)
    BY <1>0, <1>1 DEF Seed, Optimizing
  <2> QED BY <1>1, <2>1, SeedKeeps, OptStepGraph DEF Safe
<1>2. CASE WalkNode
  <2>1. Optimizing' /\ at' \in 0 .. Len(order)
    BY <1>0, <1>2 DEF WalkNode, Optimizing
  <2> QED BY <1>2, <2>1, WalkNodeKeeps, OptStepGraph DEF Safe
<1>3. CASE ReplayInput
  <2>1. Optimizing' /\ at' \in 0 .. Len(order)
    BY <1>0, <1>3 DEF ReplayInput, Optimizing
  <2> QED BY <1>3, <2>1, ReplayInputKeeps, OptStepGraph DEF Safe
<1>4. CASE InputsReplayed
  <2>1. Optimizing' /\ at' \in 0 .. Len(order)
    BY <1>0, <1>4 DEF InputsReplayed, Optimizing
  <2> QED BY <1>4, <2>1, InputsReplayedKeeps, OptStepGraph DEF Safe
<1>5. CASE SkipDead
  <2>1. Optimizing' /\ at' \in 0 .. Len(order)
    BY <1>0, <1>5 DEF SkipDead, Optimizing
  <2> QED BY <1>5, <2>1, SkipDeadKeeps, OptStepGraph DEF Safe
<1>6. CASE ReplayNode
  <2>1. phase = "rebuilding" /\ at < Len(order)
    BY <1>6 DEF ReplayNode
  <2>2. Optimizing' /\ at' \in 0 .. Len(order)
    BY <1>0, <1>6, <2>1, ReplayNodeKeeps DEF Optimizing
  <2> QED BY <1>6, <2>2, ReplayNodeKeeps, OptStepGraph DEF Safe
<1>7. CASE MarkOutputs
  <2>1. Optimizing' /\ at' \in 0 .. Len(order)
    BY <1>0, <1>7, MarkOutputsKeeps DEF MarkOutputs, Optimizing
  <2> QED BY <1>7, <2>1, MarkOutputsKeeps, OptStepGraph DEF Safe
<1> QED BY <1>1, <1>2, <1>3, <1>4, <1>5, <1>6, <1>7 DEF OptStep

\* Nothing else is called while the optimizer runs, nor afterwards.
LEMMA GraphStepElsewhere ==
  ASSUME Safe, GraphNext
  PROVE  ~ Optimizing /\ ~ Optimizing'
<1>1. NeverThrown'
  BY GraphNextKeeps DEF Safe
<1> QED BY <1>1 DEF Optimizing, NeverThrown, GraphNext, BuildStep, SortStep, ExecStep, AddInput, AddNode, MarkOutput,
              Building, StartSort, NextReady, Sorted, Validated, MapInputs, RunNode, Gather

\* Before the optimizer is called it has made nothing.
LEMMA GraphStepKeeps ==
  ASSUME Safe, GraphNext, UNCHANGED optVars
  PROVE  Safe'
<1>1. GraphInv' /\ NeverThrown'
  BY GraphNextKeeps DEF Safe
<1>2. ~ Optimizing /\ ~ Optimizing'
  BY GraphStepElsewhere
<1>3. rebuilt' = rebuilt /\ idMap' = idMap
  BY DEF optVars
<1>4. rebuilt.inputs = <<>> /\ DOMAIN idMap = {} /\ WellBuilt(rebuilt)
  BY <1>2 DEF Safe, OptInv
<1>5. OptInv'
  <2>1. WellBuilt(rebuilt)' /\ Translated'
    BY <1>3, <1>4 DEF Translated
  <2>2. Len(g'.inputs) \in Nat
    BY <1>1 DEF GraphInv, WellBuilt, Typed
  <2>3. InputsKept'
    BY <1>3, <1>4, <2>2 DEF InputsKept
  <2> QED BY <1>2, <1>3, <1>4, <2>1, <2>3 DEF OptInv, Optimizing
<1> QED BY <1>1, <1>5 DEF Safe

LEMMA SafeInit == Init => Safe
<1> SUFFICES ASSUME Init PROVE Safe
  OBVIOUS
<1>1. GraphInit /\ rebuilt = NoGraph /\ DOMAIN idMap = {} /\ phase = "building" /\ g = NoGraph
  BY DEF Init, GraphInit
<1>2. GraphInv /\ NeverThrown
  BY <1>1, GraphInvInit
<1>3. WellBuilt(rebuilt)
  BY <1>1, BuiltEmpty
<1>4. rebuilt.inputs = <<>> /\ g.inputs = <<>>
  BY <1>1 DEF NoGraph
<1>5. Translated /\ InputsKept
  BY <1>1, <1>4 DEF Translated, InputsKept
<1> QED BY <1>1, <1>2, <1>3, <1>4, <1>5 DEF Safe, OptInv, Optimizing

LEMMA SafeNext ==
  ASSUME Safe, [Next]_vars
  PROVE  Safe'
<1>1. CASE GraphNext /\ UNCHANGED optVars
  BY <1>1, GraphStepKeeps
<1>2. CASE OptStep
  BY <1>2, OptStepKeeps
<1>3. CASE UNCHANGED vars
  <2>1. /\ g' = g /\ phase' = phase /\ at' = at /\ order' = order /\ graphVars' = graphVars
        /\ liveValues' = liveValues /\ liveNodes' = liveNodes /\ rebuilt' = rebuilt /\ idMap' = idMap
    BY <1>3 DEF vars, graphVars, sortVars, optVars
  <2>2. GraphInv' /\ NeverThrown'
    BY <2>1, GraphNextKeeps DEF Safe
  <2>3. Translated' /\ InputsKept' /\ WellBuilt(rebuilt)'
    BY <2>1 DEF Safe, OptInv, Translated, InputsKept
  <2>4. /\ ~ Optimizing' => rebuilt'.inputs = <<>> /\ DOMAIN idMap' = {}
        /\ phase' = "walking" => LiveClosed' /\ Walked'
        /\ phase' = "rebuilding" => LiveClosed' /\ Cloned'
        /\ phase' = "optimized" => SameSignature'
    BY <2>1 DEF Safe, OptInv, Optimizing, LiveClosed, Walked, Cloned, SameSignature
  <2> QED BY <2>2, <2>3, <2>4 DEF Safe, OptInv
<1> QED BY <1>1, <1>2, <1>3 DEF Next

-----------------------------------------------------------------------------
(* What the pass keeps *)

\* Node n makes an output.
MakesOutput(gr, n) == \E i \in DOMAIN gr.outputs : gr.outputs[i] = gr.nodes[n].out

\* Node n reaches an output when f says which of the nodes after it do.
ReachOf(gr, f, n) ==
  \/ \E i \in DOMAIN gr.outputs : gr.outputs[i] = gr.nodes[n].out
  \/ \E k \in n + 1 .. Len(gr.nodes) : ReadsFrom(gr, k, n) # {} /\ f[k]

\* f solves the recursion of Reaches.
ReachSolved(gr, f) == f = [n \in NodeIds(gr) |-> ReachOf(gr, f, n)]

\* The recursion has a solution, made from the last node to the first.
LEMMA ReachExists ==
  ASSUME NEW gr, WellBuilt(gr)
  PROVE  \E f : ReachSolved(gr, f)
<1> DEFINE L == Len(gr.nodes)
           Upper(f, m) == /\ f = [n \in 1 .. L |-> f[n]]
                          /\ \A n \in 1 .. L : n > L - m => f[n] = ReachOf(gr, f, n)
           S == {m \in Nat : \E f : Upper(f, m)}
<1>0. L \in Nat /\ NodeIds(gr) = 1 .. L
  BY GraphSequences
<1>1. 0 \in S
  <2>1. [n \in 1 .. L |-> FALSE] = [n \in 1 .. L |-> [k \in 1 .. L |-> FALSE][n]]
    OBVIOUS
  <2>2. \A n \in 1 .. L : ~ n > L - 0
    BY <1>0
  <2> HIDE DEF L
  <2> QED BY <2>1, <2>2
<1> HIDE DEF L
<1>2. ASSUME NEW m \in 0 .. L - 1, m \in S PROVE m + 1 \in S
  <2>1. PICK f : Upper(f, m)
    BY <1>2
  <2> DEFINE o == L - m
             h == [n \in 1 .. L |-> IF n = o THEN ReachOf(gr, f, o) ELSE f[n]]
  <2>2. /\ m \in Nat /\ o \in 1 .. L
        /\ \A n \in 1 .. L : n > L - (m + 1) <=> n = o \/ n > o
        /\ \A n \in 1 .. L : \A k \in n + 1 .. L : n >= o => k \in 1 .. L /\ k # o
    BY <1>0
  <2>3. h = [n \in 1 .. L |-> h[n]] /\ h[o] = ReachOf(gr, f, o)
        /\ \A n \in 1 .. L : n # o => h[n] = f[n]
    BY <2>2
  <2> HIDE DEF h
  <2>4. ASSUME NEW n \in 1 .. L, n >= o PROVE ReachOf(gr, h, n) = ReachOf(gr, f, n)
    <3>1. \A k \in n + 1 .. L : h[k] = f[k]
      BY <2>2, <2>3, <2>4
    <3> QED BY <3>1 DEF ReachOf, L
  <2>5. ASSUME NEW n \in 1 .. L, n > L - (m + 1) PROVE h[n] = ReachOf(gr, h, n)
    <3>1. CASE n = o
      BY <2>2, <2>3, <2>4, <3>1
    <3>2. CASE n # o
      <4>1. n > o /\ n >= o
        BY <2>2, <2>5, <3>2
      <4>2. f[n] = ReachOf(gr, f, n)
        BY <2>1, <4>1
      <4> QED BY <2>3, <2>4, <3>2, <4>1, <4>2
    <3> QED BY <3>1, <3>2
  <2>6. Upper(h, m + 1)
    BY <2>3, <2>5
  <2>7. m + 1 \in Nat
    BY <2>2
  <2> HIDE DEF Upper
  <2> QED BY <2>6, <2>7
<1>3. L \in S
  <2> HIDE DEF S
  <2> QED BY <1>0, <1>1, <1>2, CountUp
<1>4. PICK f : Upper(f, L)
  BY <1>3
<1>5. \A n \in 1 .. L : f[n] = ReachOf(gr, f, n)
  BY <1>0, <1>4
<1>6. f = [n \in 1 .. L |-> ReachOf(gr, f, n)]
  BY <1>4, <1>5
<1> QED BY <1>0, <1>6 DEF ReachSolved

\* A node reaches an output when it makes one or a node that reads from it does.
LEMMA ReachesUnfolds ==
  ASSUME NEW gr, WellBuilt(gr), NEW n \in NodeIds(gr)
  PROVE  Reaches(gr)[n] <=>
           \/ MakesOutput(gr, n)
           \/ \E k \in NodeIds(gr) : ReadsFrom(gr, k, n) # {} /\ Reaches(gr)[k]
<1>1. Reaches(gr) = CHOOSE f : ReachSolved(gr, f)
  BY DEF Reaches, ReachSolved, ReachOf
<1>2. ReachSolved(gr, Reaches(gr))
  BY <1>1, ReachExists
<1>3. PICK f : f = Reaches(gr)
  OBVIOUS
<1>4. f = [k \in NodeIds(gr) |-> ReachOf(gr, f, k)]
  BY <1>2, <1>3 DEF ReachSolved
<1>5. f[n] = ReachOf(gr, f, n)
  BY <1>4
<1>6. \A k \in n + 1 .. Len(gr.nodes) : k \in NodeIds(gr)
  BY GraphSequences
<1>7. \A k \in NodeIds(gr) : ReadsFrom(gr, k, n) # {} => k \in n + 1 .. Len(gr.nodes)
  <2>1. \A k \in NodeIds(gr) : ReadsFrom(gr, k, n) # {} => n < k
    BY ReadsEarlier
  <2> QED BY <2>1, GraphSequences
<1>8. f[n] <=> \/ MakesOutput(gr, n)
               \/ \E k \in n + 1 .. Len(gr.nodes) : ReadsFrom(gr, k, n) # {} /\ f[k]
  BY <1>5 DEF ReachOf, MakesOutput
<1>9. f[n] <=> \/ MakesOutput(gr, n)
               \/ \E k \in NodeIds(gr) : ReadsFrom(gr, k, n) # {} /\ f[k]
  BY <1>6, <1>7, <1>8
<1> QED BY <1>3, <1>9

\* The nodes that reach an output are the only ones of which that can be said.
LEMMA ReachesOnly ==
  ASSUME NEW gr, WellBuilt(gr), NEW N, N \subseteq NodeIds(gr),
         \A n \in NodeIds(gr) :
           n \in N <=> MakesOutput(gr, n) \/ \E k \in N : ReadsFrom(gr, k, n) # {}
  PROVE  N = {n \in NodeIds(gr) : Reaches(gr)[n]}
<1> DEFINE L == Len(gr.nodes)
           S == {m \in Nat : \A n \in NodeIds(gr) : n > L - m => (n \in N <=> Reaches(gr)[n])}
<1>0. L \in Nat /\ NodeIds(gr) = 1 .. L
  BY GraphSequences
<1> HIDE DEF L
<1>1. 0 \in S
  BY <1>0
<1>2. ASSUME NEW m \in 0 .. L - 1, m \in S PROVE m + 1 \in S
  <2>1. /\ m \in Nat /\ L - m \in NodeIds(gr)
        /\ \A n \in NodeIds(gr) : n > L - (m + 1) <=> n = L - m \/ n > L - m
    BY <1>0
  <2>2. ASSUME NEW k \in NodeIds(gr), ReadsFrom(gr, k, L - m) # {}
        PROVE  k \in N <=> Reaches(gr)[k]
    <3>1. L - m < k
      BY <2>1, <2>2, ReadsEarlier
    <3>2. k > L - m
      BY <1>0, <3>1
    <3> QED BY <1>2, <3>2
  <2>3. L - m \in N <=> Reaches(gr)[L - m]
    <3>1. Reaches(gr)[L - m] <=>
            \/ MakesOutput(gr, L - m)
            \/ \E k \in NodeIds(gr) : ReadsFrom(gr, k, L - m) # {} /\ Reaches(gr)[k]
      BY <2>1, ReachesUnfolds
    <3> QED BY <2>1, <2>2, <3>1
  <2> QED BY <1>2, <2>1, <2>3
<1>3. L \in S
  <2> HIDE DEF S
  <2> QED BY <1>0, <1>1, <1>2, CountUp
<1>4. \A n \in NodeIds(gr) : n > L - L
  BY <1>0
<1> QED BY <1>3, <1>4

\* What a graph has in common with a larger one means the same in both.
LEMMA MeaningExtends ==
  ASSUME NEW gr, WellBuilt(gr), NEW h, WellBuilt(h), NEW args,
         \A i \in DOMAIN gr.inputs : i \in DOMAIN h.inputs /\ h.inputs[i] = gr.inputs[i],
         \A n \in NodeIds(gr) : n \in NodeIds(h) /\ h.nodes[n] = gr.nodes[n]
  PROVE  \A v \in Values(gr) : Denotation(h, args)[v] = Denotation(gr, args)[v]
<1>1. PICK d : d = Denotation(h, args)
  OBVIOUS
<1>2. Obeys(h, args, d)
  BY <1>1, DenotationObeys
<1>3. \A n \in NodeIds(gr) : Applied(h, n, d) = Applied(gr, n, d)
  BY DEF Applied
<1>4. Obeys(gr, args, d)
  BY <1>2, <1>3 DEF Obeys
<1> QED BY <1>1, <1>4, DenotationObeys, OneMeaning

-----------------------------------------------------------------------------
(* What stands for what *)

\* A value is live only if it is an output or a live node reads it, and a node
\* only if its value is.
LiveExact ==
  /\ liveNodes \subseteq NodeIds(g)
  /\ \A n \in liveNodes : g.nodes[n].out \in liveValues
  /\ \A v \in liveValues :
       \/ \E i \in DOMAIN g.outputs : g.outputs[i] = v
       \/ \E n \in liveNodes : \E j \in DOMAIN g.nodes[n].in : g.nodes[n].in[j] = v

\* A value and its place in the new graph stand for the same.
SameMeaning ==
  \A v \in DOMAIN idMap : Denotation(rebuilt, Arguments)[idMap[v]] = Denotation(g, Arguments)[v]

\* The nodes of the new graph are the clones of the live nodes up to place at, and
\* each of those has one, which reads what the node reads.
OnlyClones ==
  \A j \in NodeIds(rebuilt) : \E k \in DOMAIN order :
    /\ k <= at /\ order[k] \in liveNodes
    /\ rebuilt.nodes[j].out = idMap[g.nodes[order[k]].out]

EveryClone ==
  \A k \in DOMAIN order :
    k <= at /\ order[k] \in liveNodes =>
      /\ Mapped(g.nodes[order[k]])
      /\ \E j \in NodeIds(rebuilt) : rebuilt.nodes[j].in = MappedInputs(g.nodes[order[k]])

\* In the walk and the rebuilding, and the three properties of their results.
PassInv ==
  /\ phase \in {"walking", "rebuilding"} => LiveExact /\ SameMeaning
  /\ phase = "rebuilding" => OnlyClones /\ EveryClone
  /\ phase # "rebuilding" /\ phase # "optimized" => rebuilt.nodes = <<>>
  /\ LiveIsReaching /\ RebuiltEquivalent /\ RebuiltHasNoDeadNode

\* Live nodes are those that reach an output: what is live is read by a live node
\* or an output, and all of that is live.
LEMMA LiveReaches ==
  ASSUME Safe, LiveExact, phase = "rebuilding"
  PROVE  LiveIsReaching
<1>1. WellBuilt(g) /\ LiveClosed /\ Cloned
  BY DEF Safe, GraphInv, OptInv
<1>2. ASSUME NEW n \in liveNodes
      PROVE  MakesOutput(g, n) \/ \E k \in liveNodes : ReadsFrom(g, k, n) # {}
  <2>1. g.nodes[n].out \in liveValues
    BY DEF LiveExact
  <2>2. CASE \E i \in DOMAIN g.outputs : g.outputs[i] = g.nodes[n].out
    BY <2>2 DEF MakesOutput
  <2>3. ASSUME NEW k \in liveNodes, NEW j \in DOMAIN g.nodes[k].in, g.nodes[k].in[j] = g.nodes[n].out
        PROVE  ReadsFrom(g, k, n) # {}
    BY <2>3 DEF ReadsFrom
  <2> QED BY <2>1, <2>2, <2>3 DEF LiveExact
<1>3. ASSUME NEW n \in NodeIds(g), MakesOutput(g, n) PROVE n \in liveNodes
  BY <1>1, <1>3 DEF MakesOutput, LiveClosed, Cloned
<1>4. ASSUME NEW n \in NodeIds(g), NEW k \in liveNodes, ReadsFrom(g, k, n) # {} PROVE n \in liveNodes
  <2>1. PICK j \in DOMAIN g.nodes[k].in : g.nodes[k].in[j] = g.nodes[n].out
    BY <1>4 DEF ReadsFrom
  <2>2. g.nodes[n].out \in liveValues
    BY <1>1, <2>1 DEF LiveClosed
  <2> QED BY <1>1, <2>2 DEF Cloned
<1>5. liveNodes \subseteq NodeIds(g)
  BY DEF LiveExact
<1>6. \A n \in NodeIds(g) :
        n \in liveNodes <=> MakesOutput(g, n) \/ \E k \in liveNodes : ReadsFrom(g, k, n) # {}
  BY <1>2, <1>3, <1>4
<1>7. liveNodes = {n \in NodeIds(g) : Reaches(g)[n]}
  BY <1>1, <1>5, <1>6, ReachesOnly
<1> QED BY <1>7 DEF LiveIsReaching

\* A step that leaves both graphs and id_map alone leaves what they mean alone.
LEMMA SameMeaningSame ==
  ASSUME SameMeaning, UNCHANGED <<g, rebuilt, idMap>>
  PROVE  SameMeaning'
BY DEF SameMeaning, Arguments

LEMMA SeedPass ==
  ASSUME Safe, PassInv, Seed
  PROVE  PassInv'
<1>1. /\ phase = "sorted" /\ phase' = "walking" /\ liveNodes' = {}
      /\ liveValues' = {g.outputs[i] : i \in DOMAIN g.outputs}
      /\ g' = g /\ rebuilt' = rebuilt /\ idMap' = idMap
  BY DEF Seed
<1>2. DOMAIN idMap = {} /\ rebuilt.nodes = <<>>
  BY <1>1 DEF Safe, OptInv, Optimizing, PassInv
<1>3. LiveExact' /\ SameMeaning'
  BY <1>1, <1>2 DEF LiveExact, SameMeaning
<1> QED BY <1>1, <1>2, <1>3 DEF PassInv, LiveIsReaching, RebuiltEquivalent, RebuiltHasNoDeadNode

LEMMA WalkNodePass ==
  ASSUME Safe, PassInv, WalkNode
  PROVE  PassInv'
<1> DEFINE n == order[at]
<1>1. /\ phase = "walking" /\ phase' = "walking" /\ at > 0
      /\ g' = g /\ rebuilt' = rebuilt /\ idMap' = idMap
  BY DEF WalkNode
<1>2. LiveExact /\ SameMeaning /\ rebuilt.nodes = <<>>
  BY <1>1 DEF PassInv
<1>3. n \in NodeIds(g)
  BY <1>1 DEF Safe, GraphInv, CallOK
<1>4. LiveExact'
  <2>1. CASE g.nodes[n].out \in liveValues
    <3>1. /\ liveNodes' = liveNodes \cup {n}
          /\ liveValues' = liveValues \cup {g.nodes[n].in[i] : i \in DOMAIN g.nodes[n].in}
      BY <2>1 DEF WalkNode
    <3> HIDE DEF n
    <3>2. /\ liveNodes' \subseteq NodeIds(g)
          /\ \A p \in liveNodes' : g.nodes[p].out \in liveValues'
      BY <1>2, <1>3, <2>1, <3>1 DEF LiveExact
    <3>3. ASSUME NEW v \in liveValues'
          PROVE  \/ \E i \in DOMAIN g.outputs : g.outputs[i] = v
                 \/ \E p \in liveNodes' : \E j \in DOMAIN g.nodes[p].in : g.nodes[p].in[j] = v
      BY <1>2, <3>1 DEF LiveExact
    <3> QED BY <1>1, <3>2, <3>3 DEF LiveExact
  <2>2. CASE g.nodes[n].out \notin liveValues
    <3>1. liveNodes' = liveNodes /\ liveValues' = liveValues
      BY <2>2 DEF WalkNode
    <3> QED BY <1>1, <1>2, <3>1 DEF LiveExact
  <2> QED BY <2>1, <2>2
<1>5. SameMeaning'
  BY <1>1, <1>2, SameMeaningSame
<1> QED BY <1>1, <1>2, <1>4, <1>5 DEF PassInv, LiveIsReaching, RebuiltEquivalent, RebuiltHasNoDeadNode

\* The place of value v is new in the graph h that the rebuilt one becomes, and
\* stands there for what v stands for.
LEMMA NextMeans ==
  ASSUME WellBuilt(rebuilt), Translated, SameMeaning, WellBuilt(rebuilt'), g' = g,
         NEW v, idMap' = MapToNext(v),
         \A i \in DOMAIN rebuilt.inputs : i \in DOMAIN rebuilt'.inputs /\ rebuilt'.inputs[i] = rebuilt.inputs[i],
         \A n \in NodeIds(rebuilt) : n \in NodeIds(rebuilt') /\ rebuilt'.nodes[n] = rebuilt.nodes[n],
         Denotation(rebuilt', Arguments)[rebuilt.next] = Denotation(g, Arguments)[v]
  PROVE  SameMeaning'
<1> DEFINE d == Denotation(g, Arguments)
           e == Denotation(rebuilt, Arguments)
           h == Denotation(rebuilt', Arguments)
<1>1. \A u \in Values(rebuilt) : h[u] = e[u]
  BY MeaningExtends
<1>2. \A u \in DOMAIN idMap : idMap[u] \in Values(rebuilt) /\ e[idMap[u]] = d[u]
  BY DEF Translated, SameMeaning
<1>3. h[rebuilt.next] = d[v]
  OBVIOUS
<1>4. Denotation(rebuilt, Arguments)' = h /\ Denotation(g, Arguments)' = d
  BY DEF Arguments
<1> HIDE DEF d, e, h
<1>5. ASSUME NEW u \in DOMAIN idMap \cup {v}
      PROVE  h[idMap'[u]] = d[u]
  <2>1. CASE u = v
    BY <1>3, <2>1 DEF MapToNext
  <2>2. CASE u # v
    BY <1>1, <1>2, <2>2 DEF MapToNext
  <2> QED BY <2>1, <2>2
<1>6. DOMAIN idMap' = DOMAIN idMap \cup {v}
  BY DEF MapToNext
<1> QED BY <1>4, <1>5, <1>6 DEF SameMeaning

LEMMA ReplayInputPass ==
  ASSUME Safe, Safe', PassInv, ReplayInput
  PROVE  PassInv'
<1> DEFINE m == Len(rebuilt.inputs)
           v == g.inputs[m + 1]
<1>1. /\ phase = "walking" /\ phase' = "walking" /\ m < Len(g.inputs) /\ g' = g
      /\ rebuilt' = WithInput(rebuilt, g.shape[v]) /\ idMap' = MapToNext(v)
      /\ liveNodes' = liveNodes /\ liveValues' = liveValues
  BY DEF ReplayInput
<1>2. /\ WellBuilt(rebuilt) /\ WellBuilt(rebuilt') /\ WellBuilt(g) /\ Translated
      /\ LiveExact /\ SameMeaning /\ rebuilt.nodes = <<>>
  BY <1>1 DEF Safe, GraphInv, OptInv, PassInv
<1>3. rebuilt'.inputs = Append(rebuilt.inputs, rebuilt.next) /\ rebuilt'.nodes = rebuilt.nodes
  <2>1. PICK sh : sh = g.shape[v]
    OBVIOUS
  <2>2. WithInput(rebuilt, sh) =
          [nodes |-> rebuilt.nodes, inputs |-> Append(rebuilt.inputs, rebuilt.next),
           outputs |-> rebuilt.outputs, next |-> rebuilt.next + 1, shape |-> Grow(rebuilt, sh)]
    BY <1>2, InputFields
  <2>3. rebuilt' = WithInput(rebuilt, sh)
    BY <1>1, <2>1
  <2> QED BY <2>2, <2>3
<1>4. m + 1 \in DOMAIN g.inputs /\ rebuilt.inputs \in Seq(Nat) /\ rebuilt.next \in Nat
  <2>1. rebuilt.inputs \in Seq(Nat) /\ rebuilt.next \in Nat /\ g.inputs \in Seq(Nat)
    BY <1>2 DEF WellBuilt, Typed
  <2> QED BY <1>1, <2>1
<1>5. /\ \A i \in DOMAIN rebuilt.inputs : i \in DOMAIN rebuilt'.inputs /\ rebuilt'.inputs[i] = rebuilt.inputs[i]
      /\ m + 1 \in DOMAIN rebuilt'.inputs /\ rebuilt'.inputs[m + 1] = rebuilt.next
  BY <1>3, <1>4
<1>6. \A n \in NodeIds(rebuilt) : n \in NodeIds(rebuilt') /\ rebuilt'.nodes[n] = rebuilt.nodes[n]
  BY <1>3 DEF NodeIds
<1>7. /\ Obeys(rebuilt', Arguments, Denotation(rebuilt', Arguments))
      /\ Obeys(g, Arguments, Denotation(g, Arguments))
  BY <1>2, DenotationObeys
<1>8. /\ Denotation(rebuilt', Arguments)[rebuilt.next] = Arguments[m + 1]
      /\ Denotation(g, Arguments)[v] = Arguments[m + 1]
  BY <1>4, <1>5, <1>7 DEF Obeys
<1> HIDE DEF m, v
<1>9. SameMeaning'
  BY <1>1, <1>2, <1>5, <1>6, <1>8, NextMeans
<1>10. LiveExact'
  BY <1>1, <1>2 DEF LiveExact
<1> QED BY <1>1, <1>2, <1>3, <1>9, <1>10 DEF PassInv, LiveIsReaching, RebuiltEquivalent, RebuiltHasNoDeadNode

LEMMA InputsReplayedPass ==
  ASSUME Safe, Safe', PassInv, InputsReplayed
  PROVE  PassInv'
<1>1. /\ phase = "walking" /\ phase' = "rebuilding" /\ at = 0 /\ at' = 0
      /\ g' = g /\ order' = order /\ rebuilt' = rebuilt /\ idMap' = idMap
      /\ liveNodes' = liveNodes /\ liveValues' = liveValues
  BY DEF InputsReplayed, sortVars, optVars
<1>2. LiveExact /\ SameMeaning /\ rebuilt.nodes = <<>>
  BY <1>1 DEF PassInv
<1>3. LiveExact' /\ SameMeaning'
  BY <1>1, <1>2, SameMeaningSame DEF LiveExact
<1>4. DOMAIN order = 1 .. Len(order)
  BY DEF Safe, GraphInv, CallOK
<1>5. NodeIds(rebuilt) = {} /\ \A k \in DOMAIN order : ~ k <= 0
  BY <1>2, <1>4 DEF NodeIds
<1>6. OnlyClones' /\ EveryClone'
  BY <1>1, <1>5 DEF OnlyClones, EveryClone, NodeIds
<1>7. LiveIsReaching'
  <2>1. (Safe /\ LiveExact /\ phase = "rebuilding" => LiveIsReaching)'
    BY LiveReaches, PTL
  <2> QED BY <1>1, <1>3, <2>1
<1> QED BY <1>1, <1>3, <1>6, <1>7 DEF PassInv, RebuiltEquivalent, RebuiltHasNoDeadNode

LEMMA SkipDeadPass ==
  ASSUME Safe, PassInv, SkipDead
  PROVE  PassInv'
<1>1. /\ phase = "rebuilding" /\ phase' = "rebuilding" /\ order[at + 1] \notin liveNodes /\ at' = at + 1
      /\ g' = g /\ order' = order /\ rebuilt' = rebuilt /\ idMap' = idMap
      /\ liveNodes' = liveNodes /\ liveValues' = liveValues
  BY DEF SkipDead, sortVars, optVars
<1>2. LiveExact /\ SameMeaning /\ OnlyClones /\ EveryClone /\ LiveIsReaching
  BY <1>1 DEF PassInv
<1>3. \A k \in DOMAIN order : k <= at + 1 <=> k <= at \/ k = at + 1
  BY DEF Safe, GraphInv, CallOK
<1>4. LiveExact' /\ SameMeaning' /\ LiveIsReaching'
  BY <1>1, <1>2, SameMeaningSame DEF LiveExact, LiveIsReaching
<1>5. OnlyClones'
  BY <1>1, <1>2, <1>3 DEF OnlyClones
<1>6. EveryClone'
  BY <1>1, <1>2, <1>3 DEF EveryClone, Mapped, MappedInputs
<1> QED BY <1>1, <1>4, <1>5, <1>6 DEF PassInv, RebuiltEquivalent, RebuiltHasNoDeadNode

\* A live node is replayed as its clone: nothing throws.
LEMMA ReplayNodeClones ==
  ASSUME Safe, ReplayNode
  PROVE  /\ rebuilt' = WithNode(rebuilt, Handled.op, MappedInputs(Handled))
         /\ idMap' = MapToNext(Handled.out)
         /\ at' = at + 1 /\ phase' = phase
<1>1. phase = "rebuilding" /\ at < Len(order) /\ order[at + 1] \in liveNodes
  BY DEF ReplayNode
<1>2. Mapped(Handled) /\ Accepts(rebuilt, Handled.op, MappedInputs(Handled))
  BY <1>1, CloneAccepted, AlwaysMapped, GraphAssumption DEF Accepts
<1> QED BY <1>2 DEF ReplayNode, Clone

LEMMA ReplayNodePass ==
  ASSUME Safe, Safe', PassInv, ReplayNode
  PROVE  PassInv'
<1> DEFINE n == order[at + 1]
           in == MappedInputs(Handled)
           v == Handled.out
           node == [op |-> Handled.op, in |-> in, out |-> rebuilt.next]
           last == Len(rebuilt.nodes) + 1
<1>1. /\ phase = "rebuilding" /\ at < Len(order) /\ n \in liveNodes
      /\ g' = g /\ order' = order /\ liveNodes' = liveNodes /\ liveValues' = liveValues
  BY DEF ReplayNode, sortVars
<1>2. /\ rebuilt' = WithNode(rebuilt, Handled.op, in) /\ idMap' = MapToNext(v)
      /\ at' = at + 1 /\ phase' = "rebuilding"
  BY <1>1, ReplayNodeClones
<1>3. /\ WellBuilt(rebuilt) /\ WellBuilt(rebuilt') /\ WellBuilt(g) /\ Translated /\ Cloned
      /\ CallOK /\ OrderTopological /\ Ordered
      /\ LiveExact /\ SameMeaning /\ OnlyClones /\ EveryClone /\ LiveIsReaching
  BY <1>1 DEF Safe, GraphInv, OptInv, PassInv, Ordered
<1>4. /\ n \in NodeIds(g) /\ Handled = g.nodes[n] /\ at + 1 \in DOMAIN order
      /\ \A k \in DOMAIN order : k <= at + 1 <=> k <= at \/ k = at + 1
      /\ \A k \in DOMAIN order : k <= at => k # at + 1
      /\ \A k \in DOMAIN order : k <= at + 1 => ~ at + 1 < k
  BY <1>1, <1>3 DEF CallOK, Handled
<1>5. rebuilt'.inputs = rebuilt.inputs /\ rebuilt'.nodes = Append(rebuilt.nodes, node)
  <2>1. PICK op, i : op = Handled.op /\ i = in
    OBVIOUS
  <2>2. WithNode(rebuilt, op, i) =
          [nodes |-> Append(rebuilt.nodes, [op |-> op, in |-> i, out |-> rebuilt.next]),
           inputs |-> rebuilt.inputs, outputs |-> rebuilt.outputs,
           next |-> rebuilt.next + 1, shape |-> Grow(rebuilt, Infer(op, ShapesOf(rebuilt, i)))]
    BY <1>3, NodeFields
  <2>3. rebuilt' = WithNode(rebuilt, op, i)
    BY <1>2, <2>1
  <2> QED BY <2>1, <2>2, <2>3
<1>6. node.op = Handled.op /\ node.in = in /\ node.out = rebuilt.next
  OBVIOUS
<1> HIDE DEF n, in, node
<1>7. /\ NodeIds(rebuilt') = NodeIds(rebuilt) \cup {last}
      /\ \A j \in NodeIds(rebuilt) : rebuilt'.nodes[j] = rebuilt.nodes[j]
      /\ rebuilt'.nodes[last] = node
  BY <1>3, <1>5, GraphSequences DEF NodeIds, WellBuilt, Typed
<1> HIDE DEF last
<1>8. \A j \in DOMAIN Handled.in : Handled.in[j] \in DOMAIN idMap
  BY <1>1, AlwaysMapped DEF Mapped, n
<1>9. Denotation(rebuilt', Arguments)[rebuilt.next] = Denotation(g, Arguments)[v]
  <2> DEFINE d == Denotation(g, Arguments)
             e == Denotation(rebuilt, Arguments)
             h == Denotation(rebuilt', Arguments)
  <2>1. Obeys(rebuilt', Arguments, h) /\ Obeys(g, Arguments, d)
    BY <1>3, DenotationObeys
  <2>2. \A u \in Values(rebuilt) : h[u] = e[u]
    <3>1. \A i \in DOMAIN rebuilt.inputs : i \in DOMAIN rebuilt'.inputs /\ rebuilt'.inputs[i] = rebuilt.inputs[i]
      BY <1>5
    <3>2. \A k \in NodeIds(rebuilt) : k \in NodeIds(rebuilt') /\ rebuilt'.nodes[k] = rebuilt.nodes[k]
      BY <1>7
    <3> QED BY <1>3, <3>1, <3>2, MeaningExtends
  <2>3. \A u \in DOMAIN idMap : idMap[u] \in Values(rebuilt) /\ e[idMap[u]] = d[u]
    BY <1>3 DEF Translated, SameMeaning
  <2> HIDE DEF d, e, h
  <2>4. h[rebuilt.next] = Applied(rebuilt', last, h)
    BY <1>6, <1>7, <2>1 DEF Obeys
  <2>5. d[v] = Applied(g, n, d)
    BY <1>4, <2>1 DEF Obeys
  <2>6. Applied(rebuilt', last, h) = <<Handled.op, [j \in DOMAIN in |-> h[in[j]]]>>
    BY <1>6, <1>7 DEF Applied
  <2>7. DOMAIN in = DOMAIN Handled.in /\ \A j \in DOMAIN Handled.in : in[j] = idMap[Handled.in[j]]
    BY DEF in, MappedInputs
  <2>8. \A j \in DOMAIN Handled.in : h[in[j]] = d[Handled.in[j]]
    BY <1>8, <2>2, <2>3, <2>7
  <2>9. Applied(g, n, d) = <<Handled.op, [j \in DOMAIN Handled.in |-> d[Handled.in[j]]]>>
    BY <1>4 DEF Applied
  <2>10. [j \in DOMAIN in |-> h[in[j]]] = [j \in DOMAIN Handled.in |-> d[Handled.in[j]]]
    BY <2>7, <2>8
  <2> QED BY <2>4, <2>5, <2>6, <2>9, <2>10 DEF d, h
<1>10. SameMeaning'
  BY <1>1, <1>2, <1>3, <1>5, <1>7, <1>9, NextMeans
<1>11. LiveExact' /\ LiveIsReaching'
  BY <1>1, <1>2, <1>3 DEF LiveExact, LiveIsReaching
<1>12. idMap'[v] = rebuilt.next /\ \A u \in DOMAIN idMap : u # v => idMap'[u] = idMap[u]
  BY <1>2 DEF MapToNext
<1>13. OnlyClones'
  <2>1. ASSUME NEW j \in NodeIds(rebuilt)
        PROVE  \E k \in DOMAIN order :
                 /\ k <= at + 1 /\ order[k] \in liveNodes
                 /\ rebuilt'.nodes[j].out = idMap'[g.nodes[order[k]].out]
    <3>1. PICK k \in DOMAIN order :
            /\ k <= at /\ order[k] \in liveNodes
            /\ rebuilt.nodes[j].out = idMap[g.nodes[order[k]].out]
      BY <1>3 DEF OnlyClones
    <3>2. order[k] \in NodeIds(g) /\ order[k] # n
      BY <1>3, <1>4, <3>1 DEF OrderTopological, CallOK, n
    <3>3. g.nodes[order[k]].out # v /\ g.nodes[order[k]].out \in DOMAIN idMap
      BY <1>3, <1>4, <3>1, <3>2 DEF WellBuilt, WellFormed, Cloned
    <3> QED BY <1>4, <1>7, <1>12, <3>1, <3>3
  <2>2. rebuilt'.nodes[last].out = idMap'[g.nodes[order[at + 1]].out]
    BY <1>4, <1>6, <1>7, <1>12 DEF n
  <2>3. at + 1 <= at + 1 /\ order[at + 1] \in liveNodes
    BY <1>1, <1>4 DEF n
  <2>4. \A j \in NodeIds(rebuilt') : \E k \in DOMAIN order :
          /\ k <= at + 1 /\ order[k] \in liveNodes
          /\ rebuilt'.nodes[j].out = idMap'[g.nodes[order[k]].out]
    BY <1>4, <1>7, <2>1, <2>2, <2>3
  <2> QED BY <1>1, <1>2, <2>4 DEF OnlyClones
<1>14. EveryClone'
  <2>1. ASSUME NEW k \in DOMAIN order, k <= at + 1, order[k] \in liveNodes
        PROVE  /\ Mapped(g.nodes[order[k]])'
               /\ \E j \in NodeIds(rebuilt') : rebuilt'.nodes[j].in = MappedInputs(g.nodes[order[k]])'
    <3> DEFINE read == g.nodes[order[k]].in
    <3>1. \A j \in DOMAIN read : read[j] \in DOMAIN idMap
      BY <1>3, <1>4, <1>8, <2>1 DEF EveryClone, Mapped, n
    <3>2. ReadsFrom(g, order[k], n) = {}
      BY <1>3, <1>4, <2>1 DEF OrderTopological, n
    <3>3. \A j \in DOMAIN read : read[j] # v
      BY <1>4, <3>2 DEF ReadsFrom
    <3>4. \A j \in DOMAIN read : idMap'[read[j]] = idMap[read[j]] /\ read[j] \in DOMAIN idMap'
      BY <1>2, <1>12, <3>1, <3>3 DEF MapToNext
    <3>5. Mapped(g.nodes[order[k]])' /\ MappedInputs(g.nodes[order[k]])' = MappedInputs(g.nodes[order[k]])
      BY <1>1, <3>4 DEF Mapped, MappedInputs
    <3>6. \E j \in NodeIds(rebuilt') : rebuilt'.nodes[j].in = MappedInputs(g.nodes[order[k]])
      <4>1. CASE k <= at
        <5>1. PICK j \in NodeIds(rebuilt) : rebuilt.nodes[j].in = MappedInputs(g.nodes[order[k]])
          BY <1>3, <2>1, <4>1 DEF EveryClone
        <5> QED BY <1>7, <5>1
      <4>2. CASE k = at + 1
        <5>1. rebuilt'.nodes[last].in = MappedInputs(g.nodes[order[k]])
          BY <1>4, <1>6, <1>7, <4>2 DEF in, n
        <5> QED BY <1>7, <5>1
      <4> QED BY <1>4, <2>1, <4>1, <4>2
    <3> QED BY <3>5, <3>6
  <2> QED BY <1>1, <1>2, <2>1 DEF EveryClone
<1> QED BY <1>1, <1>2, <1>10, <1>11, <1>13, <1>14 DEF PassInv, RebuiltEquivalent, RebuiltHasNoDeadNode

\* In the graph that is returned every node makes an output or is read: the node
\* it is the clone of is live.
LEMMA MarkOutputsPass ==
  ASSUME Safe, Safe', PassInv, MarkOutputs
  PROVE  PassInv'
<1> DEFINE out == [i \in DOMAIN g.outputs |-> idMap[g.outputs[i]]]
<1>1. phase = "rebuilding" /\ at = Len(order) /\ g' = g
  BY DEF MarkOutputs
<1>2. \A i \in DOMAIN g.outputs : g.outputs[i] \in DOMAIN idMap
  BY <1>1, OutputsMapped
<1>3. phase' = "optimized" /\ rebuilt' = [rebuilt EXCEPT !.outputs = out]
  BY <1>2 DEF MarkOutputs
<1>4. /\ WellBuilt(rebuilt) /\ WellBuilt(rebuilt') /\ WellBuilt(g) /\ Translated /\ CallOK
      /\ OrderTopological /\ Ordered
      /\ LiveExact /\ SameMeaning /\ OnlyClones /\ EveryClone
  BY <1>1 DEF Safe, GraphInv, OptInv, PassInv, Ordered
<1>5. out \in Seq(Values(rebuilt))
  <2>1. g.outputs \in Seq(Nat)
    BY <1>4 DEF WellBuilt, Typed
  <2>2. DOMAIN g.outputs = 1 .. Len(g.outputs) /\ Len(g.outputs) \in Nat
    BY <2>1
  <2>3. out \in [1 .. Len(g.outputs) -> Values(rebuilt)]
    BY <1>2, <1>4, <2>2 DEF Translated
  <2> QED BY <2>2, <2>3
<1>6. DOMAIN out = DOMAIN g.outputs /\ \A i \in DOMAIN g.outputs : out[i] = idMap[g.outputs[i]]
  OBVIOUS
<1> HIDE DEF out
<1>7. /\ rebuilt'.outputs = out /\ rebuilt'.inputs = rebuilt.inputs /\ rebuilt'.nodes = rebuilt.nodes
  BY <1>3, <1>4, <1>5, BuiltOutputs
<1>8. NodeIds(rebuilt') = NodeIds(rebuilt)
  BY <1>7 DEF NodeIds
<1>9. \A v \in Values(rebuilt) : Denotation(rebuilt', Arguments)[v] = Denotation(rebuilt, Arguments)[v]
  <2>1. \A i \in DOMAIN rebuilt.inputs : i \in DOMAIN rebuilt'.inputs /\ rebuilt'.inputs[i] = rebuilt.inputs[i]
    BY <1>7
  <2>2. \A k \in NodeIds(rebuilt) : k \in NodeIds(rebuilt') /\ rebuilt'.nodes[k] = rebuilt.nodes[k]
    BY <1>7, <1>8
  <2> QED BY <1>4, <2>1, <2>2, MeaningExtends
<1>10. RebuiltEquivalent'
  <2>1. WellFormed(rebuilt') /\ SameSignature'
    BY <1>3, <1>4 DEF WellBuilt, Safe, OptInv
  <2>2. ASSUME NEW i \in DOMAIN g.outputs
        PROVE  Denotation(rebuilt', Arguments)[rebuilt'.outputs[i]] = Denotation(g, Arguments)[g.outputs[i]]
    <3>1. out[i] \in Values(rebuilt)
      BY <1>2, <1>4, <1>6 DEF Translated
    <3>2. Denotation(rebuilt, Arguments)[out[i]] = Denotation(g, Arguments)[g.outputs[i]]
      BY <1>2, <1>4, <1>6 DEF SameMeaning
    <3> QED BY <1>7, <1>9, <3>1, <3>2
  <2>3. Denotation(rebuilt, Arguments)' = Denotation(rebuilt', Arguments)
        /\ Denotation(g, Arguments)' = Denotation(g, Arguments)
    BY <1>1 DEF Arguments
  <2> QED BY <1>1, <2>1, <2>2, <2>3 DEF RebuiltEquivalent
<1>11. ASSUME NEW j \in NodeIds(rebuilt')
       PROVE  MakesOutput(rebuilt', j) \/ \E l \in NodeIds(rebuilt') : ReadsFrom(rebuilt', l, j) # {}
  <2>1. PICK k \in DOMAIN order :
          /\ order[k] \in liveNodes
          /\ rebuilt.nodes[j].out = idMap[g.nodes[order[k]].out]
    BY <1>4, <1>8 DEF OnlyClones
  <2> DEFINE v == g.nodes[order[k]].out
  <2>2. v \in liveValues /\ rebuilt'.nodes[j].out = idMap[v]
    BY <1>4, <1>7, <2>1 DEF LiveExact
  <2> HIDE DEF v
  <2>3. ASSUME NEW i \in DOMAIN g.outputs, g.outputs[i] = v
        PROVE  MakesOutput(rebuilt', j)
    BY <1>6, <1>7, <2>2, <2>3 DEF MakesOutput
  <2>4. ASSUME NEW n \in liveNodes, NEW i \in DOMAIN g.nodes[n].in, g.nodes[n].in[i] = v
        PROVE  \E l \in NodeIds(rebuilt') : ReadsFrom(rebuilt', l, j) # {}
    <3>1. n \in NodeIds(g)
      BY <1>4 DEF LiveExact
    <3>2. PICK m \in DOMAIN order : order[m] = n
      BY <1>4, <3>1 DEF OrderTopological
    <3>3. m <= at
      BY <1>1, <1>4 DEF CallOK
    <3>4. PICK l \in NodeIds(rebuilt) : rebuilt.nodes[l].in = MappedInputs(g.nodes[n])
      BY <1>4, <3>2, <3>3 DEF EveryClone
    <3>5. i \in DOMAIN rebuilt'.nodes[l].in /\ rebuilt'.nodes[l].in[i] = rebuilt'.nodes[j].out
      BY <1>7, <2>2, <2>4, <3>4 DEF MappedInputs
    <3>6. ReadsFrom(rebuilt', l, j) # {}
      BY <3>5 DEF ReadsFrom
    <3> QED BY <1>8, <3>4, <3>6
  <2> QED BY <1>4, <2>2, <2>3, <2>4 DEF LiveExact
<1>12. NodeIds(rebuilt') = {j \in NodeIds(rebuilt') : Reaches(rebuilt')[j]}
  BY <1>4, <1>11, ReachesOnly
<1>13. RebuiltHasNoDeadNode'
  BY <1>12 DEF RebuiltHasNoDeadNode
<1> QED BY <1>3, <1>10, <1>13 DEF PassInv, LiveIsReaching

LEMMA PassNext ==
  ASSUME Safe, Safe', PassInv, [Next]_vars
  PROVE  PassInv'
<1>1. CASE GraphNext /\ UNCHANGED optVars
  <2>1. ~ Optimizing /\ ~ Optimizing' /\ rebuilt' = rebuilt
    BY <1>1, GraphStepElsewhere DEF optVars
  <2> QED BY <2>1 DEF PassInv, Optimizing, LiveIsReaching, RebuiltEquivalent, RebuiltHasNoDeadNode
<1>2. CASE OptStep
  BY <1>2, SeedPass, WalkNodePass, ReplayInputPass, InputsReplayedPass, SkipDeadPass, ReplayNodePass,
     MarkOutputsPass DEF OptStep
<1>3. CASE UNCHANGED vars
  <2>1. /\ g' = g /\ phase' = phase /\ at' = at /\ order' = order
        /\ liveValues' = liveValues /\ liveNodes' = liveNodes /\ rebuilt' = rebuilt /\ idMap' = idMap
    BY <1>3 DEF vars, graphVars, sortVars, optVars
  <2>2. Arguments' = Arguments
    BY <2>1 DEF Arguments
  <2>3. LiveExact' = LiveExact /\ OnlyClones' = OnlyClones /\ EveryClone' = EveryClone
    BY <2>1 DEF LiveExact, OnlyClones, EveryClone, Mapped, MappedInputs
  <2>4. SameMeaning' = SameMeaning
    BY <2>1, <2>2 DEF SameMeaning
  <2>5. LiveIsReaching' = LiveIsReaching /\ RebuiltHasNoDeadNode' = RebuiltHasNoDeadNode
    BY <2>1 DEF LiveIsReaching, RebuiltHasNoDeadNode
  <2>6. RebuiltEquivalent' = RebuiltEquivalent
    BY <2>1, <2>2 DEF RebuiltEquivalent, SameSignature
  <2> QED BY <2>1, <2>3, <2>4, <2>5, <2>6 DEF PassInv
<1> QED BY <1>1, <1>2, <1>3 DEF Next

LEMMA PassInit == Init => PassInv
BY DEF Init, GraphInit, NoGraph, PassInv, LiveIsReaching, RebuiltEquivalent, RebuiltHasNoDeadNode

\* execute() is not disturbed by the optimizer.
LEMMA ResultsNext ==
  ASSUME Safe, ResultInv, [Next]_vars
  PROVE  ResultInv'
<1>1. CASE GraphNext /\ UNCHANGED optVars
  BY <1>1, GraphNextMeant DEF Safe
<1>2. CASE OptStep
  <2>1. phase' \in {"walking", "rebuilding", "optimized", "thrown"}
    BY <1>2 DEF OptStep, Seed, WalkNode, ReplayInput, InputsReplayed, SkipDead, ReplayNode, MarkOutputs
  <2> QED BY <2>1 DEF ResultInv, ResultsDenoted
<1>3. CASE UNCHANGED vars
  <2>1. UNCHANGED graphVars
    BY <1>3 DEF vars
  <2> QED BY <2>1, GraphNextMeant DEF Safe
<1> QED BY <1>1, <1>2, <1>3 DEF Next

-----------------------------------------------------------------------------
(* The theorems *)

\* The inductive invariant of a graph, its calls and its optimizer.
THEOREM OptimizerSafe == Spec => []Safe
<1>1. Init => Safe
  BY SafeInit
<1>2. Safe /\ [Next]_vars => Safe'
  BY SafeNext
<1> QED BY <1>1, <1>2, PTL DEF Spec

\* Nothing that the build functions or the optimizer do makes a graph that is
\* not well-formed.
THEOREM OptimizerTypeOK == Spec => []GraphTypeOK
<1>1. Safe => GraphTypeOK
  BY GraphInvType DEF Safe
<1> QED BY <1>1, OptimizerSafe, PTL

\* The bookkeeping of Kahn's algorithm, for graphs of every size: in_degree counts
\* what a node still waits for, and the queue has the nodes that wait for nothing.
THEOREM OptimizerSorting == Spec => []SortInv
<1>1. Safe => SortInv
  BY DEF Safe, GraphInv
<1> QED BY <1>1, OptimizerSafe, PTL

\* The order it ends with has every node once, after all that the node reads from.
THEOREM OptimizerOrder == Spec => []OrderTopological
<1>1. Safe => OrderTopological
  BY DEF Safe, GraphInv
<1> QED BY <1>1, OptimizerSafe, PTL

\* Neither the sort, nor execute(), nor the two passes of the optimizer reach one
\* of their exceptions, whatever graph was built: the optimizer finds all that a
\* live node reads, and shape inference takes for the clone of a node what it
\* took for the node.
THEOREM OptimizerNeverThrows == Spec => []NeverThrown
<1>1. Safe => NeverThrown
  BY DEF Safe
<1> QED BY <1>1, OptimizerSafe, PTL

\* The graph that the optimizer returns is well-formed and takes and returns
\* tensors of the shapes that the original does, in the same positions: all of
\* RebuiltEquivalent but what the values stand for.
THEOREM OptimizerKeepsSignature ==
  Spec => [](phase = "optimized" => WellFormed(rebuilt) /\ SameSignature)
<1>1. Safe => (phase = "optimized" => WellFormed(rebuilt) /\ SameSignature)
  BY DEF Safe, OptInv, WellBuilt
<1> QED BY <1>1, OptimizerSafe, PTL

\* execute() returns what the outputs of the graph stand for, each once and in the
\* order in which they were marked, for graphs of every size and in whatever order
\* the nodes became ready.
THEOREM OptimizerResultsDenoted == Spec => []ResultsDenoted
<1>1. Init => ResultInv
  BY ResultInvInit DEF Init
<1>2. Safe /\ ResultInv /\ [Next]_vars => ResultInv'
  BY ResultsNext
<1>3. ResultInv => ResultsDenoted
  BY DEF ResultInv
<1> QED BY <1>1, <1>2, <1>3, OptimizerSafe, PTL DEF Spec

\* What the two passes of the optimizer keep, from which the next three follow.
THEOREM OptimizerPasses == Spec => []PassInv
<1>1. Init => PassInv
  BY PassInit
<1>2. Safe /\ Safe' /\ PassInv /\ [Next]_vars => PassInv'
  BY PassNext
<1> QED BY <1>1, <1>2, OptimizerSafe, PTL DEF Spec

\* The backward walk finds the nodes from which an output can be reached, all of
\* them and no other.
THEOREM OptimizerLiveIsReaching == Spec => []LiveIsReaching
<1>1. PassInv => LiveIsReaching
  BY DEF PassInv
<1> QED BY <1>1, OptimizerPasses, PTL

\* The graph that the optimizer returns computes what the original computes, in the
\* same positions, whatever the operators do.
THEOREM OptimizerRebuiltEquivalent == Spec => []RebuiltEquivalent
<1>1. PassInv => RebuiltEquivalent
  BY DEF PassInv
<1> QED BY <1>1, OptimizerPasses, PTL

\* And nothing in it is dead: the optimizer is done in one pass.
THEOREM OptimizerNoDeadNode == Spec => []RebuiltHasNoDeadNode
<1>1. PassInv => RebuiltHasNoDeadNode
  BY DEF PassInv
<1> QED BY <1>1, OptimizerPasses, PTL
=============================================================================
