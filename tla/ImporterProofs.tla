--------------------------- MODULE ImporterProofs ---------------------------
(***************************************************************************)
(* Theorems about Importer, for every file.                                *)
(***************************************************************************)
EXTENDS ReaderProofs, FiniteSetTheorems

-----------------------------------------------------------------------------
(* Lists, names and graphs that grow *)

\* An element is put behind those of a list.
LEMMA ListAppend ==
  ASSUME NEW s, IsList(s), NEW e
  PROVE  /\ IsList(Append(s, e)) /\ Len(Append(s, e)) = Len(s) + 1
         /\ DOMAIN s = 1 .. Len(s) /\ DOMAIN Append(s, e) = 1 .. Len(s) + 1
         /\ \A i \in 1 .. Len(s) : Append(s, e)[i] = s[i]
         /\ Append(s, e)[Len(s) + 1] = e
<1> DEFINE S == {s[i] : i \in 1 .. Len(s)} \cup {e}
           n == Len(s)
<1>1. n \in Nat /\ s = [i \in 1 .. n |-> s[i]] /\ \A i \in 1 .. n : s[i] \in S
  BY DEF IsList
<1>2. e \in S
  OBVIOUS
<1> HIDE DEF S
<1>3. s \in Seq(S)
  BY <1>1
<1>4. /\ Append(s, e) \in Seq(S) /\ Len(Append(s, e)) = n + 1
      /\ \A i \in 1 .. n : Append(s, e)[i] = s[i]
      /\ Append(s, e)[n + 1] = e
  BY <1>2, <1>3, AppendProperties
<1> DEFINE a == Append(s, e)
<1> HIDE DEF a
<1>5. a \in Seq(S) /\ Len(a) = n + 1
  BY <1>4 DEF a
<1>6. DOMAIN a = 1 .. n + 1 /\ a = [i \in 1 .. n + 1 |-> a[i]]
  BY <1>1, <1>5
<1>7. IsList(a)
  BY <1>1, <1>5, <1>6 DEF IsList
<1>8. DOMAIN s = 1 .. n
  BY <1>1
<1> QED BY <1>4, <1>6, <1>7, <1>8 DEF a

\* A graph with its values numbered in order, each of an input or a node.
Formed(g) ==
  /\ g = [nodes |-> g.nodes, inputs |-> g.inputs, outputs |-> g.outputs,
          next |-> g.next, shape |-> g.shape]
  /\ g.next \in Nat /\ Values(g) = 0 .. g.next - 1
  /\ IsList(g.nodes) /\ IsList(g.inputs) /\ IsList(g.outputs)
  /\ \A k \in DOMAIN g.inputs : g.inputs[k] \in Values(g)
  /\ \A k \in NodeIds(g) : g.nodes[k].out \in Values(g)
  /\ \A v \in Values(g) : \/ \E k \in DOMAIN g.inputs : g.inputs[k] = v
                          \/ \E k \in NodeIds(g) : g.nodes[k].out = v
  /\ WellFormed(g)

\* The shapes with one more.
Shaped(g, sh) == [v \in Values(g) \cup {g.next} |-> IF v = g.next THEN sh ELSE g.shape[v]]

\* The members of a graph with one more value, input, node or output.
LEMMA BuildFields ==
  ASSUME NEW g, Formed(g), NEW sh
  PROVE  /\ WithInput(g, sh) =
              [nodes |-> g.nodes, inputs |-> Append(g.inputs, g.next), outputs |-> g.outputs,
               next |-> g.next + 1, shape |-> Shaped(g, sh)]
         /\ \A op, in : InferOutputShape(op, ShapesOf(g, in)) = sh =>
              WithNode(g, op, in) =
                [nodes |-> Append(g.nodes, [op |-> op, in |-> in, out |-> g.next]),
                 inputs |-> g.inputs, outputs |-> g.outputs,
                 next |-> g.next + 1, shape |-> Shaped(g, sh)]
         /\ \A v : WithOutput(g, v) =
              [nodes |-> g.nodes, inputs |-> g.inputs, outputs |-> Append(g.outputs, v),
               next |-> g.next, shape |-> g.shape]
<1> DEFINE a == g.nodes
           b == g.inputs
           c == g.outputs
           n == g.next
           x == g.shape
           y == Shaped(g, sh)
           w == WithValue(g, sh)
<1>1. g = [nodes |-> a, inputs |-> b, outputs |-> c, next |-> n, shape |-> x]
  BY DEF Formed
<1>2. w = [g EXCEPT !.next = @ + 1, !.shape = y]
  BY DEF WithValue, Shaped
<1>3. w = [nodes |-> a, inputs |-> b, outputs |-> c, next |-> n + 1, shape |-> y]
  <2> HIDE DEF a, b, c, n, x, y, w
  <2> QED BY <1>1, <1>2
<1>4. WithInput(g, sh) = [w EXCEPT !.inputs = Append(@, n)]
  BY DEF WithInput
<1>5. ASSUME NEW op, NEW in, InferOutputShape(op, ShapesOf(g, in)) = sh
      PROVE  WithNode(g, op, in) = [w EXCEPT !.nodes = Append(@, [op |-> op, in |-> in, out |-> n])]
  BY <1>5 DEF WithNode
<1>6. ASSUME NEW v
      PROVE  WithOutput(g, v) = [g EXCEPT !.outputs = Append(@, v)]
  BY DEF WithOutput
<1> HIDE DEF a, b, c, n, x, y, w
<1>7. WithInput(g, sh)
        = [nodes |-> a, inputs |-> Append(b, n), outputs |-> c, next |-> n + 1, shape |-> y]
  BY <1>3, <1>4
<1>8. ASSUME NEW op, NEW in, InferOutputShape(op, ShapesOf(g, in)) = sh
      PROVE  WithNode(g, op, in)
               = [nodes |-> Append(a, [op |-> op, in |-> in, out |-> n]),
                  inputs |-> b, outputs |-> c, next |-> n + 1, shape |-> y]
  BY <1>3, <1>5, <1>8
<1>9. ASSUME NEW v
      PROVE  WithOutput(g, v)
               = [nodes |-> a, inputs |-> b, outputs |-> Append(c, v), next |-> n, shape |-> x]
  BY <1>1, <1>6
<1> QED BY <1>7, <1>8, <1>9 DEF a, b, c, n, x, y

\* The new value has the given shape, the others theirs.
LEMMA ShapedFields ==
  ASSUME NEW g, Formed(g), NEW sh
  PROVE  /\ DOMAIN Shaped(g, sh) = 0 .. g.next
         /\ g.next \in Nat /\ g.next \notin Values(g)
         /\ 0 .. g.next = Values(g) \cup {g.next}
         /\ Shaped(g, sh)[g.next] = sh
         /\ \A v \in Values(g) : Shaped(g, sh)[v] = g.shape[v]
BY DEF Formed, Shaped

\* The graph of an importer that has not begun.
LEMMA FormedEmpty == Formed(NoGraph)
<1> USE DEF NoGraph
<1>1. DOMAIN [v \in {} |-> {}] = {}
  OBVIOUS
<1> QED BY <1>1 DEF Formed, WellFormed, Values, NodeIds, IsList

\* An input is a value that no node makes.
LEMMA FormedInput ==
  ASSUME NEW g, Formed(g), NEW sh
  PROVE  /\ Formed(WithInput(g, sh))
         /\ Values(WithInput(g, sh)) = Values(g) \cup {g.next}
         /\ Len(WithInput(g, sh).inputs) = Len(g.inputs) + 1
         /\ WithInput(g, sh).nodes = g.nodes
         /\ WithInput(g, sh).shape[g.next] = sh
         /\ \A v \in Values(g) : WithInput(g, sh).shape[v] = g.shape[v]
<1> DEFINE h == WithInput(g, sh)
           m == Len(g.inputs)
<1>1. /\ h = [nodes |-> g.nodes, inputs |-> Append(g.inputs, g.next), outputs |-> g.outputs,
              next |-> g.next + 1, shape |-> Shaped(g, sh)]
  BY BuildFields
<1> HIDE DEF h
<1>2. /\ h = [nodes |-> h.nodes, inputs |-> h.inputs, outputs |-> h.outputs,
              next |-> h.next, shape |-> h.shape]
      /\ h.nodes = g.nodes /\ h.outputs = g.outputs /\ h.next = g.next + 1
      /\ h.shape = Shaped(g, sh) /\ h.inputs = Append(g.inputs, g.next)
  BY <1>1
<1>3. /\ m \in Nat /\ IsList(h.inputs) /\ Len(h.inputs) = m + 1
      /\ DOMAIN g.inputs = 1 .. m /\ DOMAIN h.inputs = 1 .. m + 1
      /\ \A k \in 1 .. m : h.inputs[k] = g.inputs[k]
      /\ h.inputs[m + 1] = g.next
  BY <1>2, ListAppend DEF Formed, IsList
<1> HIDE DEF m
<1>4. /\ g.next \in Nat /\ g.next \notin Values(g) /\ Values(h) = Values(g) \cup {g.next}
      /\ Values(h) = 0 .. h.next - 1 /\ h.next \in Nat
      /\ \A v \in Values(g) : h.shape[v] = g.shape[v]
  <2>1. Values(h) = DOMAIN h.shape
    BY DEF Values
  <2>2. /\ DOMAIN Shaped(g, sh) = 0 .. g.next
        /\ g.next \in Nat /\ g.next \notin Values(g)
        /\ 0 .. g.next = Values(g) \cup {g.next}
        /\ \A v \in Values(g) : Shaped(g, sh)[v] = g.shape[v]
    BY ShapedFields
  <2>3. h.next - 1 = g.next /\ h.next \in Nat
    BY <1>2, <2>2
  <2> QED BY <1>2, <2>1, <2>2, <2>3
<1>5. NodeIds(h) = NodeIds(g)
  BY <1>2 DEF NodeIds
<1>6. /\ \A k \in DOMAIN h.inputs : h.inputs[k] \in Values(h)
      /\ \A k \in NodeIds(h) : h.nodes[k].out \in Values(h)
      /\ \A v \in Values(h) : \/ \E k \in DOMAIN h.inputs : h.inputs[k] = v
                              \/ \E k \in NodeIds(h) : h.nodes[k].out = v
  BY <1>2, <1>3, <1>4, <1>5 DEF Formed
<1>7. WellFormed(h)
  <2>1. \A n \in NodeIds(h), k \in DOMAIN h.inputs : h.nodes[n].out # h.inputs[k]
    BY <1>2, <1>3, <1>4, <1>5 DEF Formed, WellFormed
  <2>2. \A n \in NodeIds(h) :
          /\ \A k \in NodeIds(h) : k # n => h.nodes[k].out # h.nodes[n].out
          /\ \A i \in DOMAIN h.nodes[n].in :
               \/ \E k \in DOMAIN h.inputs : h.nodes[n].in[i] = h.inputs[k]
               \/ \E k \in 1 .. n - 1 : h.nodes[n].in[i] = h.nodes[k].out
    <3>1. \A n \in NodeIds(g) :
          /\ \A k \in NodeIds(g) : k # n => g.nodes[k].out # g.nodes[n].out
          /\ \A i \in DOMAIN g.nodes[n].in :
               \/ \E k \in DOMAIN g.inputs : g.nodes[n].in[i] = g.inputs[k]
               \/ \E k \in 1 .. n - 1 : g.nodes[n].in[i] = g.nodes[k].out
      BY DEF Formed, WellFormed
    <3>2. \A k \in DOMAIN g.inputs : k \in DOMAIN h.inputs /\ h.inputs[k] = g.inputs[k]
      BY <1>3
    <3> QED BY <1>2, <1>5, <3>1, <3>2
  <2>3. \A i \in DOMAIN h.outputs : h.outputs[i] \in Values(h)
    BY <1>2, <1>4 DEF Formed, WellFormed
  <2> QED BY <2>1, <2>2, <2>3 DEF WellFormed
<1>8. Formed(h)
  BY <1>2, <1>3, <1>4, <1>6, <1>7 DEF Formed
<1>9. h.shape[g.next] = sh
  BY <1>2, ShapedFields
<1> QED BY <1>2, <1>3, <1>4, <1>8, <1>9 DEF h, m

\* A node is a value made from values there are.
LEMMA FormedNode ==
  ASSUME NEW g, Formed(g), NEW op, NEW in, \A i \in DOMAIN in : in[i] \in Values(g)
  PROVE  LET h == WithNode(g, op, in) IN
         /\ Formed(h)
         /\ Values(h) = Values(g) \cup {g.next}
         /\ h.inputs = g.inputs
         /\ \A v \in Values(g) : h.shape[v] = g.shape[v]
         /\ h.shape[g.next] = InferOutputShape(op, ShapesOf(g, in))
<1> DEFINE h == WithNode(g, op, in)
           sh == InferOutputShape(op, ShapesOf(g, in))
           node == [op |-> op, in |-> in, out |-> g.next]
           m == Len(g.nodes)
<1>1. /\ h = [nodes |-> Append(g.nodes, node), inputs |-> g.inputs, outputs |-> g.outputs,
              next |-> g.next + 1, shape |-> Shaped(g, sh)]
  <2>1. InferOutputShape(op, ShapesOf(g, in)) = sh
    OBVIOUS
  <2> HIDE DEF sh
  <2>2. WithNode(g, op, in) = [nodes |-> Append(g.nodes, node), inputs |-> g.inputs,
                               outputs |-> g.outputs, next |-> g.next + 1, shape |-> Shaped(g, sh)]
    BY <2>1, BuildFields
  <2> QED BY <2>2
<1> HIDE DEF h, sh
<1>2. /\ h = [nodes |-> h.nodes, inputs |-> h.inputs, outputs |-> h.outputs,
              next |-> h.next, shape |-> h.shape]
      /\ h.inputs = g.inputs /\ h.outputs = g.outputs /\ h.next = g.next + 1
      /\ h.shape = Shaped(g, sh) /\ h.nodes = Append(g.nodes, node)
  BY <1>1
<1>3. /\ m \in Nat /\ IsList(h.nodes) /\ Len(h.nodes) = m + 1
      /\ NodeIds(g) = 1 .. m /\ NodeIds(h) = 1 .. m + 1
      /\ \A k \in 1 .. m : h.nodes[k] = g.nodes[k]
      /\ h.nodes[m + 1] = node
  <2>1. IsList(g.nodes)
    BY DEF Formed
  <2> HIDE DEF node
  <2> QED BY <1>2, <2>1, ListAppend DEF NodeIds, IsList
<1> HIDE DEF m
<1>4. /\ g.next \in Nat /\ g.next \notin Values(g) /\ Values(h) = Values(g) \cup {g.next}
      /\ Values(h) = 0 .. h.next - 1 /\ h.next \in Nat
      /\ \A v \in Values(g) : h.shape[v] = g.shape[v]
      /\ h.shape[g.next] = sh
  <2>1. Values(h) = DOMAIN h.shape
    BY DEF Values
  <2>2. /\ DOMAIN Shaped(g, sh) = 0 .. g.next
        /\ g.next \in Nat /\ g.next \notin Values(g)
        /\ 0 .. g.next = Values(g) \cup {g.next}
        /\ Shaped(g, sh)[g.next] = sh
        /\ \A v \in Values(g) : Shaped(g, sh)[v] = g.shape[v]
    BY ShapedFields
  <2>3. h.next - 1 = g.next /\ h.next \in Nat
    BY <1>2, <2>2
  <2> QED BY <1>2, <2>1, <2>2, <2>3
<1>5. /\ \A k \in 1 .. m : h.nodes[k].out = g.nodes[k].out /\ g.nodes[k].out \in Values(g)
      /\ h.nodes[m + 1].out = g.next /\ h.nodes[m + 1].in = in
      /\ \A k \in DOMAIN g.inputs : g.inputs[k] \in Values(g)
  <2>1. /\ \A k \in NodeIds(g) : g.nodes[k].out \in Values(g)
        /\ \A k \in DOMAIN g.inputs : g.inputs[k] \in Values(g)
    BY DEF Formed
  <2>2. node.out = g.next /\ node.in = in
    OBVIOUS
  <2> HIDE DEF node
  <2> QED BY <1>3, <2>1, <2>2
<1>6. /\ \A k \in DOMAIN h.inputs : h.inputs[k] \in Values(h)
      /\ \A k \in NodeIds(h) : h.nodes[k].out \in Values(h)
  BY <1>2, <1>3, <1>4, <1>5
<1>7. \A v \in Values(h) : \/ \E k \in DOMAIN h.inputs : h.inputs[k] = v
                           \/ \E k \in NodeIds(h) : h.nodes[k].out = v
  <2> SUFFICES ASSUME NEW v \in Values(h)
               PROVE  \/ \E k \in DOMAIN h.inputs : h.inputs[k] = v
                      \/ \E k \in NodeIds(h) : h.nodes[k].out = v
    OBVIOUS
  <2>1. CASE v = g.next
    BY <1>3, <1>5, <2>1
  <2>2. CASE v \in Values(g)
    BY <1>2, <1>3, <1>5, <2>2 DEF Formed
  <2> QED BY <1>4, <2>1, <2>2
<1>8. WellFormed(h)
  <2>1. \A n \in NodeIds(h), k \in DOMAIN h.inputs : h.nodes[n].out # h.inputs[k]
    <3>1. \A n \in NodeIds(g), k \in DOMAIN g.inputs : g.nodes[n].out # g.inputs[k]
      BY DEF Formed, WellFormed
    <3> QED BY <1>2, <1>3, <1>4, <1>5, <3>1
  <2>2. ASSUME NEW n \in NodeIds(h), NEW k \in NodeIds(h), k # n
        PROVE  h.nodes[k].out # h.nodes[n].out
    <3>1. \A x, y \in NodeIds(g) : x # y => g.nodes[x].out # g.nodes[y].out
      BY DEF Formed, WellFormed
    <3>2. CASE n \in NodeIds(g) /\ k \in NodeIds(g)
      BY <1>3, <1>5, <2>2, <3>1, <3>2
    <3>3. CASE n \in NodeIds(g) /\ k = m + 1
      BY <1>3, <1>4, <1>5, <3>3
    <3>4. CASE n = m + 1 /\ k \in NodeIds(g)
      BY <1>3, <1>4, <1>5, <3>4
    <3> QED BY <1>3, <2>2, <3>2, <3>3, <3>4
  <2>3. ASSUME NEW n \in NodeIds(h), NEW i \in DOMAIN h.nodes[n].in
        PROVE  \/ \E k \in DOMAIN h.inputs : h.nodes[n].in[i] = h.inputs[k]
               \/ \E k \in 1 .. n - 1 : h.nodes[n].in[i] = h.nodes[k].out
    <3>1. CASE n \in 1 .. m
      <4>1. n \in NodeIds(g) /\ h.nodes[n] = g.nodes[n] /\ i \in DOMAIN g.nodes[n].in
        BY <1>3, <2>3, <3>1
      <4>2. \/ \E k \in DOMAIN g.inputs : g.nodes[n].in[i] = g.inputs[k]
            \/ \E k \in 1 .. n - 1 : g.nodes[n].in[i] = g.nodes[k].out
        BY <4>1 DEF Formed, WellFormed
      <4>3. \A k \in 1 .. n - 1 : k \in 1 .. m
        BY <1>3, <3>1
      <4> QED BY <1>2, <1>5, <4>1, <4>2, <4>3
    <3>2. CASE n = m + 1
      <4>1. in[i] \in Values(g) /\ h.nodes[n].in[i] = in[i]
        BY <1>5, <2>3, <3>2
      <4>2. \/ \E k \in DOMAIN g.inputs : g.inputs[k] = in[i]
            \/ \E k \in NodeIds(g) : g.nodes[k].out = in[i]
        BY <4>1 DEF Formed
      <4>3. n - 1 = m
        BY <1>3, <3>2
      <4> QED BY <1>2, <1>3, <1>5, <4>1, <4>2, <4>3
    <3> QED BY <1>3, <3>1, <3>2
  <2>4. \A i \in DOMAIN h.outputs : h.outputs[i] \in Values(h)
    BY <1>2, <1>4 DEF Formed, WellFormed
  <2> QED BY <2>1, <2>2, <2>3, <2>4 DEF WellFormed
<1>9. Formed(h)
  BY <1>2, <1>3, <1>4, <1>6, <1>7, <1>8 DEF Formed
<1>10. h.inputs = g.inputs /\ h.shape[g.next] = sh
  BY <1>2, <1>4
<1> QED BY <1>4, <1>9, <1>10 DEF h, m, sh

\* It comes behind the nodes there are.
LEMMA NodeFields ==
  ASSUME NEW g, Formed(g), NEW op, NEW in
  PROVE  /\ WithNode(g, op, in).nodes = Append(g.nodes, [op |-> op, in |-> in, out |-> g.next])
         /\ WithNode(g, op, in).outputs = g.outputs
<1> DEFINE h == WithNode(g, op, in)
           sh == InferOutputShape(op, ShapesOf(g, in))
<1>1. InferOutputShape(op, ShapesOf(g, in)) = sh
  OBVIOUS
<1> HIDE DEF sh
<1>2. WithNode(g, op, in) = [nodes |-> Append(g.nodes, [op |-> op, in |-> in, out |-> g.next]),
                             inputs |-> g.inputs, outputs |-> g.outputs,
                             next |-> g.next + 1, shape |-> Shaped(g, sh)]
  <2>1. \A o, i : InferOutputShape(o, ShapesOf(g, i)) = sh =>
          WithNode(g, o, i) =
            [nodes |-> Append(g.nodes, [op |-> o, in |-> i, out |-> g.next]),
             inputs |-> g.inputs, outputs |-> g.outputs,
             next |-> g.next + 1, shape |-> Shaped(g, sh)]
    BY BuildFields
  <2> QED BY <1>1, <2>1
<1> HIDE DEF h
<1>3. h = [nodes |-> Append(g.nodes, [op |-> op, in |-> in, out |-> g.next]),
           inputs |-> g.inputs, outputs |-> g.outputs,
           next |-> g.next + 1, shape |-> Shaped(g, sh)]
  BY <1>2 DEF h
<1>4. h.nodes = Append(g.nodes, [op |-> op, in |-> in, out |-> g.next]) /\ h.outputs = g.outputs
  BY <1>3
<1> QED BY <1>4 DEF h

\* So every node is the new one or was there,
LEMMA LastNode ==
  ASSUME NEW g, Formed(g), NEW op, NEW in
  PROVE  LET h == WithNode(g, op, in) IN
         /\ \A k \in NodeIds(h) :
              \/ k \in NodeIds(g) /\ h.nodes[k] = g.nodes[k]
              \/ h.nodes[k] = [op |-> op, in |-> in, out |-> g.next]
         /\ \E k \in NodeIds(h) : h.nodes[k] = [op |-> op, in |-> in, out |-> g.next]
<1> DEFINE h == WithNode(g, op, in)
           node == [op |-> op, in |-> in, out |-> g.next]
           m == Len(g.nodes)
<1>1. h.nodes = Append(g.nodes, node)
  BY NodeFields
<1> HIDE DEF h, node
<1>2. /\ m \in Nat /\ Len(h.nodes) = m + 1
      /\ \A k \in 1 .. m : h.nodes[k] = g.nodes[k]
      /\ h.nodes[m + 1] = node
  <2>1. IsList(g.nodes) /\ m \in Nat
    BY DEF Formed, IsList
  <2> QED BY <1>1, <2>1, ListAppend
<1> HIDE DEF m
<1>3. NodeIds(h) = 1 .. m + 1 /\ NodeIds(g) = 1 .. m
  BY <1>2 DEF NodeIds, m
<1>4. \A k \in NodeIds(h) : (k \in NodeIds(g) /\ h.nodes[k] = g.nodes[k]) \/ h.nodes[k] = node
  BY <1>2, <1>3
<1>5. m + 1 \in NodeIds(h)
  BY <1>2, <1>3
<1>6. \E k \in NodeIds(h) : h.nodes[k] = node
  BY <1>2, <1>5
<1> QED BY <1>4, <1>6 DEF h, node

\* and those there were stay, with the outputs.
LEMMA NodesStay ==
  ASSUME NEW g, Formed(g), NEW op, NEW in
  PROVE  /\ WithNode(g, op, in).outputs = g.outputs
         /\ \A k \in NodeIds(g) : /\ k \in NodeIds(WithNode(g, op, in))
                                  /\ WithNode(g, op, in).nodes[k] = g.nodes[k]
<1> DEFINE h == WithNode(g, op, in)
           node == [op |-> op, in |-> in, out |-> g.next]
           m == Len(g.nodes)
<1>1. h.nodes = Append(g.nodes, node) /\ h.outputs = g.outputs
  BY NodeFields
<1> HIDE DEF h, node
<1>2. m \in Nat /\ Len(h.nodes) = m + 1 /\ \A k \in 1 .. m : h.nodes[k] = g.nodes[k]
  <2>1. IsList(g.nodes) /\ m \in Nat
    BY DEF Formed, IsList
  <2> QED BY <1>1, <2>1, ListAppend
<1> HIDE DEF m
<1>3. NodeIds(h) = 1 .. m + 1 /\ NodeIds(g) = 1 .. m
  BY <1>2 DEF NodeIds, m
<1> QED BY <1>1, <1>2, <1>3 DEF h

\* An output is one of the values.
LEMMA FormedOutput ==
  ASSUME NEW g, Formed(g), NEW v \in Values(g)
  PROVE  LET h == WithOutput(g, v) IN
         /\ Formed(h)
         /\ h.nodes = g.nodes /\ h.inputs = g.inputs /\ h.shape = g.shape /\ h.next = g.next
<1> DEFINE h == WithOutput(g, v)
<1>1. h = [nodes |-> g.nodes, inputs |-> g.inputs, outputs |-> Append(g.outputs, v),
           next |-> g.next, shape |-> g.shape]
  BY BuildFields
<1> HIDE DEF h
<1>2. /\ h = [nodes |-> h.nodes, inputs |-> h.inputs, outputs |-> h.outputs,
              next |-> h.next, shape |-> h.shape]
      /\ h.nodes = g.nodes /\ h.inputs = g.inputs /\ h.outputs = Append(g.outputs, v)
      /\ h.shape = g.shape /\ h.next = g.next
  BY <1>1
<1>3. /\ IsList(h.outputs) /\ DOMAIN h.outputs = 1 .. Len(g.outputs) + 1
      /\ DOMAIN g.outputs = 1 .. Len(g.outputs) /\ Len(g.outputs) \in Nat
      /\ \A i \in 1 .. Len(g.outputs) : h.outputs[i] = g.outputs[i]
      /\ h.outputs[Len(g.outputs) + 1] = v
  BY <1>2, ListAppend DEF Formed, IsList
<1>4. Values(h) = Values(g) /\ NodeIds(h) = NodeIds(g)
  BY <1>2 DEF Values, NodeIds
<1>5. \A i \in DOMAIN h.outputs : h.outputs[i] \in Values(h)
  <2>1. \A i \in DOMAIN g.outputs : g.outputs[i] \in Values(g)
    BY DEF Formed, WellFormed
  <2> QED BY <1>3, <1>4, <2>1
<1>6. WellFormed(h)
  BY <1>2, <1>4, <1>5 DEF Formed, WellFormed
<1>7. Formed(h)
  BY <1>2, <1>3, <1>4, <1>6 DEF Formed
<1> QED BY <1>2, <1>7 DEF h

-----------------------------------------------------------------------------
(* Shapes                                                                   *)

\* There is only one remainder.
LEMMA ModUnique ==
  ASSUME NEW w \in Nat \ {0}, NEW c \in Int, NEW s \in 0 .. w - 1
  PROVE  (w * c + s) % w = s
<1> DEFINE z == w * c + s
           t == c - z \div w
<1>1. w * c \in Int /\ z \in Int
  OBVIOUS
<1>2. z \div w \in Int /\ z % w \in 0 .. w - 1 /\ z = w * (z \div w) + (z % w)
  <2> HIDE DEF z
  <2> QED BY <1>1
<1>3. t \in Int /\ w * t = (z % w) - s
  <2>1. w * t = w * c - w * (z \div w)
    BY <1>1, <1>2
  <2> QED BY <1>1, <1>2, <2>1
<1>4. t = 0
  <2> HIDE DEF t
  <2>1. ASSUME t >= 1 PROVE FALSE
    <3>1. w * t >= w
      BY <1>3, <2>1
    <3> QED BY <1>2, <1>3, <3>1
  <2>2. ASSUME t <= -1 PROVE FALSE
    <3>1. w * t <= -w
      BY <1>3, <2>2
    <3> QED BY <1>2, <1>3, <3>1
  <2> QED BY <1>3, <2>1, <2>2
<1>5. w * t = 0
  BY <1>4
<1> QED BY <1>2, <1>3, <1>5

\* It does not matter whether a factor was reduced before.
LEMMA ModTimes ==
  ASSUME NEW w \in Nat \ {0}, NEW x \in Nat, NEW y \in Nat
  PROVE  ((x % w) * y) % w = (x * y) % w
<1> DEFINE a == x \div w
           r == x % w
           v == r * y
           b == v \div w
           s == v % w
<1>1. a \in Int /\ r \in Nat /\ x = w * a + r
  OBVIOUS
<1> HIDE DEF a, r
<1>2. v \in Nat
  BY <1>1
<1>3. b \in Int /\ s \in 0 .. w - 1 /\ v = w * b + s
  <2> HIDE DEF v
  <2> QED BY <1>2
<1> HIDE DEF b, s
<1>4. x * y = w * (a * y + b) + s
  <2>1. x * y = (w * a) * y + v
    BY <1>1
  <2>2. (w * a) * y = w * (a * y)
    BY <1>1
  <2>3. w * (a * y) + w * b = w * (a * y + b)
    BY <1>1, <1>3
  <2>4. a * y \in Int /\ w * (a * y) \in Int /\ w * b \in Int /\ v \in Int
    BY <1>1, <1>2, <1>3
  <2> HIDE DEF v
  <2> QED BY <1>3, <2>1, <2>2, <2>3, <2>4
<1>5. a * y + b \in Int
  BY <1>1, <1>3
<1>6. (w * (a * y + b) + s) % w = s
  BY <1>3, <1>5, ModUnique
<1> QED BY <1>4, <1>6 DEF s, r

\* numElements() one dimension at a time.
LEMMA ElementsUnfold ==
  ASSUME NEW dims \in Seq(Nat)
  PROVE  /\ Elements(dims) = Modular!Repeated(dims, 1, Len(dims))
         /\ Modular!Repeated(dims, 1, 0) = 1
         /\ \A k \in Nat : Modular!Repeated(dims, 1, k + 1)
                             = (Modular!Repeated(dims, 1, k) * dims[k + 1]) % Wide
         /\ \A k \in 0 .. Len(dims) : Modular!Repeated(dims, 1, k) \in 0 .. Wide - 1
<1> DEFINE E(k) == Modular!Repeated(dims, 1, k)
           n == Len(dims)
           S == {k \in Nat : k <= n => E(k) \in 0 .. Wide - 1}
<1>1. Elements(dims) = E(n)
  BY DEF Elements, Modular!Repeated, ElementsStep
<1>2. E(0) = 1 /\ \A k \in Nat : E(k + 1) = (E(k) * dims[k + 1]) % Wide
  BY Modular!RepeatedUnfolds DEF ElementsStep
<1> HIDE DEF E
<1>3. 0 \in S
  <2>1. E(0) = 1
    BY <1>2
  <2>2. 1 \in 0 .. Wide - 1
    BY WideAssumption
  <2> QED BY <2>1, <2>2
<1>4. ASSUME NEW k \in Nat, k \in S PROVE k + 1 \in S
  <2> SUFFICES ASSUME k + 1 <= n PROVE E(k + 1) \in 0 .. Wide - 1
    OBVIOUS
  <2>1. E(k) \in Nat /\ dims[k + 1] \in Nat
    BY <1>4, WideAssumption
  <2>2. E(k) * dims[k + 1] \in Nat
    BY <2>1
  <2>3. (E(k) * dims[k + 1]) % Wide \in 0 .. Wide - 1
    <3> DEFINE y == E(k) * dims[k + 1]
    <3> HIDE DEF y
    <3>1. y % Wide \in 0 .. Wide - 1
      BY <2>2, WideAssumption DEF y
    <3> QED BY <3>1 DEF y
  <2> QED BY <1>2, <2>3
<1>5. Nat \subseteq S
  BY <1>3, <1>4, Modular!SetInduction
<1>6. \A k \in 0 .. n : E(k) \in 0 .. Wide - 1
  BY <1>5
<1> QED BY <1>1, <1>2, <1>6 DEF E

\* A dimension of one replaced by q: q times as many elements, modulo Wide.
LEMMA ElementsScaled ==
  ASSUME NEW known \in Seq(Nat), NEW m \in 1 .. Len(known), known[m] = 1, NEW q \in Nat
  PROVE  Elements([known EXCEPT ![m] = q]) = (q * Elements(known)) % Wide
<1> DEFINE dims == [known EXCEPT ![m] = q]
           n == Len(known)
           K(k) == Modular!Repeated(known, 1, k)
           R(k) == Modular!Repeated(dims, 1, k)
           P(k) == R(k) = IF k < m THEN K(k) ELSE (q * K(k)) % Wide
           S == {k \in Nat : k <= n => P(k)}
<1>1. /\ dims \in Seq(Nat) /\ Len(dims) = n /\ dims[m] = q
      /\ \A i \in 1 .. n : i # m => dims[i] = known[i]
  OBVIOUS
<1> HIDE DEF dims
<1>2. /\ Elements(known) = K(n) /\ K(0) = 1
      /\ \A k \in Nat : K(k + 1) = (K(k) * known[k + 1]) % Wide
      /\ \A k \in 0 .. n : K(k) \in 0 .. Wide - 1
  BY ElementsUnfold
<1>3. /\ Elements(dims) = R(n) /\ R(0) = 1
      /\ \A k \in Nat : R(k + 1) = (R(k) * dims[k + 1]) % Wide
  <2>1. /\ Elements(dims) = Modular!Repeated(dims, 1, Len(dims)) /\ R(0) = 1
        /\ \A k \in Nat : R(k + 1) = (R(k) * dims[k + 1]) % Wide
    BY <1>1, ElementsUnfold
  <2> QED BY <1>1, <2>1
<1> HIDE DEF K, R
<1>4. 0 \in S
  BY <1>2, <1>3
<1>5. ASSUME NEW k \in Nat, k \in S PROVE k + 1 \in S
  <2> SUFFICES ASSUME k + 1 <= n PROVE P(k + 1)
    OBVIOUS
  <2>1. /\ P(k) /\ K(k) \in Nat /\ K(k) < Wide /\ k + 1 \in 1 .. n
        /\ known[k + 1] \in Nat /\ Wide \in Nat \ {0}
    <3>1. k <= n /\ k \in 0 .. n /\ k + 1 \in 1 .. n
      BY n \in Nat
    <3>2. P(k)
      BY <1>5, <3>1
    <3>3. K(k) \in 0 .. Wide - 1 /\ Wide \in Nat \ {0}
      BY <1>2, <3>1, WideAssumption
    <3>4. known[k + 1] \in Nat
      BY <3>1
    <3> HIDE DEF P
    <3> QED BY <3>1, <3>2, <3>3, <3>4
  <2>2. R(k + 1) = (R(k) * dims[k + 1]) % Wide /\ K(k + 1) = (K(k) * known[k + 1]) % Wide
    BY <1>2, <1>3
  <2>3. CASE k + 1 < m
    <3>1. R(k) = K(k) /\ dims[k + 1] = known[k + 1]
      BY <1>1, <2>1, <2>3
    <3> QED BY <2>2, <2>3, <3>1
  <2>4. CASE k + 1 = m
    <3>1. R(k) = K(k)
      BY <2>1, <2>4
    <3>2. R(k + 1) = (K(k) * q) % Wide
      BY <1>1, <2>2, <2>4, <3>1
    <3>3. K(k + 1) = K(k)
      <4>1. K(k) * known[k + 1] = K(k)
        BY <2>1, <2>4
      <4>2. K(k) % Wide = K(k)
        BY <2>1, NoWrap
      <4> QED BY <2>2, <4>1, <4>2
    <3>4. K(k) * q = q * K(k)
      BY <2>1
    <3> QED BY <2>4, <3>2, <3>3, <3>4
  <2>5. CASE k + 1 > m
    <3> DEFINE d == known[k + 1]
    <3>1. R(k) = (q * K(k)) % Wide /\ dims[k + 1] = d
      BY <1>1, <2>1, <2>5
    <3>2. R(k + 1) = (((q * K(k)) % Wide) * d) % Wide
      BY <2>2, <3>1
    <3> HIDE DEF d
    <3>3. d \in Nat /\ K(k) \in Nat /\ q * K(k) \in Nat /\ K(k) * d \in Nat
      <4>1. d \in Nat /\ K(k) \in Nat
        BY <2>1 DEF d
      <4> QED BY <4>1
    <3>4. R(k + 1) = ((q * K(k)) * d) % Wide
      BY <2>1, <3>2, <3>3, ModTimes
    <3>5. (K(k + 1) * q) % Wide = ((K(k) * d) * q) % Wide
      <4>1. K(k + 1) = (K(k) * d) % Wide
        BY <2>2 DEF d
      <4>2. (((K(k) * d) % Wide) * q) % Wide = ((K(k) * d) * q) % Wide
        BY <2>1, <3>3, ModTimes
      <4> QED BY <4>1, <4>2
    <3>6. (q * K(k)) * d = (K(k) * d) * q
      BY <3>3
    <3>7. K(k + 1) * q = q * K(k + 1)
      <4>1. K(k + 1) \in Nat
        BY <1>2, <2>1, WideAssumption
      <4> QED BY <4>1
    <3>8. R(k + 1) = (q * K(k + 1)) % Wide
      BY <3>4, <3>5, <3>6, <3>7
    <3> QED BY <2>5, <3>8
  <2> QED BY <2>1, <2>3, <2>4, <2>5
<1>6. Nat \subseteq S
  BY <1>4, <1>5, Modular!SetInduction
<1>7. P(n)
  BY <1>6
<1> QED BY <1>2, <1>3, <1>7 DEF dims

\* A shape that resolveShape() accepts has as many elements as the input.
THEOREM ResolvedKeepsElements ==
  ASSUME NEW in \in Seq(Nat), NEW target \in Seq(Int), \A i \in DOMAIN target : target[i] >= -1,
         Resolved(in, target) # Throws
  PROVE  /\ Resolved(in, target) \in Seq(Nat)
         /\ Elements(Resolved(in, target)) = Elements(in)
<1> DEFINE n == Len(target)
           open == {i \in DOMAIN target : target[i] = -1}
           known == [i \in DOMAIN target |->
                       IF target[i] = 0 THEN in[i] ELSE IF target[i] = -1 THEN 1 ELSE target[i]]
           e == Elements(known)
           whole == Elements(in)
           dims == [i \in DOMAIN target |-> IF i \in open THEN whole \div e ELSE known[i]]
<1>1. /\ \A i \in DOMAIN target : target[i] = 0 => i <= Len(in)
      /\ ~ (Cardinality(open) > 1)
      /\ open = {} => e = whole
      /\ open # {} => e # 0 /\ whole % e = 0
      /\ Resolved(in, target) = dims
  BY DEF Resolved
<1>2. DOMAIN target = 1 .. n /\ n \in Nat /\ open \subseteq 1 .. n
  OBVIOUS
<1>3. known \in Seq(Nat) /\ Len(known) = n
  <2>1. ASSUME NEW i \in 1 .. n
        PROVE (IF target[i] = 0 THEN in[i] ELSE IF target[i] = -1 THEN 1 ELSE target[i]) \in Nat
    <3>1. target[i] \in Int /\ target[i] >= -1
      BY <1>2, <2>1
    <3>2. target[i] = 0 => i \in 1 .. Len(in) /\ in[i] \in Nat
      BY <1>1, <1>2
    <3> QED BY <3>1, <3>2
  <2>2. known = [i \in 1 .. n |-> known[i]] /\ \A i \in 1 .. n : known[i] \in Nat
    BY <1>2, <2>1
  <2> HIDE DEF known, n
  <2> QED BY SMTT(30), <1>2, <2>2
<1>4. \A i \in open : known[i] = 1
  OBVIOUS
<1> HIDE DEF known
<1>5. e \in 0 .. Wide - 1 /\ whole \in 0 .. Wide - 1
  <2>1. Len(known) \in 0 .. Len(known) /\ Len(in) \in 0 .. Len(in)
    BY <1>3
  <2> QED BY <1>3, <2>1, ElementsUnfold
<1> HIDE DEF e, whole
<1>6. CASE open = {}
  <2>1. dims = known
    BY <1>2, <1>3, <1>6
  <2> QED BY <1>1, <1>3, <1>6, <2>1 DEF e, whole
<1>7. CASE open # {}
  <2>1. PICK m : open = {m}
    <3>1. IsFiniteSet(open)
      <4>1. IsFiniteSet(1 .. n)
        BY <1>2, FS_Interval
      <4> HIDE DEF open
      <4> QED BY <1>2, <4>1, FS_Subset
    <3>2. Cardinality(open) \in Nat /\ Cardinality(open) # 0
      BY <1>7, <3>1, FS_CardinalityType, FS_EmptySet
    <3>3. Cardinality(open) = 1
      BY <1>1, <3>2
    <3> HIDE DEF open
    <3> QED BY <3>1, <3>3, FS_Singleton
  <2> DEFINE q == whole \div e
  <2>2. q \in Nat /\ q * e = whole
    <3>1. e \in Nat \ {0} /\ whole \in Nat /\ whole % e = 0
      BY <1>1, <1>5, <1>7, WideAssumption
    <3>2. whole = e * (whole \div e) + (whole % e) /\ whole \div e \in Nat
      BY <3>1
    <3> QED BY <3>1, <3>2
  <2> HIDE DEF q
  <2>3. m \in 1 .. Len(known) /\ known[m] = 1
    BY <1>2, <1>3, <1>4, <2>1
  <2>4. dims = [known EXCEPT ![m] = q]
    <3>1. \A i : i \in open <=> i = m
      BY <2>1
    <3>2. DOMAIN known = DOMAIN target
      BY <1>2, <1>3
    <3> HIDE DEF open
    <3>3. dims = [i \in DOMAIN target |-> IF i = m THEN q ELSE known[i]]
      BY <3>1 DEF q
    <3>4. [known EXCEPT ![m] = q] = [i \in DOMAIN known |-> IF i = m THEN q ELSE known[i]]
      BY <1>3
    <3> QED BY <3>2, <3>3, <3>4
  <2>5. Elements(dims) = whole
    <3>1. Elements([known EXCEPT ![m] = q]) = (q * e) % Wide
      BY <1>3, <2>2, <2>3, ElementsScaled DEF e
    <3>2. whole % Wide = whole
      <4>1. whole \in Nat /\ whole < Wide
        BY <1>5, WideAssumption
      <4> QED BY <4>1, NoWrap
    <3> QED BY <2>2, <2>4, <3>1, <3>2
  <2>6. dims \in Seq(Nat)
    BY SMTT(30), <1>3, <2>2, <2>3, <2>4
  <2> QED BY <1>1, <2>5, <2>6 DEF whole
<1> QED BY <1>6, <1>7

\* What the code has checked of an operator it makes.
WindowTyped(w) ==
  \A a \in 1 .. 2 : w.kernel[a] \in Nat /\ w.stride[a] \in Nat \ {0} /\ w.pad[a] \in Nat

\* An operator that inferOutputShape() can be asked about.
OpTyped(op) ==
  /\ op.name \in {"Conv2D", "Concat", "MaxPool2D", "AveragePool2D", "Dropout", "ReLU", "Reshape"}
  /\ op.name \in {"Conv2D", "MaxPool2D", "AveragePool2D"} => WindowTyped(op.window)
  /\ op.name = "Reshape" => op.target \in Seq(Int) /\ \A i \in DOMAIN op.target : op.target[i] >= -1

\* A remainder is a size_t.
LEMMA Remainder ==
  ASSUME NEW x \in Int
  PROVE  x % Wide \in Nat
BY WideAssumption

\* The window has a number of positions.
LEMMA SpatialTyped ==
  ASSUME NEW w, WindowTyped(w), NEW in \in Seq(Nat), Len(in) = 4
  PROVE  \E x, y \in Nat : Spatial(w, in) = <<x, y>>
<1>1. ASSUME NEW x \in Nat, NEW p \in Nat, NEW k \in Nat, NEW s \in Nat \ {0}
      PROVE  Windows(x, p, k, s) \in Nat
  <2>1. (x + 2 * p - k) % Wide \in Nat
    BY Remainder
  <2>2. ((x + 2 * p - k) % Wide) \div s \in Nat
    <3> DEFINE y == (x + 2 * p - k) % Wide
    <3> HIDE DEF y
    <3>1. y \div s \in Nat
      BY <2>1 DEF y
    <3> QED BY <3>1 DEF y
  <2>3. ((x + 2 * p - k) % Wide) \div s + 1 \in Int
    BY <2>2
  <2> QED BY <2>3, Remainder DEF Windows
<1>2. in[3] \in Nat /\ in[4] \in Nat
  <2>1. 3 \in 1 .. Len(in) /\ 4 \in 1 .. Len(in)
    OBVIOUS
  <2>2. in \in Seq(Nat)
    OBVIOUS
  <2> QED BY <2>1, <2>2, ElementOfSeq
<1> DEFINE x == Windows(in[3], w.pad[1], w.kernel[1], w.stride[1])
           y == Windows(in[4], w.pad[2], w.kernel[2], w.stride[2])
<1>3. x \in Nat /\ y \in Nat
  <2>1. /\ w.pad[1] \in Nat /\ w.kernel[1] \in Nat /\ w.stride[1] \in Nat \ {0}
        /\ w.pad[2] \in Nat /\ w.kernel[2] \in Nat /\ w.stride[2] \in Nat \ {0}
    BY DEF WindowTyped
  <2> QED BY <1>1, <1>2, <2>1
<1>4. Spatial(w, in) = <<x, y>>
  BY DEF Spatial
<1> QED BY <1>3, <1>4

\* A quotient is where the multiples of the divisor reach the dividend.
LEMMA QuotientBound ==
  ASSUME NEW d \in Nat, NEW s \in Nat \ {0}
  PROVE  /\ d \div s \in 0 .. d
         /\ \A o \in Nat : o * s <= d <=> o <= d \div s
<1> DEFINE q == d \div s
           r == d % s
<1>1. q \in Nat /\ r \in 0 .. s - 1 /\ d = s * q + r
  OBVIOUS
<1> HIDE DEF q, r
<1>2. q * s <= d /\ d < (q + 1) * s
  BY <1>1
<1>3. q <= q * s
  <2>1. q * (s - 1) \in Nat
    BY <1>1
  <2>2. q * s = q + q * (s - 1)
    BY <1>1
  <2> QED BY <1>1, <2>1, <2>2
<1>4. q \in 0 .. d
  <2> DEFINE t == q * s
  <2> HIDE DEF t
  <2>1. t \in Int /\ q <= t /\ t <= d
    BY <1>1, <1>2, <1>3 DEF t
  <2> QED BY <1>1, <2>1
<1>5. ASSUME NEW o \in Nat
      PROVE  o * s <= d <=> o <= q
  <2>1. CASE o <= q
    <3>1. (q - o) * s \in Nat
      BY <1>1, <2>1
    <3>2. q * s = o * s + (q - o) * s
      BY <1>1
    <3> QED BY <1>1, <1>2, <2>1, <3>1, <3>2
  <2>2. CASE o >= q + 1
    <3>1. (o - (q + 1)) * s \in Nat
      BY <1>1, <2>2
    <3>2. o * s = (q + 1) * s + (o - (q + 1)) * s
      BY <1>1
    <3> QED BY <1>1, <1>2, <2>2, <3>1, <3>2
  <2> QED BY <1>1, <2>1, <2>2
<1> QED BY <1>4, <1>5 DEF q

\* The positions of a window are counted where it fits.  Where it does not, the
\* difference wraps around to a number of positions that no dimension can be.
LEMMA WindowsCounted ==
  ASSUME NEW x \in 1 .. MaxDim, NEW p \in 0 .. MaxDim, NEW k \in 1 .. MaxDim, NEW s \in 1 .. MaxDim
  PROVE  /\ k <= x + 2 * p =>
              Windows(x, p, k, s) = Cardinality({o \in 0 .. x + 2 * p : o * s + k <= x + 2 * p})
         /\ k > x + 2 * p => Windows(x, p, k, s) \notin 1 .. MaxDim
<1> DEFINE m == MaxDim
           d == x + 2 * p - k
<1>1. /\ m \in Nat /\ Wide \in Nat /\ m * (m + 1) <= Wide /\ 3 * m < Wide
      /\ x \in 1 .. m /\ p \in 0 .. m /\ k \in 1 .. m /\ s \in 1 .. m
  BY FormatAssumption, WideAssumption
<1>2. d \in Int /\ d <= 3 * m - 1 /\ d >= 1 - m
  <2> HIDE DEF m
  <2> QED BY <1>1
<1>3. Windows(x, p, k, s) = ((d % Wide) \div s + 1) % Wide
  BY DEF Windows
<1> HIDE DEF m
<1>4. ASSUME d >= 0
      PROVE  ((d % Wide) \div s + 1) % Wide = Cardinality({o \in 0 .. x + 2 * p : o * s + k <= x + 2 * p})
  <2>1. d % Wide = d
    <3> HIDE DEF d
    <3> QED BY <1>1, <1>2, <1>4
  <2>2. /\ d \div s \in 0 .. d
        /\ \A o \in Nat : o * s <= d <=> o <= d \div s
    <3>1. d \in Nat /\ s \in Nat \ {0}
      BY <1>1, <1>2, <1>4
    <3> HIDE DEF d
    <3> QED BY <3>1, QuotientBound
  <2> DEFINE q == d \div s
  <2> HIDE DEF q
  <2>3. (q + 1) % Wide = q + 1
    <3>1. q + 1 \in Nat /\ q + 1 < Wide
      BY <1>1, <1>2, <2>2 DEF q
    <3> QED BY <1>1, <3>1
  <2>4. {o \in 0 .. x + 2 * p : o * s + k <= x + 2 * p} = 0 .. q
    <3>1. \A o \in Nat : o * s \in Int
      BY <1>1
    <3>2. \A o \in Nat : o * s + k <= x + 2 * p <=> o <= q
      <4> TAKE o \in Nat
      <4> DEFINE t == o * s
      <4>1. t \in Int /\ (t <= d <=> o <= q)
        BY <2>2, <3>1 DEF q
      <4> HIDE DEF t
      <4>2. t + k <= x + 2 * p <=> o <= q
        BY <1>1, <4>1
      <4> QED BY <4>2 DEF t
    <3>3. q \in Nat /\ q <= x + 2 * p
      BY <1>1, <2>2 DEF q
    <3>4. \A o \in 0 .. x + 2 * p : o \in Nat
      BY <1>1
    <3>5. \A o \in 0 .. q : o \in 0 .. x + 2 * p /\ o \in Nat /\ o <= q
      BY <1>1, <3>3
    <3>6. \A o \in Nat : o <= q => o \in 0 .. q
      BY <3>3
    <3> QED BY <3>2, <3>4, <3>5, <3>6
  <2>5. Cardinality(0 .. q) = q + 1
    <3>1. q \in Int /\ q >= 0 /\ 0 \in Int
      BY <2>2 DEF q
    <3>2. Cardinality(0 .. q) = IF 0 > q THEN 0 ELSE q - 0 + 1
      BY <3>1, FS_Interval
    <3> QED BY <3>1, <3>2
  <2> QED BY <2>1, <2>3, <2>4, <2>5 DEF q
<1>5. ASSUME d < 0
      PROVE  ((d % Wide) \div s + 1) % Wide \notin 1 .. m
  <2> DEFINE e == Wide + d
             q == e \div s
  <2>1. d % Wide = e /\ e \in Nat /\ e < Wide /\ e > m * m
    <3> HIDE DEF d
    <3>1. m * (m + 1) = m * m + m /\ m * m \in Nat
      BY <1>1
    <3> DEFINE mm == m * m
    <3> HIDE DEF mm
    <3>2. mm + m <= Wide /\ mm \in Nat
      BY <1>1, <3>1 DEF mm
    <3>3. e \in Nat /\ e < Wide /\ e > mm
      BY <1>1, <1>2, <1>5, <3>2
    <3>4. d % Wide = e
      BY <1>1, <1>2, <1>5, <3>3
    <3> QED BY <3>3, <3>4 DEF mm
  <2> HIDE DEF e
  <2>2. /\ q \in 0 .. e
        /\ \A o \in Nat : o * s <= e <=> o <= q
    BY <1>1, <2>1, QuotientBound
  <2> HIDE DEF q
  <2>3. m <= q
    <3>1. m * s <= m * m
      <4>1. m * (m - s) \in Nat /\ m * m = m * s + m * (m - s)
        BY <1>1
      <4> QED BY <1>1, <4>1
    <3>2. m * s <= e
      <4> DEFINE y == m * s
                 z == m * m
      <4>1. y \in Int /\ z \in Int /\ y <= z /\ z < e /\ e \in Int
        BY <1>1, <2>1, <3>1
      <4> HIDE DEF y, z
      <4>2. y <= e
        BY <4>1
      <4> QED BY <4>2 DEF y
    <3> QED BY <1>1, <2>2, <3>2
  <2>4. q + 1 <= Wide /\ q \in Nat
    BY <1>1, <2>1, <2>2
  <2>5. CASE q + 1 = Wide
    <3>1. (q + 1) % Wide = 0
      BY <1>1, <2>5
    <3> QED BY <1>1, <2>1, <3>1 DEF q
  <2>6. CASE q + 1 < Wide
    <3>1. (q + 1) % Wide = q + 1
      BY <1>1, <2>4, <2>6
    <3>2. q + 1 > m
      BY <1>1, <2>3, <2>4
    <3>3. q + 1 \notin 1 .. m
      BY <1>1, <2>4, <3>2
    <3> QED BY <2>1, <3>1, <3>3 DEF q
  <2> QED BY <1>1, <2>4, <2>5, <2>6
<1>6. /\ k <= x + 2 * p => d >= 0
      /\ k > x + 2 * p => d < 0
  BY <1>1
<1> QED BY <1>3, <1>4, <1>5, <1>6 DEF m

\* A count of windows that a shape can hold is the number of windows that fit.
LEMMA WindowsFitted ==
  ASSUME NEW x \in 1 .. MaxDim, NEW p \in 0 .. MaxDim, NEW k \in 1 .. MaxDim, NEW s \in 1 .. MaxDim,
         NEW v, v = Windows(x, p, k, s), k <= x + 2 * p \/ v \in 1 .. MaxDim
  PROVE  v = Cardinality({o \in 0 .. x + 2 * p : o * s + k <= x + 2 * p})
<1>1. k <= x + 2 * p
  <2>1. x \in Int /\ p \in Int /\ k \in Int
    BY FormatAssumption
  <2>2. k > x + 2 * p => v \notin 1 .. MaxDim
    BY WindowsCounted
  <2> QED BY ONLY <2>1, <2>2, k <= x + 2 * p \/ v \in 1 .. MaxDim
<1> QED BY <1>1, WindowsCounted

\* The sizes along the axis that is concatenated, added up.
TotalStep(p, i, x) == IF i = 1 THEN p.in[1][p.d] ELSE (x + p.in[i][p.d]) % Wide

\* The sum of the first i sizes, as a repetition of that step.
Totals == INSTANCE Repetition WITH Step <- TotalStep

Total(in, d) ==
  LET total[i \in DOMAIN in] == IF i = 1 THEN in[1][d] ELSE (total[i - 1] + in[i][d]) % Wide
  IN total[Len(in)]

\* Their sum is a size_t.
LEMMA TotalTyped ==
  ASSUME NEW n \in Nat \ {0}, NEW in, DOMAIN in = 1 .. n, Len(in) = n, NEW d,
         \A i \in 1 .. n : in[i][d] \in Nat
  PROVE  Total(in, d) \in Nat
<1> DEFINE Sums(f) == f = [i \in DOMAIN in |-> IF i = 1 THEN in[1][d] ELSE (f[i - 1] + in[i][d]) % Wide]
           total == CHOOSE f : Sums(f)
           p == [in |-> in, d |-> d]
           g == [i \in 1 .. n |-> Totals!Repeated(p, 0, i)]
<1>1. Sums(g)
  <2>1. \A k \in Nat : Totals!Repeated(p, 0, k + 1) = TotalStep(p, k + 1, Totals!Repeated(p, 0, k))
    BY Totals!RepeatedUnfolds
  <2>2. ASSUME NEW i \in 1 .. n
        PROVE  g[i] = IF i = 1 THEN in[1][d] ELSE (g[i - 1] + in[i][d]) % Wide
    <3>1. i - 1 \in Nat /\ (i - 1) + 1 = i
      OBVIOUS
    <3>2. g[i] = TotalStep(p, i, Totals!Repeated(p, 0, i - 1))
      BY <2>1, <3>1
    <3>3. i # 1 => g[i - 1] = Totals!Repeated(p, 0, i - 1)
      BY <3>1
    <3>4. g[i] = IF i = 1 THEN in[1][d] ELSE (Totals!Repeated(p, 0, i - 1) + in[i][d]) % Wide
      BY <3>2 DEF TotalStep
    <3> HIDE DEF g
    <3> QED BY <3>3, <3>4
  <2>3. g = [i \in 1 .. n |-> g[i]]
    OBVIOUS
  <2> HIDE DEF g
  <2> QED BY <2>2, <2>3
<1>2. Sums(total)
  BY <1>1
<1> HIDE DEF total
<1>3. total[1] = in[1][d] /\ \A i \in 2 .. n : total[i] = (total[i - 1] + in[i][d]) % Wide
  <2>1. \A i \in 1 .. n : total[i] = IF i = 1 THEN in[1][d] ELSE (total[i - 1] + in[i][d]) % Wide
    BY <1>2
  <2> HIDE DEF Sums
  <2>2. 1 \in 1 .. n /\ \A i \in 2 .. n : i \in 1 .. n /\ i # 1
    OBVIOUS
  <2> QED BY <2>1, <2>2
<1> HIDE DEF Sums
<1> DEFINE S == {k \in Nat : k + 1 <= n => total[k + 1] \in Nat}
<1>4. 0 \in S
  BY <1>3
<1>5. ASSUME NEW k \in Nat, k \in S PROVE k + 1 \in S
  <2> SUFFICES ASSUME (k + 1) + 1 <= n PROVE total[(k + 1) + 1] \in Nat
    OBVIOUS
  <2>1. total[k + 1] \in Nat
    BY <1>5
  <2>2. k + 2 \in 2 .. n /\ (k + 2) - 1 = k + 1 /\ (k + 1) + 1 = k + 2 /\ in[k + 2][d] \in Nat
    OBVIOUS
  <2>3. total[k + 2] = (total[k + 1] + in[k + 2][d]) % Wide
    BY <1>3, <2>2
  <2>4. total[k + 1] + in[k + 2][d] \in Int
    BY <2>1, <2>2
  <2> QED BY <2>2, <2>3, <2>4, Remainder
<1>6. Nat \subseteq S
  BY <1>4, <1>5, Totals!SetInduction
<1>7. total[n] \in Nat
  <2>1. n - 1 \in Nat /\ (n - 1) + 1 = n
    OBVIOUS
  <2>2. n - 1 \in S
    BY <1>6, <2>1
  <2> QED BY <2>1, <2>2
<1> QED BY <1>7 DEF Total, total, Sums

\* Shapes of the supported operators are made of size_t.
LEMMA InferTyped ==
  ASSUME NEW op, OpTyped(op), NEW in, IsList(in), \A i \in DOMAIN in : in[i] \in Seq(Nat),
         InferOutputShape(op, in) # Throws
  PROVE  InferOutputShape(op, in) \in Seq(Nat)
<1>1. DOMAIN in = 1 .. Len(in) /\ Len(in) \in Nat
  BY DEF IsList
<1>2. CASE op.name = "Conv2D"
  <2>1. /\ InferOutputShape(op, in) = <<in[1][1], in[2][1]>> \o Spatial(op.window, in[1])
        /\ Len(in) \in {2, 3} /\ Len(in[1]) = 4 /\ Len(in[2]) = 4
    BY <1>2 DEF InferOutputShape, Convolved
  <2>2. in[1] \in Seq(Nat) /\ in[2] \in Seq(Nat) /\ WindowTyped(op.window)
    BY <1>1, <1>2, <2>1 DEF OpTyped
  <2>3. PICK x \in Nat, y \in Nat : Spatial(op.window, in[1]) = <<x, y>>
    BY <2>1, <2>2, SpatialTyped
  <2>4. in[1][1] \in Nat /\ in[2][1] \in Nat
    BY <2>1, <2>2
  <2> QED BY <2>1, <2>3, <2>4
<1>3. CASE op.name \in {"MaxPool2D", "AveragePool2D"}
  <2>1. /\ InferOutputShape(op, in) = <<in[1][1], in[1][2]>> \o Spatial(op.window, in[1])
        /\ Len(in) = 1 /\ Len(in[1]) = 4
    BY <1>3 DEF InferOutputShape, Pooled
  <2>2. in[1] \in Seq(Nat) /\ WindowTyped(op.window)
    BY <1>1, <1>3, <2>1 DEF OpTyped
  <2>3. PICK x \in Nat, y \in Nat : Spatial(op.window, in[1]) = <<x, y>>
    BY <2>1, <2>2, SpatialTyped
  <2>4. in[1][1] \in Nat /\ in[1][2] \in Nat
    BY <2>1, <2>2
  <2> QED BY <2>1, <2>3, <2>4
<1>4. CASE op.name = "Concat"
  <2> DEFINE d == op.axis + 1
  <2>1. InferOutputShape(op, in) = Concatenated(op, in)
    BY <1>4 DEF InferOutputShape
  <2>2. /\ Concatenated(op, in) = [in[1] EXCEPT ![d] = Total(in, d)]
        /\ Len(in) >= 2 /\ \A i \in DOMAIN in : Len(in[i]) = Len(in[1])
        /\ d \in 1 .. Len(in[1])
    BY <2>1 DEF Concatenated, Total
  <2> HIDE DEF d
  <2>3. \A i \in 1 .. Len(in) : in[i][d] \in Nat
    <3> SUFFICES ASSUME NEW i \in 1 .. Len(in) PROVE in[i][d] \in Nat
      OBVIOUS
    <3>1. in[i] \in Seq(Nat) /\ d \in 1 .. Len(in[i])
      BY <1>1, <2>2
    <3> QED BY <3>1
  <2>4. Total(in, d) \in Nat
    <3> DEFINE n == Len(in)
    <3>1. n \in Nat \ {0} /\ DOMAIN in = 1 .. n /\ Len(in) = n /\ \A i \in 1 .. n : in[i][d] \in Nat
      BY <1>1, <2>2, <2>3
    <3> HIDE DEF n
    <3> QED BY <3>1, TotalTyped
  <2>5. in[1] \in Seq(Nat)
    BY <1>1, <2>2
  <2> QED BY <2>1, <2>2, <2>4, <2>5
<1>5. CASE op.name = "Reshape"
  <2>1. Len(in) = 1 /\ InferOutputShape(op, in) = Resolved(in[1], op.target)
    BY <1>5 DEF InferOutputShape
  <2>2. in[1] \in Seq(Nat)
    BY <1>1, <2>1
  <2> QED BY <1>5, <2>1, <2>2, ResolvedKeepsElements DEF OpTyped
<1>6. CASE op.name \in {"Dropout", "ReLU"}
  <2>1. Len(in) = 1 /\ InferOutputShape(op, in) = in[1]
    BY <1>6 DEF InferOutputShape
  <2> QED BY <1>1, <2>1
<1> QED BY <1>2, <1>3, <1>4, <1>5, <1>6 DEF OpTyped

-----------------------------------------------------------------------------
(* The invariant                                                            *)

Phases == {"opened", "reading", "rejected", "parsed", "inputs", "inits", "nodes",
           "outputs", "built", "refused", "imported", "ran"}

\* The names of the first k inputs and initializers.
InputNames(m, k) == {m.inputs[i].name : i \in 1 .. k}
InitialNames(m, k) == {m.inits[i].desc.name : i \in 1 .. k}

\* How many names of inputs are known.
InputsKnown == Cardinality(Members(Names(model.inputs)) \cap DOMAIN ids)

Known == DOMAIN ids \cup DOMAIN constants

\* Names stand for values or for constants, every value is that of a name.
ImportTyped ==
  /\ status \in Phases
  /\ Parsed => Valid(model)
  /\ at \in Nat
  /\ Formed(gr)
  /\ IsFiniteSet(DOMAIN ids)
  /\ \A x \in DOMAIN ids : ids[x] \in Values(gr)
  /\ DOMAIN ids \cap DOMAIN constants = {}
  /\ \A x \in DOMAIN constants : \A i \in DOMAIN constants[x] : constants[x][i] \in Sint
  /\ IsList(weights)
  /\ Len(gr.inputs) = Len(weights) + InputsKnown
  /\ status = "inputs" => InputsKnown = at

\* The names known are those of what was imported so far.
KnownInv ==
  /\ status \in {"opened", "reading", "rejected", "parsed"} => at = 0 /\ Known = {}
  /\ status = "inputs" => Known = InputNames(model, at)
  /\ status = "inits" =>
       Known = InputNames(model, Len(model.inputs)) \cup InitialNames(model, at)
  /\ status = "nodes" => Known = DefinedBefore(model, at + 1)
  /\ status \in {"outputs", "built", "imported", "ran"} =>
       Known = DefinedBefore(model, Len(model.nodes) + 1)

\* The value of node k has the shape that the file gives for it.
NodeShaped(k) ==
  LET out == model.nodes[k].out IN
  /\ Len(out) = 1 /\ out[1] \in DOMAIN ids
  /\ Declared(model.vinf, out[1], gr.shape[ids[out[1]]])

\* So has output k.
OutputShaped(k) ==
  LET d == model.outputs[k] IN
  d.name \in DOMAIN ids /\ gr.shape[ids[d.name]] = d.dims

ShapedInv ==
  /\ status = "nodes" => \A k \in 1 .. at : NodeShaped(k)
  /\ status \in {"outputs", "built", "imported", "ran"} =>
       \A k \in 1 .. Len(model.nodes) : NodeShaped(k)
  /\ status = "outputs" => \A k \in 1 .. at : OutputShaped(k)
  /\ status \in {"built", "imported", "ran"} =>
       \A k \in 1 .. Len(model.outputs) : OutputShaped(k)

ImportInv == ReaderInv /\ ImportTyped /\ KnownInv /\ ShapedInv

-----------------------------------------------------------------------------
(* Names                                                                    *)

\* What validateGraph() and the reader established of the lists of names.
LEMMA ValidNames ==
  ASSUME WellRead(model), Valid(model)
  PROVE  /\ DOMAIN model.inputs = 1 .. Len(model.inputs) /\ Len(model.inputs) \in Nat
         /\ DOMAIN model.inits = 1 .. Len(model.inits) /\ Len(model.inits) \in Nat
         /\ DOMAIN model.nodes = 1 .. Len(model.nodes) /\ Len(model.nodes) \in Nat
         /\ DOMAIN model.outputs = 1 .. Len(model.outputs) /\ Len(model.outputs) \in Nat
         /\ \A i, j \in 1 .. Len(model.inputs) :
              i # j => model.inputs[i].name # model.inputs[j].name
         /\ \A i, j \in 1 .. Len(model.inits) :
              i # j => model.inits[i].desc.name # model.inits[j].desc.name
         /\ \A i \in 1 .. Len(model.inputs), j \in 1 .. Len(model.inits) :
              model.inputs[i].name # model.inits[j].desc.name
         /\ Members(Names(model.inputs)) = InputNames(model, Len(model.inputs))
         /\ Members(InitNames(model)) = InitialNames(model, Len(model.inits))
<1>1. /\ DOMAIN model.inputs = 1 .. Len(model.inputs) /\ Len(model.inputs) \in Nat
      /\ DOMAIN model.inits = 1 .. Len(model.inits) /\ Len(model.inits) \in Nat
      /\ DOMAIN model.nodes = 1 .. Len(model.nodes) /\ Len(model.nodes) \in Nat
      /\ DOMAIN model.outputs = 1 .. Len(model.outputs) /\ Len(model.outputs) \in Nat
  BY DEF WellRead, IsList
<1>2. \A i, j \in DOMAIN model.inputs : i # j => model.inputs[i].name # model.inputs[j].name
  BY DEF Valid, Distinct, Names
<1>3. \A i, j \in DOMAIN model.inits :
        i # j => model.inits[i].desc.name # model.inits[j].desc.name
  BY DEF Valid, Distinct, InitNames
<1>4. /\ Members(Names(model.inputs)) = {model.inputs[i].name : i \in DOMAIN model.inputs}
      /\ Members(InitNames(model)) = {model.inits[i].desc.name : i \in DOMAIN model.inits}
  BY DEF Members, Names, InitNames
<1>5. Members(InitNames(model)) \cap Members(Names(model.inputs)) = {}
  BY DEF Valid
<1>6. \A i \in DOMAIN model.inputs, j \in DOMAIN model.inits :
        model.inputs[i].name # model.inits[j].desc.name
  BY <1>4, <1>5
<1> QED BY <1>1, <1>2, <1>3, <1>4, <1>6 DEF InputNames, InitialNames

\* One more name.
LEMMA NamesGrow ==
  ASSUME NEW k \in Nat
  PROVE  /\ InputNames(model, k + 1) = InputNames(model, k) \cup {model.inputs[k + 1].name}
         /\ InitialNames(model, k + 1) = InitialNames(model, k) \cup {model.inits[k + 1].desc.name}
         /\ InputNames(model, 0) = {} /\ InitialNames(model, 0) = {}
<1>1. 1 .. k + 1 = 1 .. k \cup {k + 1} /\ 1 .. 0 = {}
  OBVIOUS
<1> QED BY <1>1 DEF InputNames, InitialNames

\* The outputs of one more node.
LEMMA DefinedGrows ==
  ASSUME NEW k \in Nat
  PROVE  /\ DefinedBefore(model, k + 2) = DefinedBefore(model, k + 1) \cup Members(model.nodes[k + 1].out)
         /\ DefinedBefore(model, 1) = Members(Names(model.inputs)) \cup Members(InitNames(model))
<1> DEFINE out(j) == Members(model.nodes[j].out)
<1>1. /\ 1 .. (k + 2) - 1 = 1 .. (k + 1) - 1 \cup {k + 1}
      /\ 1 .. 1 - 1 = {}
  OBVIOUS
<1>2. /\ DefinedBefore(model, k + 2) = Members(Names(model.inputs)) \cup Members(InitNames(model))
                                         \cup UNION {out(j) : j \in 1 .. (k + 2) - 1}
      /\ DefinedBefore(model, k + 1) = Members(Names(model.inputs)) \cup Members(InitNames(model))
                                         \cup UNION {out(j) : j \in 1 .. (k + 1) - 1}
      /\ DefinedBefore(model, 1) = Members(Names(model.inputs)) \cup Members(InitNames(model))
                                         \cup UNION {out(j) : j \in 1 .. 1 - 1}
  BY DEF DefinedBefore
<1> HIDE DEF out
<1>3. UNION {out(j) : j \in 1 .. (k + 2) - 1} = (UNION {out(j) : j \in 1 .. (k + 1) - 1}) \cup out(k + 1)
  BY <1>1
<1>4. UNION {out(j) : j \in 1 .. 1 - 1} = {}
  BY <1>1
<1> QED BY <1>2, <1>3, <1>4 DEF out

\* A name of an input that was not known is one more.
LEMMA InputCounted ==
  ASSUME IsFiniteSet(DOMAIN ids), NEW x, x \notin DOMAIN ids,
         x \in Members(Names(model.inputs)), model' = model, DOMAIN ids' = DOMAIN ids \cup {x}
  PROVE  InputsKnown' = InputsKnown + 1
<1> DEFINE S == Members(Names(model.inputs)) \cap DOMAIN ids
<1>1. IsFiniteSet(S) /\ x \notin S
  BY FS_Subset
<1>2. Members(Names(model'.inputs)) \cap DOMAIN ids' = S \cup {x}
  OBVIOUS
<1>3. InputsKnown' = Cardinality(S \cup {x}) /\ InputsKnown = Cardinality(S)
  BY <1>2 DEF InputsKnown
<1> HIDE DEF S
<1>4. Cardinality(S \cup {x}) = Cardinality(S) + 1
  BY <1>1, FS_AddElement
<1> QED BY <1>3, <1>4

\* Another name is none.
LEMMA InputNotCounted ==
  ASSUME NEW x, x \notin Members(Names(model.inputs)), model' = model,
         DOMAIN ids' \subseteq DOMAIN ids \cup {x}, DOMAIN ids \subseteq DOMAIN ids'
  PROVE  InputsKnown' = InputsKnown
<1>1. Members(Names(model'.inputs)) \cap DOMAIN ids' = Members(Names(model.inputs)) \cap DOMAIN ids
  OBVIOUS
<1> QED BY <1>1 DEF InputsKnown

\* A signed 64-bit number is one.
LEMMA SignedInSint ==
  ASSUME NEW v \in 0 .. Wide - 1
  PROVE  Signed(v) \in Sint
<1> DEFINE h == Wide \div 2
<1>1. Wide \in Nat /\ h \in Nat /\ Wide = 2 * h
  BY WideAssumption
<1> HIDE DEF h
<1>2. -h <= (IF v >= h THEN v - Wide ELSE v) /\ (IF v >= h THEN v - Wide ELSE v) <= h - 1
  BY <1>1
<1>3. (IF v >= h THEN v - Wide ELSE v) \in -h .. h - 1
  BY <1>1, <1>2
<1> QED BY <1>3 DEF Signed, Sint, h

\* Every supported operator has one output.
LEMMA OneOutput ==
  ASSUME NEW n, NEW sh, NEW held, Supported(n), Buildable(n, sh, held)
  PROVE  Len(n.out) = 1
<1>1. Spelt(n.op) \in {"Conv", "Relu", "Concat", "MaxPool", "AveragePool", "Dropout", "Reshape"}
  BY DEF Supported, AllowedAttrs
<1>2. Arity(n, 2, 3) \/ Arity(n, 2, Len(n.in)) \/ Arity(n, 1, 1) \/ Arity(n, 2, 2)
  BY <1>1 DEF Buildable
<1> QED BY <1>2 DEF Arity

-----------------------------------------------------------------------------
(* Steps that build nothing                                                 *)

\* The graph and the names are as they were.
Unbuilt == UNCHANGED <<model, gr, ids, constants, weights>>

\* A step to another phase keeps what names stand for.
LEMMA TypedKept ==
  ASSUME ImportTyped, Unbuilt, Parsed, status' \in Phases, at' \in Nat,
         status' = "inputs" => InputsKnown = at'
  PROVE  ImportTyped'
<1>1. /\ gr' = gr /\ ids' = ids /\ constants' = constants /\ weights' = weights /\ model' = model
      /\ InputsKnown' = InputsKnown
  BY DEF Unbuilt, InputsKnown
<1> QED BY <1>1 DEF ImportTyped, Parsed

\* What is refused keeps no promise but what names stand for.
LEMMA Refusal ==
  ASSUME ImportTyped, Unbuilt, Parsed, at' = at, status' = "refused"
  PROVE  ImportTyped' /\ KnownInv' /\ ShapedInv'
<1>1. ImportTyped'
  BY TypedKept DEF ImportTyped, Phases
<1> QED BY <1>1 DEF KnownInv, ShapedInv

\* With no names, no input is known.
LEMMA NoneKnown ==
  ASSUME Known = {}
  PROVE  DOMAIN ids = {} /\ DOMAIN constants = {} /\ InputsKnown = 0
<1>1. DOMAIN ids = {} /\ DOMAIN constants = {}
  BY DEF Known
<1>2. Members(Names(model.inputs)) \cap DOMAIN ids = {}
  BY <1>1
<1> QED BY <1>1, <1>2, FS_EmptySet DEF InputsKnown

\* An importer that has not begun.
LEMMA ImportInitInv == Init => ImportTyped /\ KnownInv /\ ShapedInv
<1> SUFFICES ASSUME Init PROVE ImportTyped /\ KnownInv /\ ShapedInv
  OBVIOUS
<1>1. /\ status = "opened" /\ gr = NoGraph /\ ids = [x \in {} |-> 0] /\ at = 0
      /\ constants = [x \in {} |-> <<>>] /\ weights = <<>>
  BY DEF Init, ReaderInit
<1>2. Known = {} /\ DOMAIN ids = {} /\ DOMAIN constants = {} /\ InputsKnown = 0
  <2>1. Known = {}
    BY <1>1 DEF Known
  <2> QED BY <2>1, NoneKnown
<1>3. IsList(weights) /\ Len(weights) = 0 /\ Len(gr.inputs) = 0
  BY <1>1 DEF IsList, NoGraph
<1>4. ImportTyped
  BY <1>1, <1>2, <1>3, FormedEmpty, FS_EmptySet DEF ImportTyped, Phases, Parsed
<1> QED BY <1>1, <1>2, <1>4 DEF KnownInv, ShapedInv

\* While parse() reads, nothing is imported.
LEMMA ReadingStep ==
  ASSUME ImportTyped, KnownInv, ReaderNext, UNCHANGED importVars
  PROVE  ImportTyped' /\ KnownInv' /\ ShapedInv'
<1>1. /\ status \in {"opened", "reading"}
      /\ status' \in {"reading", "rejected", "parsed"}
      /\ status' = "parsed" => Valid(model) /\ model' = model
  BY DEF ReaderNext, ReadHeader, ReadSection, ValidateGraph
<1>2. /\ gr' = gr /\ ids' = ids /\ constants' = constants /\ weights' = weights /\ at' = at
  BY DEF importVars
<1>3. Known = {} /\ at = 0 /\ Known' = Known
  BY <1>1, <1>2 DEF KnownInv, Known
<1>4. InputsKnown = 0 /\ InputsKnown' = 0
  <2>1. Members(Names(model'.inputs)) \cap DOMAIN ids' = {}
    BY <1>2, <1>3, NoneKnown
  <2> QED BY <1>3, <2>1, NoneKnown, FS_EmptySet DEF InputsKnown
<1>5. (Parsed => Valid(model))'
  BY <1>1 DEF Parsed
<1>6. ImportTyped'
  BY <1>1, <1>2, <1>4, <1>5 DEF ImportTyped, Phases
<1> QED BY <1>1, <1>2, <1>3, <1>6 DEF KnownInv, ShapedInv

\* The import begins with no names, if the opset is the supported one.
LEMMA OpsetStep ==
  ASSUME ImportTyped, KnownInv, CheckOpset
  PROVE  ImportTyped' /\ KnownInv' /\ ShapedInv'
<1>1. /\ status = "parsed" /\ status' \in {"inputs", "refused"} /\ Unbuilt /\ at' = at /\ Parsed
  BY DEF CheckOpset, importVars, Unbuilt, Parsed
<1>2. Known = {} /\ at = 0
  BY <1>1 DEF KnownInv
<1>3. CASE status' = "refused"
  BY <1>1, <1>3, Refusal
<1>4. CASE status' = "inputs"
  <2>1. ImportTyped'
    BY <1>1, <1>2, <1>4, TypedKept, NoneKnown DEF Phases
  <2>2. Known' = {} /\ InputNames(model, 0) = {} /\ at' = 0 /\ model' = model
    BY <1>1, <1>2, NamesGrow DEF Unbuilt, Known
  <2> QED BY <1>4, <2>1, <2>2 DEF KnownInv, ShapedInv
<1> QED BY <1>1, <1>3, <1>4

\* From one list to the next: its names are all known.
LEMMA DoneStep ==
  ASSUME ImportTyped, KnownInv, ShapedInv, WellRead(model),
         \/ Done("inputs", model.inputs, "inits") \/ Done("inits", model.inits, "nodes")
         \/ Done("nodes", model.nodes, "outputs") \/ Done("outputs", model.outputs, "built")
  PROVE  ImportTyped' /\ KnownInv' /\ ShapedInv'
<1>1. /\ \/ status = "inputs" /\ status' = "inits" /\ at = Len(model.inputs)
         \/ status = "inits" /\ status' = "nodes" /\ at = Len(model.inits)
         \/ status = "nodes" /\ status' = "outputs" /\ at = Len(model.nodes)
         \/ status = "outputs" /\ status' = "built" /\ at = Len(model.outputs)
      /\ Unbuilt /\ at' = 0
  BY DEF Done, Unbuilt
<1>2. Parsed /\ Valid(model) /\ at \in Nat
  BY <1>1 DEF Parsed, ImportTyped
<1>3. ImportTyped'
  BY <1>1, <1>2, TypedKept DEF Phases
<1>4. /\ model' = model /\ gr' = gr /\ ids' = ids /\ Known' = Known
      /\ \A k : NodeShaped(k)' <=> NodeShaped(k)
      /\ \A k : OutputShaped(k)' <=> OutputShaped(k)
  BY <1>1 DEF Unbuilt, Known, NodeShaped, OutputShaped
<1>5. KnownInv'
  <2>1. CASE status = "inputs"
    BY <1>1, <1>4, <2>1, NamesGrow DEF KnownInv
  <2>2. CASE status = "inits"
    <3>1. Known = DefinedBefore(model, 1)
      BY <1>1, <1>2, <2>2, ValidNames, DefinedGrows DEF KnownInv
    <3> QED BY <1>1, <1>4, <2>2, <3>1 DEF KnownInv
  <2>3. CASE status = "nodes" \/ status = "outputs"
    BY <1>1, <1>4, <2>3 DEF KnownInv
  <2> QED BY <1>1, <2>1, <2>2, <2>3
<1>6. ShapedInv'
  BY <1>1, <1>4 DEF ShapedInv
<1> QED BY <1>3, <1>5, <1>6

\* validate() and run() build nothing.
LEMMA FinalStep ==
  ASSUME ImportTyped, KnownInv, ShapedInv, Validate \/ Run
  PROVE  ImportTyped' /\ KnownInv' /\ ShapedInv'
<1>1. /\ \/ status = "built" /\ status' \in {"imported", "refused"}
         \/ status = "imported" /\ status' = "ran"
      /\ Unbuilt /\ at' = at
  BY DEF Validate, Run, importVars, Unbuilt
<1>2. Parsed /\ at \in Nat
  BY <1>1 DEF Parsed, ImportTyped
<1>3. ImportTyped'
  BY <1>1, <1>2, TypedKept DEF Phases
<1>4. /\ model' = model /\ gr' = gr /\ ids' = ids /\ Known' = Known
      /\ \A k : NodeShaped(k)' <=> NodeShaped(k)
      /\ \A k : OutputShaped(k)' <=> OutputShaped(k)
  BY <1>1 DEF Unbuilt, Known, NodeShaped, OutputShaped
<1> QED BY <1>1, <1>3, <1>4 DEF KnownInv, ShapedInv

-----------------------------------------------------------------------------
(* Steps that build                                                         *)

\* A name that was not known now stands for a new value.
LEMMA NewName ==
  ASSUME ImportTyped, NEW x, x \notin Known, ids' = With(ids, x, gr.next),
         Values(gr)' = Values(gr) \cup {gr.next}, constants' = constants
  PROVE  /\ IsFiniteSet(DOMAIN ids') /\ DOMAIN ids' = DOMAIN ids \cup {x}
         /\ ids'[x] = gr.next /\ \A y \in DOMAIN ids : ids'[y] = ids[y]
         /\ \A y \in DOMAIN ids' : ids'[y] \in Values(gr)'
         /\ DOMAIN ids' \cap DOMAIN constants' = {}
         /\ Known' = Known \cup {x}
<1>1. /\ DOMAIN ids' = DOMAIN ids \cup {x} /\ ids'[x] = gr.next
      /\ \A y \in DOMAIN ids : y # x => ids'[y] = ids[y]
  <2>1. ids' = [y \in DOMAIN ids \cup {x} |-> IF y = x THEN gr.next ELSE ids[y]]
    BY DEF With
  <2> QED BY <2>1
<1>2. IsFiniteSet(DOMAIN ids \cup {x})
  BY FS_AddElement DEF ImportTyped
<1>3. x \notin DOMAIN ids /\ x \notin DOMAIN constants
  BY DEF Known
<1>4. \A y \in DOMAIN ids : ids[y] \in Values(gr)
  BY DEF ImportTyped
<1>5. DOMAIN ids \cap DOMAIN constants = {}
  BY DEF ImportTyped
<1>6. Known' = Known \cup {x}
  BY <1>1 DEF Known
<1> QED BY <1>1, <1>2, <1>3, <1>4, <1>5, <1>6

\* An input of the model is one of the graph.
LEMMA InputStep ==
  ASSUME ImportTyped, KnownInv, ShapedInv, WellRead(model), ImportInput
  PROVE  ImportTyped' /\ KnownInv' /\ ShapedInv'
<1> DEFINE d == model.inputs[at + 1]
<1>1. /\ status = "inputs" /\ at < Len(model.inputs) /\ model' = model
      /\ \/ AddInput(d) /\ at' = at + 1 /\ status' = status
         \/ status' = "refused" /\ at' = at /\ Unbuilt
  BY DEF ImportInput, Entry, Unbuilt
<1>2. Parsed /\ Valid(model) /\ at \in Nat /\ InputsKnown = at /\ Known = InputNames(model, at)
  BY <1>1 DEF Parsed, ImportTyped, KnownInv
<1>3. CASE status' = "refused" /\ at' = at /\ Unbuilt
  BY <1>2, <1>3, Refusal
<1>4. CASE AddInput(d) /\ at' = at + 1 /\ status' = status
  <2>1. /\ gr' = WithInput(gr, d.dims) /\ ids' = With(ids, d.name, gr.next)
        /\ constants' = constants /\ weights' = weights
    BY <1>4 DEF AddInput
  <2>2. /\ Formed(gr)' /\ Values(gr)' = Values(gr) \cup {gr.next}
        /\ Len(gr'.inputs) = Len(gr.inputs) + 1
    BY <2>1, FormedInput DEF ImportTyped
  <2>3. /\ d.name \notin Known
        /\ d.name \in Members(Names(model.inputs))
        /\ InputNames(model, at + 1) = InputNames(model, at) \cup {d.name}
    <3>1. at + 1 \in 1 .. Len(model.inputs) /\ \A i \in 1 .. at : i \in 1 .. Len(model.inputs) /\ i # at + 1
      BY <1>1, <1>2, ValidNames
    <3>2. d.name \notin InputNames(model, at)
      BY <1>2, <3>1, ValidNames DEF InputNames
    <3>3. d.name \in InputNames(model, Len(model.inputs))
      BY <3>1 DEF InputNames
    <3> QED BY <1>2, <3>2, <3>3, NamesGrow, ValidNames
  <2> HIDE DEF d
  <2>4. /\ IsFiniteSet(DOMAIN ids') /\ DOMAIN ids' = DOMAIN ids \cup {d.name}
        /\ \A y \in DOMAIN ids' : ids'[y] \in Values(gr)'
        /\ DOMAIN ids' \cap DOMAIN constants' = {}
        /\ Known' = Known \cup {d.name}
    BY <2>1, <2>2, <2>3, NewName
  <2>5. InputsKnown' = InputsKnown + 1
    BY <1>1, <2>3, <2>4, InputCounted DEF ImportTyped, Known
  <2>6. ImportTyped'
    <3>1. (Len(gr.inputs) = Len(weights) + InputsKnown)'
      <4>1. Len(gr.inputs) = Len(weights) + at /\ Len(weights) \in Nat
        BY <1>2 DEF ImportTyped, IsList
      <4> QED BY <1>2, <2>1, <2>2, <2>5, <4>1
    <3> QED BY <1>1, <1>2, <1>4, <2>1, <2>2, <2>4, <2>5, <3>1 DEF ImportTyped, Parsed
  <2> QED BY <1>1, <1>2, <1>4, <2>3, <2>4, <2>6 DEF KnownInv, ShapedInv
<1> QED BY <1>1, <1>3, <1>4

\* An initializer is a constant, or one more input with its data as a weight.
LEMMA InitStep ==
  ASSUME ImportTyped, KnownInv, ShapedInv, WellRead(model), ImportInit
  PROVE  ImportTyped' /\ KnownInv' /\ ShapedInv'
<1> DEFINE i == model.inits[at + 1]
           x == i.desc.name
<1>1. /\ status = "inits" /\ at < Len(model.inits) /\ model' = model
      /\ \/ AddInit(i) /\ at' = at + 1 /\ status' = status
         \/ status' = "refused" /\ at' = at /\ Unbuilt
  BY DEF ImportInit, Entry, Unbuilt
<1>2. /\ Parsed /\ Valid(model) /\ at \in Nat
      /\ Known = InputNames(model, Len(model.inputs)) \cup InitialNames(model, at)
      /\ Len(gr.inputs) = Len(weights) + InputsKnown /\ IsList(weights)
  BY <1>1 DEF Parsed, ImportTyped, KnownInv
<1>3. CASE status' = "refused" /\ at' = at /\ Unbuilt
  BY <1>2, <1>3, Refusal
<1>4. CASE AddInit(i) /\ at' = at + 1 /\ status' = status
  <2>1. /\ x \notin Known
        /\ x \notin Members(Names(model.inputs))
        /\ InitialNames(model, at + 1) = InitialNames(model, at) \cup {x}
    <3>1. /\ at + 1 \in 1 .. Len(model.inits)
          /\ \A j \in 1 .. at : j \in 1 .. Len(model.inits) /\ j # at + 1
      BY <1>1, <1>2, ValidNames
    <3>2. x \notin InputNames(model, Len(model.inputs)) /\ x \notin InitialNames(model, at)
      BY <1>2, <3>1, ValidNames DEF InputNames, InitialNames
    <3> QED BY <1>2, <3>2, NamesGrow, ValidNames
  <2>2. \A k \in DOMAIN i.data : i.data[k] \in 0 .. Wide - 1
    BY <1>1, <1>2, ValidNames DEF WellRead, InitFull
  <2>3. \A k \in DOMAIN Decode(i) : Decode(i)[k] \in Sint
    BY <2>2, SignedInSint DEF Decode
  <2>4. /\ Known' = Known \cup {x} /\ ImportTyped'
    <3>1. CASE i.desc.dtype = Int64
      <4>1. /\ constants' = [y \in DOMAIN constants \cup {x} |-> IF y = x THEN Decode(i) ELSE constants[y]]
            /\ gr' = gr /\ ids' = ids /\ weights' = weights
        BY <1>4, <3>1 DEF AddInit, With
      <4> HIDE DEF i, x
      <4>2. DOMAIN constants' = DOMAIN constants \cup {x} /\ Known' = Known \cup {x}
        BY <4>1 DEF Known
      <4>3. \A y \in DOMAIN constants' : \A k \in DOMAIN constants'[y] : constants'[y][k] \in Sint
        BY <2>3, <4>1 DEF ImportTyped
      <4>4. DOMAIN ids' \cap DOMAIN constants' = {}
        BY <2>1, <4>1, <4>2 DEF ImportTyped, Known
      <4>5. InputsKnown' = InputsKnown
        BY <1>1, <4>1 DEF InputsKnown
      <4>6. /\ Formed(gr)' /\ IsFiniteSet(DOMAIN ids)' /\ IsList(weights)'
            /\ (\A y \in DOMAIN ids : ids[y] \in Values(gr))'
            /\ (Len(gr.inputs) = Len(weights) + InputsKnown)'
        BY <4>1, <4>5 DEF ImportTyped
      <4>7. (status \in Phases)' /\ (Parsed => Valid(model))' /\ (at \in Nat)' /\ status' # "inputs"
        BY <1>1, <1>2, <1>4 DEF ImportTyped
      <4> QED BY <4>2, <4>3, <4>4, <4>6, <4>7 DEF ImportTyped
    <3>2. CASE i.desc.dtype # Int64
      <4>1. /\ gr' = WithInput(gr, i.desc.dims) /\ ids' = With(ids, x, gr.next)
            /\ weights' = Append(weights, i.data) /\ constants' = constants
        BY <1>4, <3>2 DEF AddInit
      <4>2. /\ Formed(gr)' /\ Values(gr)' = Values(gr) \cup {gr.next}
            /\ Len(gr'.inputs) = Len(gr.inputs) + 1
        BY <4>1, FormedInput DEF ImportTyped
      <4>3. IsList(weights)' /\ Len(weights') = Len(weights) + 1 /\ Len(weights) \in Nat
        BY <1>2, <4>1, ListAppend DEF IsList
      <4> HIDE DEF i, x
      <4>4. /\ IsFiniteSet(DOMAIN ids') /\ DOMAIN ids' = DOMAIN ids \cup {x}
            /\ \A y \in DOMAIN ids' : ids'[y] \in Values(gr)'
            /\ DOMAIN ids' \cap DOMAIN constants' = {}
            /\ Known' = Known \cup {x}
        BY <2>1, <4>1, <4>2, NewName
      <4>5. InputsKnown' = InputsKnown
        BY <1>1, <2>1, <4>4, InputNotCounted
      <4>6. InputsKnown \in Nat
        <5>1. IsFiniteSet(Members(Names(model.inputs)) \cap DOMAIN ids)
          BY FS_Subset DEF ImportTyped
        <5> QED BY <5>1, FS_CardinalityType DEF InputsKnown
      <4>7. (Len(gr.inputs) = Len(weights) + InputsKnown)'
        BY <1>2, <4>2, <4>3, <4>5, <4>6
      <4> QED BY <1>1, <1>2, <1>4, <4>1, <4>2, <4>3, <4>4, <4>7 DEF ImportTyped, Parsed
    <3> QED BY <3>1, <3>2
  <2> HIDE DEF i, x
  <2> QED BY <1>1, <1>2, <1>4, <2>1, <2>4 DEF KnownInv, ShapedInv
<1> QED BY <1>1, <1>3, <1>4

\* An output of the model is one of the graph, with the shape of its value.
LEMMA OutputStep ==
  ASSUME ImportTyped, KnownInv, ShapedInv, WellRead(model), ImportOutput
  PROVE  ImportTyped' /\ KnownInv' /\ ShapedInv'
<1> DEFINE d == model.outputs[at + 1]
<1>1. /\ status = "outputs" /\ at < Len(model.outputs) /\ model' = model
      /\ \/ OutputFine(d) /\ MarkOutput(d) /\ at' = at + 1 /\ status' = status
         \/ status' = "refused" /\ at' = at /\ Unbuilt
  BY DEF ImportOutput, Entry, Unbuilt
<1>2. Parsed /\ Valid(model) /\ at \in Nat
  BY <1>1 DEF Parsed, ImportTyped
<1>3. CASE status' = "refused" /\ at' = at /\ Unbuilt
  BY <1>2, <1>3, Refusal
<1>4. CASE OutputFine(d) /\ MarkOutput(d) /\ at' = at + 1 /\ status' = status
  <2>1. /\ gr' = WithOutput(gr, ids[d.name])
        /\ ids' = ids /\ constants' = constants /\ weights' = weights
        /\ d.name \in DOMAIN ids /\ gr.shape[ids[d.name]] = d.dims
    BY <1>4 DEF MarkOutput, OutputFine
  <2>2. /\ Formed(gr)' /\ gr'.inputs = gr.inputs /\ gr'.shape = gr.shape
    BY <2>1, FormedOutput DEF ImportTyped
  <2>3. OutputShaped(at + 1)
    BY <2>1 DEF OutputShaped
  <2> HIDE DEF d
  <2>4. Values(gr)' = Values(gr) /\ InputsKnown' = InputsKnown /\ Known' = Known
    BY <1>1, <2>1, <2>2 DEF Values, InputsKnown, Known
  <2>5. ImportTyped'
    BY <1>1, <1>2, <1>4, <2>1, <2>2, <2>4 DEF ImportTyped, Parsed
  <2>6. /\ \A k : NodeShaped(k)' <=> NodeShaped(k)
        /\ \A k : OutputShaped(k)' <=> OutputShaped(k)
    BY <1>1, <2>1, <2>2 DEF NodeShaped, OutputShaped
  <2>7. \A k \in 1 .. at' : k \in 1 .. at \/ k = at + 1
    BY <1>2, <1>4
  <2> QED BY <1>1, <1>4, <2>3, <2>4, <2>5, <2>6, <2>7 DEF KnownInv, ShapedInv
<1> QED BY <1>1, <1>3, <1>4

\* A node of the model is one of the graph, its output a value of the shape that
\* the file gives.
LEMMA NodeStep ==
  ASSUME ImportTyped, KnownInv, ShapedInv, WellRead(model), ImportNode
  PROVE  ImportTyped' /\ KnownInv' /\ ShapedInv'
<1> DEFINE n == model.nodes[at + 1]
           x == n.out[1]
           sh == InferOutputShape(OpOf(n), ShapesOf(gr, InIds(n)))
<1>1. /\ status = "nodes" /\ at < Len(model.nodes) /\ model' = model
      /\ \/ NodeFine(n) /\ AddNode(n) /\ at' = at + 1 /\ status' = status
         \/ status' = "refused" /\ at' = at /\ Unbuilt
  BY DEF ImportNode, Entry, Unbuilt
<1>2. /\ Parsed /\ Valid(model) /\ at \in Nat /\ Known = DefinedBefore(model, at + 1)
      /\ \A k \in 1 .. at : NodeShaped(k)
  BY <1>1 DEF Parsed, ImportTyped, KnownInv, ShapedInv
<1>3. CASE status' = "refused" /\ at' = at /\ Unbuilt
  BY <1>2, <1>3, Refusal
<1>4. CASE NodeFine(n) /\ AddNode(n) /\ at' = at + 1 /\ status' = status
  <2>1. /\ gr' = WithNode(gr, OpOf(n), InIds(n)) /\ ids' = With(ids, x, gr.next)
        /\ constants' = constants /\ weights' = weights
    BY <1>4 DEF AddNode
  <2>2. /\ Resolvable(n) /\ Declared(model.vinf, x, sh)
        /\ Len(n.out) = 1
    BY <1>4, OneOutput DEF NodeFine
  <2>3. \A i \in DOMAIN InIds(n) : InIds(n)[i] \in Values(gr)
    <3>1. DOMAIN InIds(n) = DOMAIN Tensors(n) /\ \A i \in DOMAIN Tensors(n) : InIds(n)[i] = ids[Tensors(n)[i]]
      BY DEF InIds
    <3>2. \A i \in DOMAIN Tensors(n) : Tensors(n)[i] \in DOMAIN ids
      BY <2>2 DEF Resolvable
    <3>3. \A y \in DOMAIN ids : ids[y] \in Values(gr)
      BY DEF ImportTyped
    <3> HIDE DEF n
    <3> QED BY <3>1, <3>2, <3>3
  <2>4. /\ at + 1 \in DOMAIN model.nodes /\ ValidNode(model, at + 1) /\ NodeListed(n)
    <3>1. at + 1 \in DOMAIN model.nodes
      BY <1>1, <1>2, ValidNames
    <3> QED BY <1>2, <3>1 DEF Valid, WellRead
  <2>5. Members(n.out) = {x}
    <3>1. DOMAIN n.out = 1 .. 1
      BY <2>2, <2>4 DEF NodeListed, IsList
    <3> QED BY <3>1 DEF Members
  <2>6. x \notin Known /\ x \notin Members(Names(model.inputs))
    <3>1. x \notin DefinedBefore(model, at + 1)
      BY <2>4, <2>5 DEF ValidNode
    <3> QED BY <1>2, <3>1 DEF DefinedBefore
  <2>7. DefinedBefore(model, (at + 1) + 1) = DefinedBefore(model, at + 1) \cup {x}
    <3>1. (at + 1) + 1 = at + 2
      BY <1>2
    <3> QED BY <1>2, <2>5, <3>1, DefinedGrows
  <2> HIDE DEF n, x, sh
  <2>8. /\ Formed(gr)' /\ Values(gr)' = Values(gr) \cup {gr.next} /\ gr'.inputs = gr.inputs
        /\ \A v \in Values(gr) : gr'.shape[v] = gr.shape[v]
        /\ gr'.shape[gr.next] = sh
    BY <2>1, <2>3, FormedNode DEF ImportTyped, sh
  <2>9. /\ IsFiniteSet(DOMAIN ids') /\ DOMAIN ids' = DOMAIN ids \cup {x}
        /\ ids'[x] = gr.next /\ \A y \in DOMAIN ids : ids'[y] = ids[y]
        /\ \A y \in DOMAIN ids' : ids'[y] \in Values(gr)'
        /\ DOMAIN ids' \cap DOMAIN constants' = {}
        /\ Known' = Known \cup {x}
    BY <2>1, <2>6, <2>8, NewName
  <2>10. InputsKnown' = InputsKnown
    BY <1>1, <2>6, <2>9, InputNotCounted
  <2>11. ImportTyped'
    <3>1. /\ IsList(weights)' /\ (Len(gr.inputs) = Len(weights) + InputsKnown)'
          /\ (\A y \in DOMAIN constants : \A i \in DOMAIN constants[y] : constants[y][i] \in Sint)'
      BY <2>1, <2>8, <2>10 DEF ImportTyped
    <3>2. (status \in Phases)' /\ (Parsed => Valid(model))' /\ (at \in Nat)' /\ status' # "inputs"
      BY <1>1, <1>2, <1>4 DEF ImportTyped
    <3> QED BY <2>8, <2>9, <3>1, <3>2 DEF ImportTyped
  <2>12. ASSUME NEW k \in 1 .. at PROVE NodeShaped(k)'
    <3> DEFINE y == model.nodes[k].out[1]
    <3>1. /\ Len(model.nodes[k].out) = 1 /\ y \in DOMAIN ids
          /\ Declared(model.vinf, y, gr.shape[ids[y]])
      BY <1>2 DEF NodeShaped
    <3>2. ids[y] \in Values(gr)
      BY <3>1 DEF ImportTyped
    <3>3. y \in DOMAIN ids' /\ gr'.shape[ids'[y]] = gr.shape[ids[y]]
      BY <2>8, <2>9, <3>1, <3>2
    <3> QED BY <1>1, <3>1, <3>3 DEF NodeShaped
  <2>13. ASSUME NEW k, k = at + 1 PROVE NodeShaped(k)'
    <3>1. Len(model.nodes[k].out) = 1 /\ model.nodes[k].out[1] = x
      BY <2>2, <2>13 DEF n, x
    <3>2. x \in DOMAIN ids' /\ gr'.shape[ids'[x]] = sh
      BY <2>8, <2>9
    <3>3. Declared(model.vinf, x, gr'.shape[ids'[x]])
      BY <2>2, <3>2
    <3> QED BY <1>1, <3>1, <3>2, <3>3 DEF NodeShaped
  <2>14. ASSUME NEW k \in 1 .. at' PROVE NodeShaped(k)'
    <3>1. k \in 1 .. at \/ k = at + 1
      BY <1>2, <1>4
    <3> QED BY <2>12, <2>13, <3>1
  <2>15. ShapedInv'
    BY <1>1, <1>4, <2>14 DEF ShapedInv
  <2> QED BY <1>1, <1>2, <1>4, <2>7, <2>9, <2>11, <2>15 DEF KnownInv
<1> QED BY <1>1, <1>3, <1>4

-----------------------------------------------------------------------------
(* Reshape                                                                  *)

\* Node k, if it reshapes a value, keeps its elements.
Reshaped(g, k) ==
  LET n == g.nodes[k] IN
  n.op.name = "Reshape" =>
    /\ n.in[1] \in Values(g)
    /\ Elements(g.shape[n.out]) = Elements(g.shape[n.in[1]])

\* Shapes and constants are lists of numbers, so that what was inferred from them holds.
ElementsInv ==
  /\ \A v \in Values(gr) : gr.shape[v] \in Seq(Nat)
  /\ \A x \in DOMAIN constants : constants[x] \in Seq(Int)
  /\ \A k \in NodeIds(gr) : Reshaped(gr, k)

\* The tensors of a node are a list.
LEMMA TensorsListed ==
  ASSUME NEW n, IsList(n.in), NEW sh, NEW held, Supported(n), Buildable(n, sh, held)
  PROVE  IsList(Tensors(n))
<1>1. CASE Spelt(n.op) = "Reshape" /\ Len(n.in) >= 2
  <2>1. Len(n.in) = 2
    BY <1>1 DEF Buildable, Arity
  <2>2. SubSeq(n.in, 3, Len(n.in)) = <<>>
    BY <2>1
  <2> DEFINE x == n.in[1]
  <2>3. Tensors(n) = <<x>>
    <3>1. Tensors(n) = <<x>> \o <<>>
      BY <1>1, <2>2 DEF Tensors
    <3> HIDE DEF x
    <3> QED BY <3>1
  <2> HIDE DEF x
  <2>4. IsList(<<x>>)
    BY DEF IsList
  <2> QED BY <2>3, <2>4
<1>2. CASE ~(Spelt(n.op) = "Reshape" /\ Len(n.in) >= 2)
  <2>1. Tensors(n) = n.in
    BY <1>2 DEF Tensors
  <2> QED BY <2>1
<1> QED BY <1>1, <1>2

\* readWindow() accepts windows of natural numbers, with strides of one at least.
LEMMA WindowFits ==
  ASSUME NEW n, NEW required, NEW kernel, WindowFine(n, required, kernel)
  PROVE  WindowTyped(Window(n, kernel))
<1> DEFINE p == Ints(n, "pads", <<0, 0, 0, 0>>)
           w == Window(n, kernel)
<1>1. MaxDim \in Nat
  BY FormatAssumption
<1>2. /\ w.kernel = Ints(n, "kernel_shape", kernel) /\ w.stride = Ints(n, "strides", <<1, 1>>)
      /\ w.pad = SubSeq(p, 1, 2)
  BY DEF Window
<1>3. \A a \in 1 .. 2 :
        /\ Ints(n, "kernel_shape", kernel)[a] \in 1 .. MaxDim
        /\ Ints(n, "strides", <<1, 1>>)[a] \in 1 .. MaxDim
        /\ p[a] \in 0 .. MaxDim
  BY DEF WindowFine, InInt
<1> HIDE DEF p, w
<1>4. \A a \in 1 .. 2 : SubSeq(p, 1, 2)[a] = p[a]
  OBVIOUS
<1>5. \A a \in 1 .. 2 : w.kernel[a] \in Nat /\ w.stride[a] \in Nat \ {0} /\ w.pad[a] \in Nat
  BY <1>1, <1>2, <1>3, <1>4
<1> QED BY <1>5 DEF WindowTyped, w

\* The operators that the importer makes are typed.
LEMMA BuiltTyped ==
  ASSUME ElementsInv, NEW n, NEW sh, Supported(n), Buildable(n, sh, constants)
  PROVE  OpTyped(Built(n, sh, constants))
<1>1. Spelt(n.op) \in {"Conv", "Relu", "Concat", "MaxPool", "AveragePool", "Dropout", "Reshape"}
  BY DEF Supported, AllowedAttrs
<1>2. CASE Spelt(n.op) = "Conv"
  <2>1. WindowTyped(Window(n, SubSeq(sh[2], 3, 4)))
    BY <1>2, WindowFits DEF Buildable
  <2>2. Built(n, sh, constants).name = "Conv2D" /\ Built(n, sh, constants).window = Window(n, SubSeq(sh[2], 3, 4))
    BY <1>2 DEF Built
  <2> QED BY <2>1, <2>2 DEF OpTyped
<1>3. CASE Spelt(n.op) \in {"MaxPool", "AveragePool"}
  <2>1. WindowTyped(Window(n, <<>>))
    BY <1>3, WindowFits DEF Buildable
  <2>2. Built(n, sh, constants).name \in {"MaxPool2D", "AveragePool2D"} /\ Built(n, sh, constants).window = Window(n, <<>>)
    BY <1>3 DEF Built
  <2> QED BY <2>1, <2>2 DEF OpTyped
<1>4. CASE Spelt(n.op) \in {"Relu", "Concat", "Dropout"}
  <2>1. Built(n, sh, constants).name \in {"ReLU", "Concat", "Dropout"}
    BY <1>4 DEF Built
  <2> QED BY <2>1 DEF OpTyped
<1>5. CASE Spelt(n.op) = "Reshape"
  <2> DEFINE target == constants[n.in[2]]
  <2>1. /\ n.in[2] \in DOMAIN constants
        /\ \A i \in DOMAIN target : target[i] \in -1 .. MaxDim
    BY <1>5 DEF Buildable, TargetFine
  <2>2. target \in Seq(Int)
    BY <2>1 DEF ElementsInv
  <2>3. Built(n, sh, constants).name = "Reshape" /\ Built(n, sh, constants).target = target
    BY <1>5 DEF Built
  <2> HIDE DEF target
  <2>4. \A i \in DOMAIN target : target[i] >= -1
    BY <2>1, FormatAssumption
  <2> QED BY <2>2, <2>3, <2>4 DEF OpTyped
<1> QED BY <1>1, <1>2, <1>3, <1>4, <1>5

\* Nodes that are there keep their elements while values are added.
LEMMA ElementsKept ==
  ASSUME Formed(gr), ElementsInv, NEW k \in NodeIds(gr), gr'.nodes[k] = gr.nodes[k],
         Values(gr) \subseteq Values(gr)', \A v \in Values(gr) : gr'.shape[v] = gr.shape[v]
  PROVE  Reshaped(gr', k)
<1>1. Reshaped(gr, k) /\ gr.nodes[k].out \in Values(gr)
  BY DEF ElementsInv, Formed
<1> QED BY <1>1 DEF Reshaped

\* An input or a weight has the shape that the file gives for it.
LEMMA ElementsInput ==
  ASSUME Formed(gr), ElementsInv, NEW sh \in Seq(Nat), gr' = WithInput(gr, sh), constants' = constants
  PROVE  ElementsInv'
<1>1. /\ Values(gr)' = Values(gr) \cup {gr.next} /\ gr'.nodes = gr.nodes
      /\ gr'.shape[gr.next] = sh /\ \A v \in Values(gr) : gr'.shape[v] = gr.shape[v]
  BY FormedInput
<1>2. NodeIds(gr)' = NodeIds(gr)
  BY <1>1 DEF NodeIds
<1>3. \A v \in Values(gr)' : gr'.shape[v] \in Seq(Nat)
  BY <1>1 DEF ElementsInv
<1>4. \A k \in NodeIds(gr)' : Reshaped(gr', k)
  BY <1>1, <1>2, ElementsKept
<1> QED BY <1>3, <1>4 DEF ElementsInv

\* An initializer that is a constant is a list of numbers.
LEMMA ElementsInit ==
  ASSUME ImportTyped, ElementsInv, WellRead(model), ImportInit
  PROVE  ElementsInv'
<1> DEFINE i == model.inits[at + 1]
           x == i.desc.name
<1>1. /\ status = "inits" /\ at < Len(model.inits)
      /\ \/ AddInit(i)
         \/ gr' = gr /\ constants' = constants
  BY DEF ImportInit, Entry
<1>2. Valid(model) /\ at \in Nat
  BY <1>1 DEF Parsed, ImportTyped
<1>3. InitFull(i)
  <2>1. at + 1 \in DOMAIN model.inits
    BY <1>1, <1>2, ValidNames
  <2> QED BY <2>1 DEF WellRead
<1>4. CASE gr' = gr /\ constants' = constants
  BY <1>4 DEF ElementsInv
<1>5. CASE AddInit(i) /\ i.desc.dtype = Int64
  <2>1. /\ constants' = [y \in DOMAIN constants \cup {x} |-> IF y = x THEN Decode(i) ELSE constants[y]]
        /\ gr' = gr
    BY <1>5 DEF AddInit, With
  <2>2. Decode(i) \in Seq(Int)
    <3> DEFINE l == i.data
    <3>1. /\ Decode(i) = [k \in DOMAIN l |-> Signed(l[k])]
          /\ IsList(l) /\ \A k \in DOMAIN l : l[k] \in 0 .. Wide - 1
      BY <1>3 DEF Decode, InitFull
    <3> HIDE DEF l
    <3>2. DOMAIN l = 1 .. Len(l) /\ Len(l) \in Nat
      BY <3>1 DEF IsList
    <3>3. \A k \in DOMAIN l : Signed(l[k]) \in Int
      BY <3>1, WideAssumption DEF Signed
    <3> QED BY <3>1, <3>2, <3>3
  <2> HIDE DEF i, x
  <2>3. \A y \in DOMAIN constants' : constants'[y] \in Seq(Int)
    BY <2>1, <2>2 DEF ElementsInv
  <2> QED BY <2>1, <2>3 DEF ElementsInv
<1>6. CASE AddInit(i) /\ i.desc.dtype # Int64
  <2>1. gr' = WithInput(gr, i.desc.dims) /\ constants' = constants
    BY <1>6 DEF AddInit
  <2>2. i.desc.dims \in Seq(Nat)
    BY <1>3 DEF InitFull, DimsFine
  <2> QED BY <2>1, <2>2, ElementsInput DEF ImportTyped
<1> QED BY <1>1, <1>4, <1>5, <1>6

\* The shapes that a node is inferred from are those of values there are.
LEMMA NodeInferred ==
  ASSUME ImportTyped, ElementsInv, NEW n, IsList(n.in), NodeFine(n)
  PROVE  LET in == InIds(n)
             shapes == ShapesOf(gr, in) IN
         /\ Supported(n) /\ Buildable(n, shapes, constants) /\ OpOf(n) = Built(n, shapes, constants) /\ OpTyped(OpOf(n))
         /\ InferOutputShape(OpOf(n), shapes) # Throws
         /\ \A i \in DOMAIN in : in[i] \in Values(gr)
         /\ DOMAIN shapes = DOMAIN in /\ IsList(shapes)
         /\ \A i \in DOMAIN shapes : shapes[i] = gr.shape[in[i]] /\ shapes[i] \in Seq(Nat)
<1> DEFINE op == OpOf(n)
           in == InIds(n)
           shapes == ShapesOf(gr, in)
<1>1. /\ Supported(n) /\ Resolvable(n) /\ Buildable(n, shapes, constants)
      /\ InferOutputShape(op, shapes) # Throws /\ op = Built(n, shapes, constants)
  BY DEF NodeFine, Accepts, OpOf
<1>2. IsList(Tensors(n)) /\ OpTyped(op)
  BY <1>1, TensorsListed, BuiltTyped
<1>3. DOMAIN in = DOMAIN Tensors(n) /\ \A i \in DOMAIN in : in[i] \in Values(gr)
  <2>1. DOMAIN in = DOMAIN Tensors(n) /\ \A i \in DOMAIN Tensors(n) : in[i] = ids[Tensors(n)[i]]
    BY DEF InIds
  <2>2. \A i \in DOMAIN Tensors(n) : Tensors(n)[i] \in DOMAIN ids
    BY <1>1 DEF Resolvable
  <2>3. \A y \in DOMAIN ids : ids[y] \in Values(gr)
    BY DEF ImportTyped
  <2> HIDE DEF in
  <2> QED BY <2>1, <2>2, <2>3
<1> HIDE DEF op, in
<1>4. /\ DOMAIN shapes = DOMAIN in /\ IsList(shapes)
      /\ \A i \in DOMAIN shapes : shapes[i] = gr.shape[in[i]] /\ shapes[i] \in Seq(Nat)
  <2>1. DOMAIN Tensors(n) = 1 .. Len(Tensors(n)) /\ Len(Tensors(n)) \in Nat
    BY <1>2 DEF IsList
  <2>2. shapes = [i \in DOMAIN in |-> gr.shape[in[i]]]
    BY DEF ShapesOf
  <2>3. IsList(shapes)
    BY <1>3, <2>1, <2>2 DEF IsList
  <2> HIDE DEF shapes
  <2> QED BY <1>3, <2>2, <2>3 DEF ElementsInv
<1> QED BY <1>1, <1>2, <1>3, <1>4 DEF op, in

\* A node that is imported is the last, its value has the inferred shape.
LEMMA NodeImported ==
  ASSUME ImportTyped, ElementsInv, WellRead(model), ImportNode
  PROVE  LET n == model.nodes[at + 1]
             op == OpOf(n)
             in == InIds(n)
             sh == InferOutputShape(op, ShapesOf(gr, in)) IN
         \/ gr' = gr /\ ids' = ids /\ constants' = constants
         \/ /\ IsList(n.in) /\ NodeFine(n) /\ at + 1 \in DOMAIN model.nodes /\ constants' = constants
            /\ ids' = With(ids, n.out[1], gr.next) /\ n.out[1] \in Members(n.out)
            /\ Values(gr)' = Values(gr) \cup {gr.next} /\ gr'.inputs = gr.inputs
            /\ \A v \in Values(gr) : gr'.shape[v] = gr.shape[v]
            /\ gr'.shape[gr.next] = sh
            /\ \A k \in NodeIds(gr)' : \/ k \in NodeIds(gr) /\ gr'.nodes[k] = gr.nodes[k]
                                       \/ gr'.nodes[k] = [op |-> op, in |-> in, out |-> gr.next]
<1> DEFINE n == model.nodes[at + 1]
           op == OpOf(n)
           in == InIds(n)
           sh == InferOutputShape(op, ShapesOf(gr, in))
<1>1. /\ status = "nodes" /\ at < Len(model.nodes)
      /\ \/ NodeFine(n) /\ AddNode(n)
         \/ gr' = gr /\ ids' = ids /\ constants' = constants
  BY DEF ImportNode, Entry
<1>2. CASE NodeFine(n) /\ AddNode(n)
  <2>1. /\ gr' = WithNode(gr, op, in) /\ constants' = constants
        /\ ids' = With(ids, n.out[1], gr.next)
    BY <1>2 DEF AddNode
  <2>2. at + 1 \in DOMAIN model.nodes
    BY <1>1, ValidNames DEF Parsed, ImportTyped
  <2>3. IsList(n.in) /\ IsList(n.out)
    BY <2>2 DEF WellRead, NodeListed
  <2>4. n.out[1] \in Members(n.out)
    <3>1. Len(n.out) = 1
      BY <1>2, OneOutput DEF NodeFine
    <3>2. 1 \in DOMAIN n.out
      BY <2>3, <3>1 DEF IsList
    <3> QED BY <3>2 DEF Members
  <2>5. \A i \in DOMAIN in : in[i] \in Values(gr)
    BY <1>2, <2>3, NodeInferred
  <2>6. Formed(gr)
    BY DEF ImportTyped
  <2> HIDE DEF n, op, in, sh
  <2>7. /\ Values(gr)' = Values(gr) \cup {gr.next} /\ gr'.inputs = gr.inputs
        /\ \A v \in Values(gr) : gr'.shape[v] = gr.shape[v]
        /\ gr'.shape[gr.next] = sh
    BY <2>1, <2>5, <2>6, FormedNode DEF sh
  <2>8. \A k \in NodeIds(gr)' : \/ k \in NodeIds(gr) /\ gr'.nodes[k] = gr.nodes[k]
                                \/ gr'.nodes[k] = [op |-> op, in |-> in, out |-> gr.next]
    BY <2>1, <2>6, LastNode
  <2> QED BY <1>2, <2>1, <2>2, <2>3, <2>4, <2>7, <2>8 DEF n, op, in, sh
<1> QED BY <1>1, <1>2

\* A node that reshapes its input keeps the elements of it.
LEMMA ElementsNode ==
  ASSUME ImportTyped, ElementsInv, WellRead(model), ImportNode
  PROVE  ElementsInv'
<1> DEFINE n == model.nodes[at + 1]
           op == OpOf(n)
           in == InIds(n)
           shapes == ShapesOf(gr, in)
           sh == InferOutputShape(op, shapes)
<1>1. CASE gr' = gr /\ constants' = constants
  BY <1>1 DEF ElementsInv
<1>2. CASE ~(gr' = gr /\ constants' = constants)
  <2>1. /\ IsList(n.in) /\ NodeFine(n) /\ constants' = constants
        /\ Values(gr)' = Values(gr) \cup {gr.next}
        /\ \A v \in Values(gr) : gr'.shape[v] = gr.shape[v]
        /\ gr'.shape[gr.next] = sh
        /\ \A k \in NodeIds(gr)' : \/ k \in NodeIds(gr) /\ gr'.nodes[k] = gr.nodes[k]
                                   \/ gr'.nodes[k] = [op |-> op, in |-> in, out |-> gr.next]
    BY <1>2, NodeImported
  <2>2. /\ OpTyped(op) /\ sh # Throws
        /\ \A i \in DOMAIN in : in[i] \in Values(gr)
        /\ DOMAIN shapes = DOMAIN in /\ IsList(shapes)
        /\ \A i \in DOMAIN shapes : shapes[i] = gr.shape[in[i]] /\ shapes[i] \in Seq(Nat)
    BY <2>1, NodeInferred
  <2> HIDE DEF n, op, in, shapes, sh
  <2>3. sh \in Seq(Nat)
    BY <2>2, InferTyped DEF sh
  <2>4. ASSUME NEW k \in NodeIds(gr)'
        PROVE  Reshaped(gr', k)
    <3>1. CASE k \in NodeIds(gr) /\ gr'.nodes[k] = gr.nodes[k]
      BY <2>1, <3>1, ElementsKept DEF ImportTyped
    <3>2. CASE gr'.nodes[k] = [op |-> op, in |-> in, out |-> gr.next]
      <4> SUFFICES ASSUME op.name = "Reshape"
                   PROVE  in[1] \in Values(gr') /\ Elements(gr'.shape[gr.next]) = Elements(gr'.shape[in[1]])
        BY <3>2 DEF Reshaped
      <4>1. Len(shapes) = 1 /\ sh = Resolved(shapes[1], op.target)
        BY <2>2 DEF InferOutputShape, sh
      <4>2. 1 \in DOMAIN shapes
        BY <2>2, <4>1 DEF IsList
      <4>3. /\ in[1] \in Values(gr) /\ shapes[1] = gr.shape[in[1]] /\ shapes[1] \in Seq(Nat)
        BY <2>2, <4>2
      <4>4. Elements(sh) = Elements(shapes[1])
        BY <2>2, <4>1, <4>3, ResolvedKeepsElements DEF OpTyped
      <4> QED BY <2>1, <4>3, <4>4
    <3> QED BY <2>1, <3>1, <3>2
  <2>5. \A v \in Values(gr)' : gr'.shape[v] \in Seq(Nat)
    BY <2>1, <2>3 DEF ElementsInv
  <2> QED BY <2>1, <2>4, <2>5 DEF ElementsInv
<1> QED BY <1>1, <1>2

\* No step of the importer takes elements from a value or adds to them.
LEMMA ElementsPreserved ==
  ASSUME ImportTyped, ElementsInv, WellRead(model), [Next]_vars
  PROVE  ElementsInv'
<1>1. CASE ImportInput
  <2> DEFINE d == model.inputs[at + 1]
  <2>1. /\ status = "inputs" /\ at < Len(model.inputs)
        /\ \/ gr' = WithInput(gr, d.dims) /\ constants' = constants
           \/ gr' = gr /\ constants' = constants
    BY <1>1 DEF ImportInput, Entry, AddInput
  <2>2. d.dims \in Seq(Nat)
    <3>1. Valid(model) /\ at \in Nat
      BY <2>1 DEF Parsed, ImportTyped
    <3>2. at + 1 \in DOMAIN model.inputs
      BY <2>1, <3>1, ValidNames
    <3> QED BY <3>2 DEF WellRead, DimsFine
  <2>3. CASE gr' = WithInput(gr, d.dims) /\ constants' = constants
    BY <2>2, <2>3, ElementsInput DEF ImportTyped
  <2>4. CASE gr' = gr /\ constants' = constants
    BY <2>4 DEF ElementsInv
  <2> QED BY <2>1, <2>3, <2>4
<1>2. CASE ImportInit
  BY <1>2, ElementsInit
<1>3. CASE ImportNode
  BY <1>3, ElementsNode
<1>4. CASE ImportOutput
  <2>1. \/ /\ OutputFine(model.outputs[at + 1])
           /\ gr' = WithOutput(gr, ids[model.outputs[at + 1].name]) /\ constants' = constants
        \/ gr' = gr /\ constants' = constants
    BY <1>4 DEF ImportOutput, Entry, MarkOutput
  <2>2. gr'.nodes = gr.nodes /\ gr'.shape = gr.shape /\ constants' = constants
    <3> DEFINE v == ids[model.outputs[at + 1].name]
    <3>1. CASE OutputFine(model.outputs[at + 1]) /\ gr' = WithOutput(gr, v) /\ constants' = constants
      <4>1. v \in Values(gr)
        BY <3>1 DEF OutputFine, ImportTyped
      <4> HIDE DEF v
      <4> QED BY <3>1, <4>1, FormedOutput DEF ImportTyped
    <3> QED BY <2>1, <3>1
  <2>3. Values(gr)' = Values(gr) /\ NodeIds(gr)' = NodeIds(gr)
    BY <2>2 DEF Values, NodeIds
  <2>4. \A k \in NodeIds(gr)' : Reshaped(gr', k)
    BY <2>2, <2>3, ElementsKept DEF ImportTyped
  <2> QED BY <2>2, <2>3, <2>4 DEF ElementsInv
<1>5. CASE gr' = gr /\ constants' = constants
  BY <1>5 DEF ElementsInv
<1>6. CASE \/ ReaderNext /\ UNCHANGED importVars
           \/ CheckOpset \/ Validate \/ Run \/ UNCHANGED vars
           \/ Done("inputs", model.inputs, "inits") \/ Done("inits", model.inits, "nodes")
           \/ Done("nodes", model.nodes, "outputs") \/ Done("outputs", model.outputs, "built")
  <2>1. gr' = gr /\ constants' = constants
    BY <1>6 DEF CheckOpset, Validate, Run, Done, vars, importVars
  <2> QED BY <1>5, <2>1
<1> QED BY <1>1, <1>2, <1>3, <1>4, <1>6 DEF Next, FromFgx

-----------------------------------------------------------------------------
(* Windows                                                                  *)

\* What readWindow() accepted of a window.
WindowBounded(w) ==
  \A a \in 1 .. 2 : w.kernel[a] \in 1 .. MaxDim /\ w.stride[a] \in 1 .. MaxDim /\ w.pad[a] \in 0 .. MaxDim

\* The shape out is that of w over a value of shape in, as the code computes it.
Slid(w, in, out) ==
  /\ Len(out) = 4
  /\ \A a \in 1 .. 2 : out[a + 2] = Windows(in[a + 2], w.pad[a], w.kernel[a], w.stride[a])

\* Node k, if it has a window, has one that was accepted, and the shape of it.
Windowed(g, k) ==
  LET n == g.nodes[k] IN
  "window" \in DOMAIN n.op =>
    /\ n.in[1] \in Values(g)
    /\ WindowBounded(n.op.window)
    /\ Slid(n.op.window, g.shape[n.in[1]], g.shape[n.out])

\* A name is that of an input of the graph, or a node of the file computes it.
NamesComputed ==
  \A x \in DOMAIN ids : Computed(x) \/ \E i \in DOMAIN gr.inputs : gr.inputs[i] = ids[x]

WindowsInv == (\A k \in NodeIds(gr) : Windowed(gr, k)) /\ NamesComputed

\* readWindow() accepts windows that an int can hold.
LEMMA WindowAccepted ==
  ASSUME NEW n, NEW required, NEW kernel, WindowFine(n, required, kernel)
  PROVE  WindowBounded(Window(n, kernel))
<1> DEFINE p == Ints(n, "pads", <<0, 0, 0, 0>>)
           w == Window(n, kernel)
<1>1. /\ w.kernel = Ints(n, "kernel_shape", kernel) /\ w.stride = Ints(n, "strides", <<1, 1>>)
      /\ w.pad = SubSeq(p, 1, 2)
  BY DEF Window
<1>2. \A a \in 1 .. 2 :
        /\ Ints(n, "kernel_shape", kernel)[a] \in 1 .. MaxDim
        /\ Ints(n, "strides", <<1, 1>>)[a] \in 1 .. MaxDim
        /\ p[a] \in 0 .. MaxDim
  BY DEF WindowFine, InInt
<1> HIDE DEF p, w
<1>3. \A a \in 1 .. 2 : SubSeq(p, 1, 2)[a] = p[a]
  OBVIOUS
<1>4. \A a \in 1 .. 2 : w.kernel[a] \in 1 .. MaxDim /\ w.stride[a] \in 1 .. MaxDim /\ w.pad[a] \in 0 .. MaxDim
  BY <1>1, <1>2, <1>3
<1> QED BY <1>4 DEF WindowBounded, w

\* Two dimensions in front of two others.
LEMMA FourDims ==
  ASSUME NEW a \in Nat, NEW b \in Nat, NEW c \in Nat, NEW d \in Nat
  PROVE  Len(<<a, b>> \o <<c, d>>) = 4 /\ (<<a, b>> \o <<c, d>>)[3] = c /\ (<<a, b>> \o <<c, d>>)[4] = d
OBVIOUS

\* An operator that the importer makes with a window slides it over its first input.
LEMMA BuiltSlides ==
  ASSUME NEW n, NEW sh, NEW held, Supported(n), Buildable(n, sh, held), "window" \in DOMAIN Built(n, sh, held),
         OpTyped(Built(n, sh, held)), IsList(sh), \A i \in DOMAIN sh : sh[i] \in Seq(Nat),
         InferOutputShape(Built(n, sh, held), sh) # Throws
  PROVE  /\ 1 \in DOMAIN sh
         /\ WindowBounded(Built(n, sh, held).window)
         /\ Slid(Built(n, sh, held).window, sh[1], InferOutputShape(Built(n, sh, held), sh))
<1> DEFINE op == Built(n, sh, held)
           out == InferOutputShape(op, sh)
<1>1. Spelt(n.op) \in {"Conv", "Relu", "Concat", "MaxPool", "AveragePool", "Dropout", "Reshape"}
  BY DEF Supported, AllowedAttrs
<1>2. /\ op.name \in {"Conv2D", "MaxPool2D", "AveragePool2D"}
      /\ WindowBounded(op.window)
  <2>1. CASE Spelt(n.op) = "Conv"
    <3> DEFINE w == Window(n, SubSeq(sh[2], 3, 4))
    <3>1. WindowBounded(w)
      BY <2>1, WindowAccepted DEF Buildable
    <3>2. op = [name |-> "Conv2D", window |-> w]
      BY <2>1 DEF Built
    <3> HIDE DEF op, w
    <3> QED BY <3>1, <3>2
  <2>2. CASE Spelt(n.op) \in {"MaxPool", "AveragePool"}
    <3> DEFINE w == Window(n, <<>>)
    <3>1. WindowBounded(w)
      BY <2>2, WindowAccepted DEF Buildable
    <3>2. op.name \in {"MaxPool2D", "AveragePool2D"} /\ op.window = w
      BY <2>2 DEF Built
    <3> HIDE DEF op, w
    <3> QED BY <3>1, <3>2
  <2>3. CASE Spelt(n.op) \in {"Relu", "Concat", "Dropout", "Reshape"}
    <3>1. "window" \notin DOMAIN op
      BY <2>3 DEF Built
    <3> QED BY <3>1
  <2> QED BY <1>1, <2>1, <2>2, <2>3
<1>3. OpTyped(op) /\ out # Throws
  OBVIOUS
<1> HIDE DEF op
<1>4. DOMAIN sh = 1 .. Len(sh) /\ Len(sh) \in Nat
  BY DEF IsList
<1>5. \E a, b \in Nat : out = <<a, b>> \o Spatial(op.window, sh[1])
  <2>1. CASE op.name = "Conv2D"
    <3>1. out = <<sh[1][1], sh[2][1]>> \o Spatial(op.window, sh[1]) /\ Len(sh) \in {2, 3}
          /\ Len(sh[1]) = 4 /\ Len(sh[2]) = 4
      BY <1>3, <2>1 DEF InferOutputShape, Convolved
    <3>2. sh[1][1] \in Nat /\ sh[2][1] \in Nat
      BY <1>4, <3>1
    <3> QED BY <3>1, <3>2
  <2>2. CASE op.name \in {"MaxPool2D", "AveragePool2D"}
    <3>1. out = <<sh[1][1], sh[1][2]>> \o Spatial(op.window, sh[1]) /\ Len(sh) = 1 /\ Len(sh[1]) = 4
      BY <1>3, <2>2 DEF InferOutputShape, Pooled
    <3>2. sh[1][1] \in Nat /\ sh[1][2] \in Nat
      BY <1>4, <3>1
    <3> QED BY <3>1, <3>2
  <2> QED BY <1>2, <2>1, <2>2
<1>6. 1 \in DOMAIN sh /\ Len(sh[1]) = 4
  BY <1>2, <1>3, <1>4 DEF InferOutputShape, Convolved, Pooled
<1>7. \E x, y \in Nat : Spatial(op.window, sh[1]) = <<x, y>>
  <2>1. WindowTyped(op.window) /\ sh[1] \in Seq(Nat)
    BY <1>2, <1>3, <1>6 DEF OpTyped
  <2> QED BY <1>6, <2>1, SpatialTyped
<1>8. Slid(op.window, sh[1], out)
  <2> DEFINE w == op.window
             in == sh[1]
             x == Windows(in[3], w.pad[1], w.kernel[1], w.stride[1])
             y == Windows(in[4], w.pad[2], w.kernel[2], w.stride[2])
  <2>1. Spatial(w, in) = <<x, y>>
    BY DEF Spatial
  <2>2. x \in Nat /\ y \in Nat
    <3> HIDE DEF x, y
    <3> QED BY <1>7, <2>1
  <2>3. Len(out) = 4 /\ out[3] = x /\ out[4] = y
    <3> HIDE DEF x, y, out
    <3> QED BY <1>5, <2>1, <2>2, FourDims
  <2> HIDE DEF out, w, in
  <2>4. Slid(w, in, out)
    BY <2>3 DEF Slid
  <2> QED BY <2>4 DEF w, in
<1> QED BY <1>2, <1>6, <1>8 DEF op, out

\* Nodes that are there keep their windows while values are added.
LEMMA WindowKept ==
  ASSUME Formed(gr), NEW k \in NodeIds(gr), Windowed(gr, k), gr'.nodes[k] = gr.nodes[k],
         Values(gr) \subseteq Values(gr)', \A v \in Values(gr) : gr'.shape[v] = gr.shape[v]
  PROVE  Windowed(gr', k)
<1>1. gr.nodes[k].out \in Values(gr)
  BY DEF Formed
<1> QED BY <1>1 DEF Windowed, Slid

\* An input or a weight is no node, and its name is that of an input.
LEMMA WindowsInput ==
  ASSUME Formed(gr), WindowsInv, NEW sh, NEW x, gr' = WithInput(gr, sh), ids' = With(ids, x, gr.next),
         model' = model
  PROVE  WindowsInv'
<1>1. /\ Values(gr)' = Values(gr) \cup {gr.next} /\ gr'.nodes = gr.nodes
      /\ \A v \in Values(gr) : gr'.shape[v] = gr.shape[v]
  BY FormedInput
<1>2. NodeIds(gr)' = NodeIds(gr)
  BY <1>1 DEF NodeIds
<1>3. \A k \in NodeIds(gr)' : Windowed(gr', k)
  BY <1>1, <1>2, WindowKept DEF WindowsInv
<1>4. /\ DOMAIN gr'.inputs = 1 .. Len(gr.inputs) + 1 /\ DOMAIN gr.inputs = 1 .. Len(gr.inputs)
      /\ \A i \in 1 .. Len(gr.inputs) : gr'.inputs[i] = gr.inputs[i]
      /\ gr'.inputs[Len(gr.inputs) + 1] = gr.next /\ Len(gr.inputs) \in Nat
  <2>1. gr' = [nodes |-> gr.nodes, inputs |-> Append(gr.inputs, gr.next), outputs |-> gr.outputs,
               next |-> gr.next + 1, shape |-> Shaped(gr, sh)]
    BY BuildFields
  <2>2. gr'.inputs = Append(gr.inputs, gr.next)
    BY <2>1
  <2>3. IsList(gr.inputs)
    BY DEF Formed
  <2> QED BY <2>2, <2>3, ListAppend DEF IsList
<1>5. NamesComputed'
  <2> SUFFICES ASSUME NEW y \in DOMAIN ids'
               PROVE  Computed(y)' \/ \E i \in DOMAIN gr'.inputs : gr'.inputs[i] = ids'[y]
    BY DEF NamesComputed
  <2>1. Computed(y)' <=> Computed(y)
    BY DEF Computed
  <2>2. CASE y = x
    <3>1. ids'[y] = gr.next
      BY <2>2 DEF With
    <3> QED BY <1>4, <3>1
  <2>3. CASE y # x
    <3>1. y \in DOMAIN ids /\ ids'[y] = ids[y]
      BY <2>3 DEF With
    <3> QED BY <1>4, <2>1, <3>1 DEF WindowsInv, NamesComputed
  <2> QED BY <2>2, <2>3
<1> QED BY <1>3, <1>5 DEF WindowsInv

\* The window of a node is slid over its input, and the file computes its name.
LEMMA WindowsNode ==
  ASSUME ImportTyped, ElementsInv, WindowsInv, WellRead(model), ImportNode
  PROVE  WindowsInv'
<1> DEFINE n == model.nodes[at + 1]
           op == OpOf(n)
           in == InIds(n)
           shapes == ShapesOf(gr, in)
           sh == InferOutputShape(op, shapes)
           x == n.out[1]
<1>1. model' = model
  BY DEF ImportNode, Entry
<1>2. CASE gr' = gr /\ ids' = ids
  BY <1>1, <1>2 DEF WindowsInv, NamesComputed, Computed
<1>3. CASE ~(gr' = gr /\ ids' = ids)
  <2>1. /\ IsList(n.in) /\ NodeFine(n) /\ at + 1 \in DOMAIN model.nodes
        /\ ids' = With(ids, x, gr.next) /\ x \in Members(n.out)
        /\ Values(gr)' = Values(gr) \cup {gr.next} /\ gr'.inputs = gr.inputs
        /\ \A v \in Values(gr) : gr'.shape[v] = gr.shape[v]
        /\ gr'.shape[gr.next] = sh
        /\ \A k \in NodeIds(gr)' : \/ k \in NodeIds(gr) /\ gr'.nodes[k] = gr.nodes[k]
                                   \/ gr'.nodes[k] = [op |-> op, in |-> in, out |-> gr.next]
    BY <1>3, NodeImported
  <2>2. /\ Supported(n) /\ Buildable(n, shapes, constants) /\ op = Built(n, shapes, constants)
        /\ OpTyped(op) /\ sh # Throws
        /\ \A i \in DOMAIN in : in[i] \in Values(gr)
        /\ DOMAIN shapes = DOMAIN in /\ IsList(shapes)
        /\ \A i \in DOMAIN shapes : shapes[i] = gr.shape[in[i]] /\ shapes[i] \in Seq(Nat)
    BY <2>1, NodeInferred
  <2>3. "window" \in DOMAIN op => 1 \in DOMAIN shapes /\ WindowBounded(op.window) /\ Slid(op.window, shapes[1], sh)
    BY <2>2, BuiltSlides
  <2>4. Computed(x)
    BY <2>1 DEF Computed
  <2> HIDE DEF n, op, in, shapes, sh, x
  <2>5. ASSUME NEW k \in NodeIds(gr)'
        PROVE  Windowed(gr', k)
    <3>1. CASE k \in NodeIds(gr) /\ gr'.nodes[k] = gr.nodes[k]
      BY <2>1, <3>1, WindowKept DEF ImportTyped, WindowsInv
    <3>2. CASE gr'.nodes[k] = [op |-> op, in |-> in, out |-> gr.next]
      <4> SUFFICES ASSUME "window" \in DOMAIN op
                   PROVE  /\ in[1] \in Values(gr') /\ WindowBounded(op.window)
                          /\ Slid(op.window, gr'.shape[in[1]], gr'.shape[gr.next])
        BY <3>2 DEF Windowed
      <4>1. in[1] \in Values(gr) /\ shapes[1] = gr.shape[in[1]]
        BY <2>2, <2>3
      <4>2. gr'.shape[in[1]] = shapes[1] /\ gr'.shape[gr.next] = sh /\ in[1] \in Values(gr)'
        BY <2>1, <4>1
      <4> QED BY <2>3, <4>2
    <3> QED BY <2>1, <3>1, <3>2
  <2>6. NamesComputed'
    <3> SUFFICES ASSUME NEW y \in DOMAIN ids'
                 PROVE  Computed(y)' \/ \E i \in DOMAIN gr'.inputs : gr'.inputs[i] = ids'[y]
      BY DEF NamesComputed
    <3>1. Computed(y)' <=> Computed(y)
      BY <1>1 DEF Computed
    <3>2. CASE y = x
      BY <2>4, <3>1, <3>2
    <3>3. CASE y # x
      <4>1. y \in DOMAIN ids /\ ids'[y] = ids[y]
        BY <2>1, <3>3 DEF With
      <4> QED BY <2>1, <3>1, <4>1 DEF WindowsInv, NamesComputed
    <3> QED BY <3>2, <3>3
  <2> QED BY <2>5, <2>6 DEF WindowsInv
<1> QED BY <1>2, <1>3

\* No step of the importer changes a window or a shape that is there.
LEMMA WindowsPreserved ==
  ASSUME ImportInv, ElementsInv, WindowsInv, [Next]_vars
  PROVE  WindowsInv'
<1> USE DEF ImportInv
<1>1. Formed(gr) /\ WellRead(model)
  BY DEF ImportTyped, ReaderInv
<1>2. CASE gr' = gr /\ ids' = ids /\ model' = model
  <2>1. \A x : Computed(x)' <=> Computed(x)
    BY <1>2 DEF Computed
  <2> QED BY <1>2, <2>1 DEF WindowsInv, NamesComputed
<1>3. CASE ImportInput
  <2> DEFINE d == model.inputs[at + 1]
  <2>1. \/ gr' = gr /\ ids' = ids /\ model' = model
        \/ gr' = WithInput(gr, d.dims) /\ ids' = With(ids, d.name, gr.next) /\ model' = model
    BY <1>3 DEF ImportInput, Entry, AddInput
  <2> HIDE DEF d
  <2> QED BY <1>1, <1>2, <2>1, WindowsInput
<1>4. CASE ImportInit
  <2> DEFINE i == model.inits[at + 1]
  <2>1. \/ gr' = gr /\ ids' = ids /\ model' = model
        \/ gr' = WithInput(gr, i.desc.dims) /\ ids' = With(ids, i.desc.name, gr.next) /\ model' = model
    BY <1>4 DEF ImportInit, Entry, AddInit
  <2> HIDE DEF i
  <2> QED BY <1>1, <1>2, <2>1, WindowsInput
<1>5. CASE ImportNode
  BY <1>1, <1>5, WindowsNode
<1>6. CASE ImportOutput
  <2> DEFINE d == model.outputs[at + 1]
             v == ids[d.name]
  <2>1. /\ ids' = ids /\ model' = model
        /\ \/ gr' = gr
           \/ OutputFine(d) /\ gr' = WithOutput(gr, v)
    BY <1>6 DEF ImportOutput, Entry, MarkOutput
  <2>2. CASE OutputFine(d) /\ gr' = WithOutput(gr, v)
    <3>1. v \in Values(gr)
      BY <2>2 DEF OutputFine, ImportTyped
    <3> HIDE DEF d, v
    <3>2. gr'.nodes = gr.nodes /\ gr'.shape = gr.shape /\ gr'.inputs = gr.inputs
      BY <1>1, <2>2, <3>1, FormedOutput
    <3>3. Values(gr)' = Values(gr) /\ NodeIds(gr)' = NodeIds(gr)
      BY <3>2 DEF Values, NodeIds
    <3>4. \A k \in NodeIds(gr)' : Windowed(gr', k)
      BY <1>1, <3>2, <3>3, WindowKept DEF WindowsInv
    <3>5. \A x : Computed(x)' <=> Computed(x)
      BY <2>1 DEF Computed
    <3> QED BY <2>1, <3>2, <3>4, <3>5 DEF WindowsInv, NamesComputed
  <2> QED BY <1>2, <2>1, <2>2
<1>7. CASE ReaderNext /\ UNCHANGED importVars
  <2>1. gr' = gr /\ ids' = ids
    BY <1>7 DEF importVars
  <2>2. DOMAIN ids = {}
    <3>1. status \in {"opened", "reading"}
      BY <1>7 DEF ReaderNext, ReadHeader, ReadSection, ValidateGraph
    <3> QED BY <3>1, NoneKnown DEF KnownInv
  <2> QED BY <2>1, <2>2 DEF WindowsInv, NamesComputed
<1>8. CASE \/ CheckOpset \/ Validate \/ Run \/ UNCHANGED vars
           \/ Done("inputs", model.inputs, "inits") \/ Done("inits", model.inits, "nodes")
           \/ Done("nodes", model.nodes, "outputs") \/ Done("outputs", model.outputs, "built")
  <2>1. gr' = gr /\ ids' = ids /\ model' = model
    BY <1>8 DEF CheckOpset, Validate, Run, Done, vars, importVars, readerVars
  <2> QED BY <1>2, <2>1
<1> QED BY <1>3, <1>4, <1>5, <1>6, <1>7, <1>8 DEF Next, FromFgx

\* A shape that the file gives has dimensions that an int holds.
LEMMA ExpectedBounded ==
  ASSUME WellRead(model), NEW x, NEW e \in Expected(x)
  PROVE  \A i \in 1 .. Len(e) : e[i] \in 1 .. MaxDim
<1>1. PICK d : DimsFine(d) /\ e = d.dims
  BY DEF Expected, WellRead
<1> QED BY <1>1 DEF DimsFine, Dimension

-----------------------------------------------------------------------------
(* What the graph means                                                     *)

\* Inputs are numbered in order, and nodes read values with lower numbers.
Numbered(g) ==
  /\ \A i \in 1 .. Len(g.inputs) : g.inputs[i] = i - 1
  /\ \A k \in NodeIds(g) : \A i \in DOMAIN g.nodes[k].in : g.nodes[k].in[i] \in 0 .. g.nodes[k].out - 1

\* What v denotes when f is what the other values denote: one step of the
\* recursive definition of the model.
ValueOf(g, args, f, v) ==
  IF \E i \in DOMAIN g.inputs : g.inputs[i] = v
  THEN args[CHOOSE i \in DOMAIN g.inputs : g.inputs[i] = v]
  ELSE LET n == CHOOSE k \in NodeIds(g) : g.nodes[k].out = v IN
       <<g.nodes[n].op, [i \in DOMAIN g.nodes[n].in |-> f[g.nodes[n].in[i]]]>>

DenoteStep(p, v, f) == ValueOf(p.gr, p.args, f, v)

\* The denotation, as a recursion over values in the order of their numbers.
Denoting == INSTANCE Repetition WITH Step <- DenoteStep

\* Node k applied to what f says of its inputs.
Applied(g, k, f) == <<g.nodes[k].op, [i \in DOMAIN g.nodes[k].in |-> f[g.nodes[k].in[i]]]>>

\* A value is an input or made by a node.
LEMMA ValueKinds ==
  ASSUME NEW g, Formed(g), Numbered(g)
  PROVE  /\ DOMAIN g.inputs = 1 .. Len(g.inputs) /\ Len(g.inputs) \in Nat
         /\ \A i \in 1 .. Len(g.inputs) : g.inputs[i] = i - 1 /\ i - 1 \in Values(g)
         /\ \A k \in NodeIds(g) : g.nodes[k].out \in Values(g)
         /\ \A v \in Values(g) : \/ \E i \in 1 .. Len(g.inputs) : v = i - 1
                                 \/ \E k \in NodeIds(g) : v = g.nodes[k].out
<1>1. /\ DOMAIN g.inputs = 1 .. Len(g.inputs) /\ Len(g.inputs) \in Nat
      /\ \A i \in 1 .. Len(g.inputs) : g.inputs[i] = i - 1 /\ g.inputs[i] \in Values(g)
      /\ \A k \in NodeIds(g) : g.nodes[k].out \in Values(g)
      /\ \A v \in Values(g) : \/ \E i \in 1 .. Len(g.inputs) : g.inputs[i] = v
                              \/ \E k \in NodeIds(g) : g.nodes[k].out = v
  BY DEF Formed, IsList, Numbered
<1> QED BY <1>1

\* It is one input only,
LEMMA InputValue ==
  ASSUME NEW g, Formed(g), Numbered(g), NEW args, NEW f, NEW i \in 1 .. Len(g.inputs)
  PROVE  ValueOf(g, args, f, i - 1) = args[i]
<1>1. i \in DOMAIN g.inputs /\ g.inputs[i] = i - 1
  BY ValueKinds
<1>2. \A j \in DOMAIN g.inputs : g.inputs[j] = i - 1 => j = i
  BY ValueKinds
<1>3. (CHOOSE j \in DOMAIN g.inputs : g.inputs[j] = i - 1) = i
  BY <1>1, <1>2
<1> QED BY <1>1, <1>3 DEF ValueOf

\* or made by one node only.
LEMMA NodeValue ==
  ASSUME NEW g, Formed(g), NEW args, NEW f, NEW k \in NodeIds(g)
  PROVE  ValueOf(g, args, f, g.nodes[k].out) = Applied(g, k, f)
<1>1. /\ ~ \E i \in DOMAIN g.inputs : g.inputs[i] = g.nodes[k].out
      /\ \A j \in NodeIds(g) : g.nodes[j].out = g.nodes[k].out => j = k
  BY DEF Formed, WellFormed
<1>2. (CHOOSE j \in NodeIds(g) : g.nodes[j].out = g.nodes[k].out) = k
  BY <1>1
<1> QED BY <1>1, <1>2 DEF ValueOf, Applied

\* The recursion goes down, so that it says what every value denotes.
LEMMA DenotationObeys ==
  ASSUME NEW g, Formed(g), Numbered(g), NEW args
  PROVE  LET d == Denotation(g, args) IN
         /\ \A i \in 1 .. Len(g.inputs) : d[i - 1] = args[i]
         /\ \A k \in NodeIds(g) : d[g.nodes[k].out] = Applied(g, k, d)
<1> DEFINE p == [gr |-> g, args |-> args]
           S == Values(g)
           rank == [v \in S |-> v]
           d == Denotation(g, args)
<1>1. S = 0 .. g.next - 1 /\ g.next \in Nat
  BY DEF Formed
<1>2. \A f, v : DenoteStep(p, v, f) = ValueOf(g, args, f, v)
  BY DEF DenoteStep
<1> HIDE DEF p
<1>3. Denoting!Descends(p, S, rank)
  <2>1. \A v \in S : rank[v] \in Nat
    BY <1>1
  <2>2. ASSUME NEW v \in S, NEW f, NEW h, \A u \in S : rank[u] < rank[v] => f[u] = h[u]
        PROVE  DenoteStep(p, v, f) = DenoteStep(p, v, h)
    <3>1. ASSUME NEW i \in 1 .. Len(g.inputs), v = i - 1
          PROVE  DenoteStep(p, v, f) = DenoteStep(p, v, h)
      <4>1. ASSUME NEW e PROVE ValueOf(g, args, e, i - 1) = args[i]
        BY InputValue
      <4> QED BY <1>2, <3>1, <4>1
    <3>2. ASSUME NEW k \in NodeIds(g), v = g.nodes[k].out
          PROVE  DenoteStep(p, v, f) = DenoteStep(p, v, h)
      <4>1. ASSUME NEW i \in DOMAIN g.nodes[k].in
            PROVE  f[g.nodes[k].in[i]] = h[g.nodes[k].in[i]]
        <5> DEFINE u == g.nodes[k].in[i]
        <5>1. u \in 0 .. v - 1
          BY <3>2 DEF Numbered
        <5> HIDE DEF u
        <5>2. u \in S /\ u < v
          BY <1>1, <5>1
        <5> QED BY <2>2, <5>2 DEF u
      <4>2. Applied(g, k, f) = Applied(g, k, h)
        BY <4>1 DEF Applied
      <4>3. ASSUME NEW e PROVE ValueOf(g, args, e, g.nodes[k].out) = Applied(g, k, e)
        BY NodeValue
      <4> QED BY <1>2, <3>2, <4>2, <4>3
    <3> QED BY <3>1, <3>2, ValueKinds
  <2> HIDE DEF S, rank
  <2> QED BY <2>1, <2>2 DEF Denoting!Descends
<1>4. \E f : f = [v \in S |-> ValueOf(g, args, f, v)]
  <2> HIDE DEF S, rank
  <2>1. PICK f : Denoting!Solves(p, S, f)
    BY <1>3, Denoting!SolutionExists
  <2>2. f = [v \in S |-> DenoteStep(p, v, f)]
    BY <2>1 DEF Denoting!Solves
  <2>3. f = [v \in S |-> ValueOf(g, args, f, v)]
    BY <1>2, <2>2
  <2> QED BY <2>3
<1>5. d = CHOOSE f : f = [v \in S |-> ValueOf(g, args, f, v)]
  BY DEF Denotation, ValueOf
<1>6. d = [v \in S |-> ValueOf(g, args, d, v)]
  <2> HIDE DEF d, S
  <2> QED BY <1>4, <1>5
<1> HIDE DEF d, S
<1>7. \A v \in S : d[v] = ValueOf(g, args, d, v)
  BY <1>6
<1>8. ASSUME NEW i \in 1 .. Len(g.inputs)
      PROVE  d[i - 1] = args[i]
  <2>1. i - 1 \in S
    BY ValueKinds DEF S
  <2>2. ValueOf(g, args, d, i - 1) = args[i]
    BY InputValue
  <2> QED BY <1>7, <2>1, <2>2
<1>9. ASSUME NEW k \in NodeIds(g)
      PROVE  d[g.nodes[k].out] = Applied(g, k, d)
  <2>1. g.nodes[k].out \in S
    BY ValueKinds DEF S
  <2>2. ValueOf(g, args, d, g.nodes[k].out) = Applied(g, k, d)
    BY NodeValue
  <2> QED BY <1>7, <2>1, <2>2
<1> QED BY <1>8, <1>9 DEF d

-----------------------------------------------------------------------------
(* What names stand for                                                     *)

\* Node k of the graph is what would be built of node j of the model.
Replays(j, k) ==
  LET n == model.nodes[j] IN
  /\ \A i \in DOMAIN Tensors(n) : Tensors(n)[i] \in DOMAIN ids
  /\ gr.nodes[k].op = OpOf(n)
  /\ gr.nodes[k].in = InIds(n)

\* The value of name x is an input, a weight behind the inputs, or made by a node.
IsInput(x) == \E i \in DOMAIN model.inputs : model.inputs[i].name = x /\ ids[x] = i - 1

IsWeight(x) ==
  \E i \in DOMAIN model.inits, j \in 1 .. Len(weights) :
    /\ model.inits[i].desc.name = x
    /\ weights[j] = model.inits[i].data
    /\ ids[x] = Len(model.inputs) + j - 1

IsComputed(x) ==
  \E j \in DOMAIN model.nodes, k \in NodeIds(gr) :
    x \in Members(model.nodes[j].out) /\ ids[x] = gr.nodes[k].out /\ Replays(j, k)

\* Names stand for different values, each of the kind that the model says.
TracedInv ==
  /\ Numbered(gr)
  /\ \A x, y \in DOMAIN ids : ids[x] = ids[y] => x = y
  /\ \A x \in DOMAIN ids : IsInput(x) \/ IsWeight(x) \/ IsComputed(x)
  /\ \A i \in 1 .. Len(gr.outputs) :
       model.outputs[i].name \in DOMAIN ids /\ gr.outputs[i] = ids[model.outputs[i].name]

\* The lists of the graph grow one after the other.
ProgressInv ==
  /\ status \in {"opened", "reading", "rejected", "parsed"} => gr = NoGraph /\ weights = <<>>
  /\ status = "inputs" => Len(gr.inputs) = at /\ weights = <<>>
  /\ status \in {"inits", "nodes", "outputs", "built", "imported", "ran"} =>
       Len(gr.inputs) = Len(model.inputs) + Len(weights)
  /\ status \in {"inputs", "inits"} => gr.nodes = <<>>
  /\ status \in {"inputs", "inits", "nodes"} => gr.outputs = <<>>
  /\ status = "outputs" => Len(gr.outputs) = at
  /\ status \in {"built", "imported", "ran"} => Len(gr.outputs) = Len(model.outputs)

\* Without nodes, the next value comes behind the inputs.
LEMMA NextInput ==
  ASSUME NEW g, Formed(g), Numbered(g), g.nodes = <<>>
  PROVE  g.next = Len(g.inputs) /\ NodeIds(g) = {}
<1>1. NodeIds(g) = {}
  BY DEF NodeIds
<1>2. g.next \in Nat /\ Values(g) = 0 .. g.next - 1
  BY DEF Formed
<1>3. /\ Len(g.inputs) \in Nat
      /\ \A i \in 1 .. Len(g.inputs) : i - 1 \in Values(g)
      /\ \A v \in Values(g) : \E i \in 1 .. Len(g.inputs) : v = i - 1
  BY <1>1, ValueKinds
<1> DEFINE m == Len(g.inputs)
<1> HIDE DEF m
<1>4. ~ (g.next > m)
  <2> SUFFICES ASSUME g.next > m PROVE FALSE
    OBVIOUS
  <2>1. m \in Values(g) /\ m \in Nat
    BY <1>2, <1>3 DEF m
  <2> QED BY <1>3, <2>1 DEF m
<1>5. ~ (g.next < m)
  <2> SUFFICES ASSUME g.next < m PROVE FALSE
    OBVIOUS
  <2>1. g.next + 1 \in 1 .. m
    BY <1>2, <1>3 DEF m
  <2>2. (g.next + 1) - 1 \in Values(g)
    BY <1>3, <2>1 DEF m
  <2> QED BY <1>2, <2>2
<1> QED BY <1>1, <1>2, <1>3, <1>4, <1>5 DEF m

\* What is built of a node is what would be built when there is more,
LEMMA BuiltAgain ==
  ASSUME ImportTyped, model' = model, constants' = constants,
         \A y \in DOMAIN ids : y \in DOMAIN ids' /\ ids'[y] = ids[y],
         \A v \in Values(gr) : gr'.shape[v] = gr.shape[v],
         NEW j, \A i \in DOMAIN Tensors(model.nodes[j]) : Tensors(model.nodes[j])[i] \in DOMAIN ids,
         NEW k, gr'.nodes[k].op = OpOf(model.nodes[j]), gr'.nodes[k].in = InIds(model.nodes[j])
  PROVE  Replays(j, k)'
<1> DEFINE n == model.nodes[j]
           t == Tensors(n)
           in == InIds(n)
<1>1. \A i \in DOMAIN t : t[i] \in DOMAIN ids /\ t[i] \in DOMAIN ids' /\ ids'[t[i]] = ids[t[i]]
  OBVIOUS
<1>2. [i \in DOMAIN t |-> ids'[t[i]]] = in
  BY <1>1 DEF InIds
<1>3. \A i \in DOMAIN in : in[i] \in Values(gr)
  <2>1. in = [i \in DOMAIN t |-> ids[t[i]]]
    BY DEF InIds
  <2> HIDE DEF t, in
  <2> QED BY <1>1, <2>1 DEF ImportTyped
<1> DEFINE sh == ShapesOf(gr, in)
<1>4. [i \in DOMAIN in |-> gr'.shape[in[i]]] = sh
  <2> HIDE DEF in
  <2> QED BY <1>3 DEF ShapesOf
<1>5. gr'.nodes[k].op = Built(n, sh, constants) /\ gr'.nodes[k].in = in
  BY DEF OpOf
<1>6. InIds(n)' = [i \in DOMAIN t |-> ids'[t[i]]] /\ t' = t /\ n' = n
  BY DEF InIds
<1>7. OpOf(n)' = Built(n, sh, constants)
  <2>1. ShapesOf(gr, InIds(n))' = sh
    <3>1. ShapesOf(gr, InIds(n))' = [i \in DOMAIN InIds(n)' |-> gr'.shape[InIds(n)'[i]]]
      BY DEF ShapesOf
    <3> HIDE DEF n, t, in, sh
    <3> QED BY <1>2, <1>4, <1>6, <3>1
  <2>2. OpOf(n)' = Built(n, ShapesOf(gr, InIds(n)), constants)'
    BY DEF OpOf
  <2>3. Built(n, ShapesOf(gr, InIds(n)), constants)' = Built(n, sh, constants)
    BY <1>6, <2>1 DEF Built
  <2> QED BY <2>2, <2>3
<1>8. Replays(j, k)' <=>
        /\ \A i \in DOMAIN t' : t'[i] \in DOMAIN ids'
        /\ gr'.nodes[k].op = OpOf(n)'
        /\ gr'.nodes[k].in = InIds(n)'
  BY DEF Replays
<1> HIDE DEF n, t, in, sh
<1> QED BY <1>1, <1>2, <1>5, <1>6, <1>7, <1>8

\* as is what was built before.
LEMMA ReplayKept ==
  ASSUME ImportTyped, model' = model, constants' = constants,
         \A y \in DOMAIN ids : y \in DOMAIN ids' /\ ids'[y] = ids[y],
         \A v \in Values(gr) : gr'.shape[v] = gr.shape[v],
         NEW j, NEW k, gr'.nodes[k] = gr.nodes[k], Replays(j, k)
  PROVE  Replays(j, k)'
<1>1. /\ \A i \in DOMAIN Tensors(model.nodes[j]) : Tensors(model.nodes[j])[i] \in DOMAIN ids
      /\ gr'.nodes[k].op = OpOf(model.nodes[j]) /\ gr'.nodes[k].in = InIds(model.nodes[j])
  BY DEF Replays
<1> QED BY <1>1, BuiltAgain

\* What a name stands for is as it was when there is more.
LEMMA KindKept ==
  ASSUME ImportTyped, model' = model, constants' = constants \/ NodeIds(gr) = {},
         \A y \in DOMAIN ids : y \in DOMAIN ids' /\ ids'[y] = ids[y],
         \A v \in Values(gr) : gr'.shape[v] = gr.shape[v],
         \A k \in NodeIds(gr) : k \in NodeIds(gr)' /\ gr'.nodes[k] = gr.nodes[k],
         \A j \in 1 .. Len(weights) : j \in 1 .. Len(weights') /\ weights'[j] = weights[j],
         NEW x \in DOMAIN ids, IsInput(x) \/ IsWeight(x) \/ IsComputed(x)
  PROVE  (IsInput(x) \/ IsWeight(x) \/ IsComputed(x))'
<1>1. CASE IsInput(x)
  <2>1. IsInput(x)'
    BY <1>1 DEF IsInput
  <2> QED BY <2>1
<1>2. CASE IsWeight(x)
  <2>1. IsWeight(x)'
    BY <1>2 DEF IsWeight
  <2> QED BY <2>1
<1>3. CASE IsComputed(x)
  <2>1. PICK j \in DOMAIN model.nodes, k \in NodeIds(gr) :
          x \in Members(model.nodes[j].out) /\ ids[x] = gr.nodes[k].out /\ Replays(j, k)
    BY <1>3 DEF IsComputed
  <2>2. constants' = constants
    BY <2>1
  <2>3. Replays(j, k)'
    BY <2>1, <2>2, ReplayKept
  <2>4. IsComputed(x)'
    BY <2>1, <2>3 DEF IsComputed
  <2> QED BY <2>4
<1> QED BY <1>1, <1>2, <1>3

\* A new value is that of one more name.
LEMMA TracedName ==
  ASSUME ImportTyped, TracedInv, model' = model, constants' = constants,
         NEW x, x \notin Known, ids' = With(ids, x, gr.next),
         Values(gr)' = Values(gr) \cup {gr.next}, Numbered(gr'), gr'.outputs = gr.outputs,
         \A v \in Values(gr) : gr'.shape[v] = gr.shape[v],
         \A k \in NodeIds(gr) : k \in NodeIds(gr)' /\ gr'.nodes[k] = gr.nodes[k],
         \A j \in 1 .. Len(weights) : j \in 1 .. Len(weights') /\ weights'[j] = weights[j],
         (IsInput(x) \/ IsWeight(x) \/ IsComputed(x))'
  PROVE  TracedInv'
<1>1. /\ DOMAIN ids' = DOMAIN ids \cup {x}
      /\ ids'[x] = gr.next /\ \A y \in DOMAIN ids : ids'[y] = ids[y]
  BY NewName
<1>2. gr.next \notin Values(gr) /\ \A y \in DOMAIN ids : ids[y] \in Values(gr)
  BY DEF ImportTyped, Formed
<1>3. \A y, z \in DOMAIN ids' : ids'[y] = ids'[z] => y = z
  BY <1>1, <1>2 DEF TracedInv
<1>4. ASSUME NEW y \in DOMAIN ids
      PROVE  (IsInput(y) \/ IsWeight(y) \/ IsComputed(y))'
  <2>1. IsInput(y) \/ IsWeight(y) \/ IsComputed(y)
    BY DEF TracedInv
  <2> QED BY <1>1, <2>1, KindKept
<1>5. \A y \in DOMAIN ids' : IsInput(y)' \/ IsWeight(y)' \/ IsComputed(y)'
  BY <1>1, <1>4
<1>6. \A i \in 1 .. Len(gr'.outputs) :
        model'.outputs[i].name \in DOMAIN ids' /\ gr'.outputs[i] = ids'[model'.outputs[i].name]
  BY <1>1 DEF TracedInv
<1> QED BY <1>3, <1>5, <1>6 DEF TracedInv

\* One more input keeps the numbers in order if there are no nodes,
LEMMA NumberedInput ==
  ASSUME NEW g, Formed(g), Numbered(g), g.nodes = <<>>, NEW sh
  PROVE  LET h == WithInput(g, sh) IN
         /\ Numbered(h) /\ g.next = Len(g.inputs)
         /\ h.nodes = g.nodes /\ h.outputs = g.outputs /\ NodeIds(g) = {}
         /\ Len(h.inputs) = Len(g.inputs) + 1
         /\ Values(h) = Values(g) \cup {g.next}
         /\ \A v \in Values(g) : h.shape[v] = g.shape[v]
<1> DEFINE h == WithInput(g, sh)
<1>1. h = [nodes |-> g.nodes, inputs |-> Append(g.inputs, g.next), outputs |-> g.outputs,
           next |-> g.next + 1, shape |-> Shaped(g, sh)]
  BY BuildFields
<1>2. Values(h) = Values(g) \cup {g.next} /\ Len(h.inputs) = Len(g.inputs) + 1
  BY FormedInput
<1>3. g.next = Len(g.inputs) /\ NodeIds(g) = {}
  BY NextInput
<1> HIDE DEF h
<1>4. /\ h.nodes = g.nodes /\ h.outputs = g.outputs /\ h.shape = Shaped(g, sh)
      /\ h.inputs = Append(g.inputs, g.next)
  BY <1>1
<1>5. \A v \in Values(g) : h.shape[v] = g.shape[v]
  BY <1>4, ShapedFields
<1>6. Numbered(h)
  <2>1. IsList(g.inputs) /\ Len(g.inputs) \in Nat
    BY DEF Formed, IsList
  <2>2. /\ \A i \in 1 .. Len(g.inputs) : h.inputs[i] = g.inputs[i] /\ g.inputs[i] = i - 1
        /\ h.inputs[Len(g.inputs) + 1] = g.next
    BY <1>4, <2>1, ListAppend DEF Numbered
  <2>3. \A i \in 1 .. Len(h.inputs) : h.inputs[i] = i - 1
    BY SMTT(30), <1>2, <1>3, <2>1, <2>2
  <2>4. NodeIds(h) = {}
    BY <1>3, <1>4 DEF NodeIds
  <2> QED BY <2>3, <2>4 DEF Numbered
<1> QED BY <1>2, <1>3, <1>4, <1>5, <1>6 DEF h

\* and so does one more node.
LEMMA NumberedNode ==
  ASSUME NEW g, Formed(g), Numbered(g), NEW op, NEW in, \A i \in DOMAIN in : in[i] \in Values(g)
  PROVE  Numbered(WithNode(g, op, in))
<1> DEFINE h == WithNode(g, op, in)
           node == [op |-> op, in |-> in, out |-> g.next]
<1>1. h.inputs = g.inputs
  BY FormedNode
<1>2. \A k \in NodeIds(h) : (k \in NodeIds(g) /\ h.nodes[k] = g.nodes[k]) \/ h.nodes[k] = node
  BY LastNode
<1>3. Values(g) = 0 .. g.next - 1
  BY DEF Formed
<1> HIDE DEF h
<1>4. ASSUME NEW k \in NodeIds(h), NEW i \in DOMAIN h.nodes[k].in
      PROVE  h.nodes[k].in[i] \in 0 .. h.nodes[k].out - 1
  <2>1. CASE k \in NodeIds(g) /\ h.nodes[k] = g.nodes[k]
    BY <2>1 DEF Numbered
  <2>2. CASE h.nodes[k] = node
    BY <1>3, <2>2
  <2> QED BY <1>2, <2>1, <2>2
<1>5. Numbered(h)
  BY <1>1, <1>4 DEF Numbered
<1> QED BY <1>5 DEF h

\* A step that builds nothing keeps what names stand for.
LEMMA TracedKept ==
  ASSUME ImportTyped, TracedInv, Unbuilt
  PROVE  TracedInv'
<1>1. /\ gr' = gr /\ ids' = ids /\ constants' = constants /\ weights' = weights /\ model' = model
      /\ NodeIds(gr)' = NodeIds(gr)
  BY DEF Unbuilt
<1>2. ASSUME NEW y \in DOMAIN ids
      PROVE  (IsInput(y) \/ IsWeight(y) \/ IsComputed(y))'
  <2>1. IsInput(y) \/ IsWeight(y) \/ IsComputed(y)
    BY DEF TracedInv
  <2> QED BY <1>1, <2>1, KindKept
<1> QED BY <1>1, <1>2 DEF TracedInv

\* An input stands for itself.
LEMMA InputTraced ==
  ASSUME ImportTyped, KnownInv, TracedInv, ProgressInv, WellRead(model), ImportInput
  PROVE  TracedInv' /\ ProgressInv'
<1> DEFINE d == model.inputs[at + 1]
<1>1. /\ status = "inputs" /\ at < Len(model.inputs) /\ model' = model
      /\ \/ AddInput(d) /\ at' = at + 1 /\ status' = status
         \/ status' = "refused" /\ at' = at /\ Unbuilt
  BY DEF ImportInput, Entry, Unbuilt
<1>2. /\ Valid(model) /\ at \in Nat /\ Known = InputNames(model, at)
      /\ Len(gr.inputs) = at /\ weights = <<>> /\ gr.nodes = <<>> /\ gr.outputs = <<>>
      /\ Formed(gr) /\ Numbered(gr)
  BY <1>1 DEF Parsed, ImportTyped, KnownInv, ProgressInv, TracedInv
<1>3. CASE status' = "refused" /\ Unbuilt
  BY <1>3, TracedKept DEF ProgressInv
<1>4. CASE AddInput(d) /\ at' = at + 1 /\ status' = status
  <2>1. /\ gr' = WithInput(gr, d.dims) /\ ids' = With(ids, d.name, gr.next)
        /\ constants' = constants /\ weights' = weights
    BY <1>4 DEF AddInput
  <2>2. at + 1 \in DOMAIN model.inputs /\ d.name \notin Known
    <3>1. at + 1 \in 1 .. Len(model.inputs) /\ \A i \in 1 .. at : i \in 1 .. Len(model.inputs) /\ i # at + 1
      BY <1>1, <1>2, ValidNames
    <3> QED BY <1>2, <3>1, ValidNames DEF InputNames
  <2> DEFINE sh == d.dims
  <2>3. PICK x, j : x = d.name /\ j = at + 1
    OBVIOUS
  <2>4. /\ model'.inputs[j].name = x /\ j \in DOMAIN model'.inputs
        /\ x \notin Known /\ ids' = With(ids, x, gr.next)
    BY <1>1, <2>1, <2>2, <2>3
  <2> HIDE DEF d, sh
  <2>5. /\ Numbered(gr') /\ gr.next = at
        /\ gr'.nodes = gr.nodes /\ gr'.outputs = gr.outputs /\ NodeIds(gr) = {}
        /\ Len(gr'.inputs) = at + 1
        /\ Values(gr)' = Values(gr) \cup {gr.next}
        /\ \A v \in Values(gr) : gr'.shape[v] = gr.shape[v]
    BY <1>2, <2>1, NumberedInput DEF sh
  <2>6. ids'[x] = j - 1
    <3>1. ids'[x] = gr.next
      BY <2>4 DEF With
    <3> QED BY <1>2, <2>3, <2>5, <3>1
  <2>7. IsInput(x)'
    BY <2>4, <2>6 DEF IsInput
  <2>8. TracedInv'
    BY <1>1, <2>1, <2>4, <2>5, <2>7, TracedName
  <2> QED BY <1>1, <1>2, <1>4, <2>1, <2>5, <2>8 DEF ProgressInv
<1> QED BY <1>1, <1>3, <1>4

\* An initializer that is not a constant stands for its data.
LEMMA InitTraced ==
  ASSUME ImportTyped, KnownInv, TracedInv, ProgressInv, WellRead(model), ImportInit
  PROVE  TracedInv' /\ ProgressInv'
<1> DEFINE i == model.inits[at + 1]
           x == i.desc.name
<1>1. /\ status = "inits" /\ at < Len(model.inits) /\ model' = model
      /\ \/ AddInit(i) /\ at' = at + 1 /\ status' = status
         \/ status' = "refused" /\ at' = at /\ Unbuilt
  BY DEF ImportInit, Entry, Unbuilt
<1>2. /\ Valid(model) /\ at \in Nat
      /\ Known = InputNames(model, Len(model.inputs)) \cup InitialNames(model, at)
      /\ Len(gr.inputs) = Len(model.inputs) + Len(weights) /\ gr.nodes = <<>> /\ gr.outputs = <<>>
      /\ Formed(gr) /\ Numbered(gr) /\ IsList(weights)
  BY <1>1 DEF Parsed, ImportTyped, KnownInv, ProgressInv, TracedInv
<1>3. CASE status' = "refused" /\ Unbuilt
  BY <1>3, TracedKept DEF ProgressInv
<1>4. CASE AddInit(i) /\ i.desc.dtype = Int64 /\ at' = at + 1 /\ status' = status
  <2>1. gr' = gr /\ ids' = ids /\ weights' = weights
    BY <1>4 DEF AddInit
  <2>2. NodeIds(gr) = {}
    BY <1>2 DEF NodeIds
  <2>3. \A y \in DOMAIN ids : IsInput(y)' \/ IsWeight(y)' \/ IsComputed(y)'
    <3> SUFFICES ASSUME NEW y \in DOMAIN ids PROVE (IsInput(y) \/ IsWeight(y) \/ IsComputed(y))'
      OBVIOUS
    <3>1. IsInput(y) \/ IsWeight(y) \/ IsComputed(y)
      BY DEF TracedInv
    <3> QED BY <1>1, <2>1, <2>2, <3>1, KindKept
  <2>4. TracedInv'
    BY <1>1, <2>1, <2>3 DEF TracedInv
  <2> QED BY <1>1, <1>2, <1>4, <2>1, <2>4 DEF ProgressInv
<1>5. CASE AddInit(i) /\ i.desc.dtype # Int64 /\ at' = at + 1 /\ status' = status
  <2> DEFINE sh == i.desc.dims
             w == Len(weights)
  <2>1. /\ gr' = WithInput(gr, sh) /\ ids' = With(ids, x, gr.next)
        /\ weights' = Append(weights, i.data) /\ constants' = constants
    BY <1>5 DEF AddInit
  <2>2. at + 1 \in DOMAIN model.inits /\ x \notin Known /\ Len(model.inputs) \in Nat
    <3>1. at + 1 \in 1 .. Len(model.inits) /\ \A j \in 1 .. at : j \in 1 .. Len(model.inits) /\ j # at + 1
      BY <1>1, <1>2, ValidNames
    <3> QED BY <1>2, <3>1, ValidNames DEF InputNames, InitialNames
  <2>3. PICK y, j : y = x /\ j = at + 1
    OBVIOUS
  <2> DEFINE data == i.data
  <2>10. /\ j \in DOMAIN model'.inits /\ model'.inits[j].desc.name = y /\ model'.inits[j].data = data
         /\ y \notin Known /\ ids' = With(ids, y, gr.next)
    BY <1>1, <2>1, <2>2, <2>3
  <2>4. /\ Len(weights') = w + 1 /\ w \in Nat
        /\ \A m \in 1 .. w : m \in 1 .. w + 1 /\ weights'[m] = weights[m]
        /\ weights'[w + 1] = data
    BY <1>2, <2>1, ListAppend DEF IsList
  <2> HIDE DEF i, x, sh, w, data
  <2>5. /\ Numbered(gr') /\ gr.next = Len(gr.inputs)
        /\ gr'.nodes = gr.nodes /\ gr'.outputs = gr.outputs /\ NodeIds(gr) = {}
        /\ Len(gr'.inputs) = Len(gr.inputs) + 1
        /\ Values(gr)' = Values(gr) \cup {gr.next}
        /\ \A v \in Values(gr) : gr'.shape[v] = gr.shape[v]
    BY <1>2, <2>1, NumberedInput
  <2>6. ids'[y] = Len(model.inputs) + w
    <3>1. ids'[y] = gr.next
      BY <2>10 DEF With
    <3> QED BY <1>2, <2>5, <3>1 DEF w
  <2>7. IsWeight(y)'
    <3>1. PICK k : k = w + 1
      OBVIOUS
    <3>2. k \in 1 .. Len(weights') /\ Len(model'.inputs) + k - 1 = ids'[y] /\ weights'[k] = data
      BY <1>1, <2>2, <2>4, <2>6, <3>1
    <3> QED BY <2>10, <3>2 DEF IsWeight
  <2>8. TracedInv'
    <3>1. \A k \in 1 .. Len(weights) : k \in 1 .. Len(weights') /\ weights'[k] = weights[k]
      BY <2>4 DEF w
    <3> QED BY <1>1, <2>1, <2>5, <2>7, <2>10, <3>1, TracedName
  <2>9. Len(gr'.inputs) = Len(model'.inputs) + Len(weights')
    <3> DEFINE a == Len(model.inputs)
               b == Len(gr'.inputs)
               c == Len(weights')
    <3>1. Len(model'.inputs) = a /\ b = (a + w) + 1 /\ c = w + 1 /\ a \in Nat /\ w \in Nat
      BY <1>1, <1>2, <2>2, <2>4, <2>5 DEF w
    <3> HIDE DEF a, b, c
    <3>2. b = a + c
      BY <3>1
    <3> QED BY <3>1, <3>2 DEF a, b, c
  <2> QED BY <1>1, <1>2, <1>5, <2>5, <2>8, <2>9 DEF ProgressInv
<1> QED BY <1>1, <1>3, <1>4, <1>5

\* An output of a node stands for the operator applied to what its inputs do.
LEMMA NodeTraced ==
  ASSUME ImportTyped, KnownInv, ElementsInv, TracedInv, ProgressInv, WellRead(model), ImportNode
  PROVE  TracedInv' /\ ProgressInv'
<1> DEFINE n == model.nodes[at + 1]
           x == n.out[1]
           op == OpOf(n)
           in == InIds(n)
<1>1. /\ status = "nodes" /\ at < Len(model.nodes) /\ model' = model
      /\ \/ NodeFine(n) /\ AddNode(n) /\ at' = at + 1 /\ status' = status
         \/ status' = "refused" /\ at' = at /\ Unbuilt
  BY DEF ImportNode, Entry, Unbuilt
<1>2. /\ Valid(model) /\ at \in Nat /\ Known = DefinedBefore(model, at + 1)
      /\ Len(gr.inputs) = Len(model.inputs) + Len(weights) /\ gr.outputs = <<>>
      /\ Formed(gr) /\ Numbered(gr)
  BY <1>1 DEF Parsed, ImportTyped, KnownInv, ProgressInv, TracedInv
<1>3. CASE status' = "refused" /\ Unbuilt
  BY <1>3, TracedKept DEF ProgressInv
<1>4. CASE NodeFine(n) /\ AddNode(n) /\ at' = at + 1 /\ status' = status
  <2>1. /\ gr' = WithNode(gr, op, in) /\ ids' = With(ids, x, gr.next)
        /\ constants' = constants /\ weights' = weights
    BY <1>4 DEF AddNode
  <2>2. at + 1 \in DOMAIN model.nodes /\ ValidNode(model, at + 1) /\ NodeListed(n)
    <3>1. at + 1 \in DOMAIN model.nodes
      BY <1>1, <1>2, ValidNames
    <3> QED BY <1>2, <3>1 DEF Valid, WellRead
  <2>3. x \in Members(n.out) /\ x \notin Known
    <3>1. Len(n.out) = 1
      BY <1>4, OneOutput DEF NodeFine
    <3>2. x \in Members(n.out)
      BY <2>2, <3>1 DEF Members, NodeListed, IsList
    <3> QED BY <1>2, <2>2, <3>2 DEF ValidNode
  <2>4. \A i \in DOMAIN in : in[i] \in Values(gr)
    <3>1. IsList(n.in)
      BY <2>2 DEF NodeListed
    <3> QED BY <1>4, <3>1, NodeInferred
  <2>5. \A i \in DOMAIN Tensors(n) : Tensors(n)[i] \in DOMAIN ids
    BY <1>4 DEF NodeFine, Resolvable
  <2>6. /\ gr'.inputs = gr.inputs /\ gr'.outputs = gr.outputs
        /\ Values(gr)' = Values(gr) \cup {gr.next}
        /\ \A v \in Values(gr) : gr'.shape[v] = gr.shape[v]
        /\ \A k \in NodeIds(gr) : k \in NodeIds(gr') /\ gr'.nodes[k] = gr.nodes[k]
    <3> HIDE DEF n, x, op, in
    <3>1. /\ gr'.inputs = gr.inputs
          /\ Values(gr') = Values(gr) \cup {gr.next}
          /\ \A v \in Values(gr) : gr'.shape[v] = gr.shape[v]
      BY <1>2, <2>1, <2>4, FormedNode
    <3>2. /\ gr'.outputs = gr.outputs
          /\ \A k \in NodeIds(gr) : k \in NodeIds(gr') /\ gr'.nodes[k] = gr.nodes[k]
      <4> DEFINE h == WithNode(gr, op, in)
      <4>1. h.outputs = gr.outputs
        BY <1>2, NodesStay
      <4>2. \A k \in NodeIds(gr) : k \in NodeIds(h) /\ h.nodes[k] = gr.nodes[k]
        BY <1>2, NodesStay
      <4> HIDE DEF h
      <4>3. gr' = h
        BY <2>1 DEF h
      <4> QED BY <4>1, <4>2, <4>3
    <3> QED BY <3>1, <3>2
  <2>7. Numbered(gr')
    <3> HIDE DEF n, x, op, in
    <3> QED BY <1>2, <2>1, <2>4, NumberedNode
  <2>8. PICK k \in NodeIds(gr') : gr'.nodes[k] = [op |-> op, in |-> in, out |-> gr.next]
    <3> HIDE DEF n, x, op, in
    <3> QED BY <1>2, <2>1, LastNode
  <2>9. PICK j, y : j = at + 1 /\ y = x
    OBVIOUS
  <2>10. /\ j \in DOMAIN model'.nodes /\ model'.nodes[j] = n
         /\ y \in Members(n.out) /\ y \notin Known /\ ids' = With(ids, y, gr.next)
    BY <1>1, <2>1, <2>2, <2>3, <2>9
  <2>11. /\ ids'[y] = gr.next
         /\ \A z \in DOMAIN ids : z \in DOMAIN ids' /\ ids'[z] = ids[z]
    <3> HIDE DEF n, x, op, in
    <3> QED BY <2>1, <2>10, <2>6, NewName
  <2>12. Replays(j, k)'
    <3>1. n = model.nodes[j]
      BY <2>9
    <3>2. gr'.nodes[k].op = OpOf(model.nodes[j]) /\ gr'.nodes[k].in = InIds(model.nodes[j])
      BY <2>8, <2>9
    <3>3. \A i \in DOMAIN Tensors(model.nodes[j]) : Tensors(model.nodes[j])[i] \in DOMAIN ids
      BY <2>5, <2>9
    <3> HIDE DEF n, x, op, in
    <3> QED BY <1>1, <2>1, <2>6, <2>11, <3>2, <3>3, BuiltAgain
  <2>13. IsComputed(y)'
    <3>1. y \in Members(model'.nodes[j].out) /\ ids'[y] = gr'.nodes[k].out
      BY <2>8, <2>10, <2>11
    <3> HIDE DEF n, x, op, in
    <3> QED BY <2>8, <2>10, <2>12, <3>1 DEF IsComputed
  <2> HIDE DEF n, x, op, in
  <2>14. TracedInv'
    <3>1. \A h \in 1 .. Len(weights) : h \in 1 .. Len(weights') /\ weights'[h] = weights[h]
      BY <2>1
    <3> QED BY <1>1, <2>1, <2>6, <2>7, <2>10, <2>13, <3>1, TracedName
  <2> QED BY <1>1, <1>2, <1>4, <2>1, <2>6, <2>14 DEF ProgressInv
<1> QED BY <1>1, <1>3, <1>4

\* An output of the graph is that of its name.
LEMMA OutputTraced ==
  ASSUME ImportTyped, TracedInv, ProgressInv, WellRead(model), ImportOutput
  PROVE  TracedInv' /\ ProgressInv'
<1> DEFINE d == model.outputs[at + 1]
           v == ids[d.name]
           m == Len(gr.outputs)
<1>1. /\ status = "outputs" /\ at < Len(model.outputs) /\ model' = model
      /\ \/ OutputFine(d) /\ MarkOutput(d) /\ at' = at + 1 /\ status' = status
         \/ status' = "refused" /\ at' = at /\ Unbuilt
  BY DEF ImportOutput, Entry, Unbuilt
<1>2. at \in Nat /\ m = at /\ Formed(gr) /\ Len(gr.inputs) = Len(model.inputs) + Len(weights)
  BY <1>1 DEF ImportTyped, ProgressInv
<1>3. CASE status' = "refused" /\ Unbuilt
  BY <1>3, TracedKept DEF ProgressInv
<1>4. CASE OutputFine(d) /\ MarkOutput(d) /\ at' = at + 1 /\ status' = status
  <2>1. /\ gr' = WithOutput(gr, v)
        /\ ids' = ids /\ constants' = constants /\ weights' = weights
        /\ d.name \in DOMAIN ids /\ v \in Values(gr)
    BY <1>4 DEF MarkOutput, OutputFine, ImportTyped
  <2> DEFINE x == d.name
  <2>2. model.outputs[at + 1].name = x
    OBVIOUS
  <2> HIDE DEF d, v
  <2>3. /\ gr'.nodes = gr.nodes /\ gr'.inputs = gr.inputs /\ gr'.shape = gr.shape
        /\ gr'.outputs = Append(gr.outputs, v)
    <3>1. WithOutput(gr, v) = [nodes |-> gr.nodes, inputs |-> gr.inputs,
                               outputs |-> Append(gr.outputs, v),
                               next |-> gr.next, shape |-> gr.shape]
      BY <1>2, BuildFields
    <3> QED BY <2>1, <3>1
  <2>4. NodeIds(gr)' = NodeIds(gr) /\ Values(gr)' = Values(gr)
    BY <2>3 DEF NodeIds, Values
  <2>5. /\ Len(gr'.outputs) = m + 1 /\ gr'.outputs[m + 1] = v
        /\ \A i \in 1 .. m : gr'.outputs[i] = gr.outputs[i]
    BY <1>2, <2>3, ListAppend DEF Formed
  <2>6. \A i \in 1 .. Len(gr'.outputs) :
          model.outputs[i].name \in DOMAIN ids /\ gr'.outputs[i] = ids[model.outputs[i].name]
    <3> SUFFICES ASSUME NEW i \in 1 .. m + 1
                 PROVE  /\ model.outputs[i].name \in DOMAIN ids
                        /\ gr'.outputs[i] = ids[model.outputs[i].name]
      BY <2>5
    <3>1. CASE i \in 1 .. m
      BY <2>5, <3>1 DEF TracedInv
    <3>2. CASE i = m + 1
      BY <1>2, <2>1, <2>5, <3>2 DEF v, d
    <3> HIDE DEF m
    <3>3. m \in Nat
      BY <1>2
    <3> QED BY <3>1, <3>2, <3>3
  <2>7. ASSUME NEW y \in DOMAIN ids
        PROVE  (IsInput(y) \/ IsWeight(y) \/ IsComputed(y))'
    <3>1. IsInput(y) \/ IsWeight(y) \/ IsComputed(y)
      BY DEF TracedInv
    <3> QED BY <1>1, <2>1, <2>3, <2>4, <3>1, KindKept
  <2>8. Numbered(gr')
    BY <2>3, <2>4 DEF TracedInv, Numbered
  <2>9. TracedInv'
    BY <1>1, <2>1, <2>6, <2>7, <2>8 DEF TracedInv
  <2> QED BY <1>1, <1>2, <1>4, <2>1, <2>3, <2>5, <2>9 DEF ProgressInv
<1> QED BY <1>1, <1>3, <1>4

\* No name stands for anything yet.
LEMMA NothingTraced ==
  ASSUME gr = NoGraph, DOMAIN ids = {}
  PROVE  TracedInv
<1>1. gr.inputs = <<>> /\ gr.outputs = <<>> /\ NodeIds(gr) = {}
  BY DEF NoGraph, NodeIds
<1> QED BY <1>1 DEF TracedInv, Numbered

\* Every step keeps what names stand for.
LEMMA TracedPreserved ==
  ASSUME ImportInv, ElementsInv, TracedInv, ProgressInv, [Next]_vars
  PROVE  TracedInv' /\ ProgressInv'
<1> USE DEF ImportInv
<1>1. WellRead(model)
  BY DEF ReaderInv
<1>2. CASE UNCHANGED vars
  <2>1. Unbuilt /\ status' = status /\ at' = at
    BY <1>2 DEF vars, readerVars, importVars, Unbuilt
  <2> QED BY <2>1, TracedKept DEF ProgressInv, Unbuilt
<1>3. CASE ReaderNext /\ UNCHANGED importVars
  <2>1. status \in {"opened", "reading"} /\ status' \in {"reading", "rejected", "parsed"}
    BY <1>3 DEF ReaderNext, ReadHeader, ReadSection, ValidateGraph
  <2>2. gr' = NoGraph /\ weights' = <<>> /\ DOMAIN ids' = {}
    BY <1>3, <2>1, NoneKnown DEF importVars, ProgressInv, KnownInv
  <2>3. gr'.inputs = <<>> /\ gr'.outputs = <<>> /\ NodeIds(gr') = {}
    BY <2>2 DEF NoGraph, NodeIds
  <2>4. TracedInv'
    BY <2>2, <2>3 DEF TracedInv, Numbered
  <2> QED BY <2>1, <2>2, <2>4 DEF ProgressInv
<1>4. CASE CheckOpset
  <2>1. status = "parsed" /\ status' \in {"inputs", "refused"} /\ Unbuilt /\ at' = at
    BY <1>4 DEF CheckOpset, importVars, Unbuilt
  <2>2. gr = NoGraph /\ weights = <<>> /\ at = 0
    BY <2>1 DEF ProgressInv, KnownInv
  <2>3. gr'.nodes = <<>> /\ gr'.inputs = <<>> /\ gr'.outputs = <<>> /\ weights' = <<>> /\ at' = 0
    BY <2>1, <2>2 DEF Unbuilt, NoGraph
  <2> QED BY <2>1, <2>3, TracedKept DEF ProgressInv
<1>5. CASE ImportInput
  BY <1>1, <1>5, InputTraced
<1>6. CASE ImportInit
  BY <1>1, <1>6, InitTraced
<1>7. CASE ImportNode
  BY <1>1, <1>7, NodeTraced
<1>8. CASE ImportOutput
  BY <1>1, <1>8, OutputTraced
<1>9. CASE Done("inputs", model.inputs, "inits")
  <2>1. status = "inputs" /\ status' = "inits" /\ at = Len(model.inputs) /\ Unbuilt
    BY <1>9 DEF Done, Unbuilt
  <2>2. /\ Len(gr.inputs) = Len(model.inputs) /\ Len(weights) = 0
        /\ gr.nodes = <<>> /\ gr.outputs = <<>> /\ Len(model.inputs) \in Nat
    BY <2>1 DEF ProgressInv, ImportTyped
  <2> QED BY <2>1, <2>2, TracedKept DEF ProgressInv, Unbuilt
<1>10. CASE Done("inits", model.inits, "nodes")
  <2>1. status = "inits" /\ status' = "nodes" /\ Unbuilt
    BY <1>10 DEF Done, Unbuilt
  <2> QED BY <2>1, TracedKept DEF ProgressInv, Unbuilt
<1>11. CASE Done("nodes", model.nodes, "outputs")
  <2>1. status = "nodes" /\ status' = "outputs" /\ Unbuilt /\ at' = 0
    BY <1>11 DEF Done, Unbuilt
  <2>2. Len(gr.outputs) = 0
    BY <2>1 DEF ProgressInv
  <2> QED BY <2>1, <2>2, TracedKept DEF ProgressInv, Unbuilt
<1>12. CASE Done("outputs", model.outputs, "built")
  <2>1. status = "outputs" /\ status' = "built" /\ Unbuilt /\ at = Len(model.outputs)
    BY <1>12 DEF Done, Unbuilt
  <2> QED BY <2>1, TracedKept DEF ProgressInv, Unbuilt
<1>13. CASE Validate \/ Run
  <2>1. /\ \/ status = "built" /\ status' \in {"imported", "refused"}
           \/ status = "imported" /\ status' = "ran"
        /\ Unbuilt
    BY <1>13 DEF Validate, Run, importVars, Unbuilt
  <2> QED BY <2>1, TracedKept DEF ProgressInv, Unbuilt
<1> QED BY <1>2, <1>3, <1>4, <1>5, <1>6, <1>7, <1>8, <1>9, <1>10, <1>11, <1>12, <1>13
      DEF Next, FromFgx

-----------------------------------------------------------------------------
(* What a run returns                                                       *)

\* One step of the recursive definition of Meaning.
MeaningOf(x, f) ==
  IF x \in Members(Names(model.inputs)) THEN Passed(x)
  ELSE IF x \in Members(InitNames(model))
  THEN LET i == CHOOSE k \in DOMAIN model.inits : InitNames(model)[k] = x IN
       model.inits[i].data
  ELSE LET k == CHOOSE j \in DOMAIN model.nodes : x \in Members(model.nodes[j].out)
           n == model.nodes[k] IN
       <<OpOf(n), [i \in DOMAIN Tensors(n) |-> f[Tensors(n)[i]]]>>

\* The run returned what the outputs denote that it found.
RanInv ==
  status = "ran" =>
    \E q \in Ascending(Found(gr)) :
      results = [k \in DOMAIN q |-> Denotation(gr, GraphInputs)[gr.outputs[q[k]]]]

\* Only one enumeration of the first numbers ascends.
LEMMA AscendingOnce ==
  ASSUME NEW n \in Nat, NEW q \in Ascending(1 .. n)
  PROVE  DOMAIN q = 1 .. n /\ \A j \in 1 .. n : q[j] = j
<1>1. Cardinality(1 .. n) = n
  <2>1. 1 \in Int /\ n \in Int
    OBVIOUS
  <2>2. Cardinality(1 .. n) = IF 1 > n THEN 0 ELSE n - 1 + 1
    BY <2>1, FS_Interval
  <2> QED BY <2>2
<1>2. /\ q \in [1 .. n -> 1 .. n]
      /\ \A i, j \in 1 .. n : i < j => q[i] < q[j]
  BY <1>1 DEF Ascending
<1> DEFINE U == {k \in Nat : k + 1 \in 1 .. n => q[k + 1] >= k + 1}
           D == {k \in Nat : n - k \in 1 .. n => q[n - k] <= n - k}
<1>3. 0 \in U
  BY <1>2
<1>4. ASSUME NEW k \in Nat, k \in U PROVE k + 1 \in U
  <2> SUFFICES ASSUME (k + 1) + 1 \in 1 .. n PROVE q[(k + 1) + 1] >= (k + 1) + 1
    OBVIOUS
  <2>1. k + 1 \in 1 .. n /\ k + 1 < (k + 1) + 1
    OBVIOUS
  <2>2. q[k + 1] >= k + 1 /\ q[k + 1] < q[(k + 1) + 1]
    BY <1>2, <1>4, <2>1
  <2>3. q[k + 1] \in Int /\ q[(k + 1) + 1] \in Int
    BY <1>2, <2>1
  <2> QED BY <2>2, <2>3
<1>5. 0 \in D
  BY <1>2
<1>6. ASSUME NEW k \in Nat, k \in D PROVE k + 1 \in D
  <2> SUFFICES ASSUME n - (k + 1) \in 1 .. n PROVE q[n - (k + 1)] <= n - (k + 1)
    OBVIOUS
  <2>1. n - k \in 1 .. n /\ n - (k + 1) < n - k
    OBVIOUS
  <2>2. q[n - k] <= n - k /\ q[n - (k + 1)] < q[n - k]
    BY <1>2, <1>6, <2>1
  <2>3. q[n - k] \in Int /\ q[n - (k + 1)] \in Int
    BY <1>2, <2>1
  <2> QED BY <2>2, <2>3
<1>7. Nat \subseteq U /\ Nat \subseteq D
  <2> HIDE DEF U, D
  <2> QED BY <1>3, <1>4, <1>5, <1>6, Denoting!SetInduction
<1>8. ASSUME NEW j \in 1 .. n PROVE q[j] = j
  <2>1. /\ j - 1 \in Nat /\ (j - 1) + 1 = j
        /\ n - j \in Nat /\ n - (n - j) = j
    OBVIOUS
  <2>2. q[j] >= j
    BY <1>7, <2>1
  <2>3. q[j] <= j
    BY <1>7, <2>1
  <2>4. q[j] \in Int
    BY <1>2
  <2> QED BY <2>2, <2>3, <2>4
<1> QED BY <1>2, <1>8

\* The graph is given the caller's inputs, and the weights behind them.
LEMMA ArgumentsListed ==
  ASSUME WellRead(model), Valid(model), IsList(weights)
  PROVE  /\ \A i \in 1 .. Len(model.inputs) : GraphInputs[i] = Passed(model.inputs[i].name)
         /\ \A j \in 1 .. Len(weights) : GraphInputs[Len(model.inputs) + j] = weights[j]
<1> DEFINE m == Len(model.inputs)
           n == Len(weights)
           s == [i \in DOMAIN model.inputs |-> Passed(model.inputs[i].name)]
           S == {s[i] : i \in 1 .. m} \cup {weights[j] : j \in 1 .. n}
<1>1. /\ m \in Nat /\ DOMAIN model.inputs = 1 .. m
      /\ n \in Nat /\ weights = [j \in 1 .. n |-> weights[j]]
  BY ValidNames DEF IsList
<1>2. GraphInputs = s \o weights
  BY DEF GraphInputs
<1>3. /\ s = [i \in 1 .. m |-> s[i]]
      /\ \A i \in 1 .. m : s[i] = Passed(model.inputs[i].name) /\ s[i] \in S
      /\ \A j \in 1 .. n : weights[j] \in S
  BY <1>1
<1> HIDE DEF m, n, s, S
<1>4. s \in Seq(S) /\ weights \in Seq(S) /\ Len(s) = m
  <2>1. s \in Seq(S)
    <3>1. m \in Nat /\ s = [i \in 1 .. m |-> s[i]] /\ \A i \in 1 .. m : s[i] \in S
      BY <1>1, <1>3
    <3>2. s \in [1 .. m -> S]
      BY <3>1
    <3> QED BY <3>1, <3>2
  <2>2. weights \in Seq(S)
    BY <1>1, <1>3
  <2>3. Len(s) = m
    BY <1>1, <1>3, <2>1
  <2> QED BY <2>1, <2>2, <2>3
<1>5. /\ \A i \in 1 .. m : (s \o weights)[i] = s[i]
      /\ \A j \in 1 .. n : (s \o weights)[m + j] = weights[j]
  <2>1. \A i \in 1 .. Len(s) + Len(weights) :
          (s \o weights)[i] = IF i <= Len(s) THEN s[i] ELSE weights[i - Len(s)]
    BY <1>4, ConcatProperties
  <2>2. \A i \in 1 .. m : i \in 1 .. m + n /\ i <= m
    BY <1>1
  <2>3. \A j \in 1 .. n : m + j \in 1 .. m + n /\ ~ (m + j <= m) /\ (m + j) - m = j
    BY <1>1
  <2> QED BY <1>4, <2>1, <2>2, <2>3 DEF n
<1> QED BY <1>2, <1>3, <1>5 DEF m, n

\* What an import of every list left.
Complete ==
  /\ WellRead(model) /\ Valid(model) /\ Formed(gr) /\ IsList(weights)
  /\ Len(gr.inputs) = Len(model.inputs) + Len(weights)
  /\ \A x \in DOMAIN ids : ids[x] \in Values(gr)
  /\ TracedInv

\* A name that a node gives is no other's.
LEMMA ComputedOnce ==
  ASSUME WellRead(model), Valid(model), NEW j \in DOMAIN model.nodes,
         NEW x \in Members(model.nodes[j].out)
  PROVE  /\ x \notin Members(Names(model.inputs)) /\ x \notin Members(InitNames(model))
         /\ \A k \in DOMAIN model.nodes : x \in Members(model.nodes[k].out) => k = j
<1> DEFINE out(k) == Members(model.nodes[k].out)
<1>1. /\ \A k \in DOMAIN model.nodes : out(k) \cap DefinedBefore(model, k) = {}
      /\ DOMAIN model.nodes = 1 .. Len(model.nodes) /\ Len(model.nodes) \in Nat
  BY ValidNames DEF Valid, ValidNode
<1>2. \A k : DefinedBefore(model, k) = Members(Names(model.inputs)) \cup Members(InitNames(model))
                                         \cup UNION {out(i) : i \in 1 .. k - 1}
  BY DEF DefinedBefore
<1> HIDE DEF out
<1>3. ASSUME NEW k \in DOMAIN model.nodes, NEW i \in DOMAIN model.nodes, i < k, x \in out(i)
      PROVE  x \notin out(k)
  <2>1. i \in 1 .. k - 1
    BY <1>1, <1>3
  <2>2. x \in DefinedBefore(model, k)
    BY <1>2, <1>3, <2>1
  <2> QED BY <1>1, <2>2
<1>4. ASSUME NEW k \in DOMAIN model.nodes, x \in out(k) PROVE k = j
  <2>1. x \in out(j)
    BY DEF out
  <2>2. ~ (j < k) /\ ~ (k < j)
    BY <1>3, <1>4, <2>1
  <2> QED BY <1>1, <2>2
<1>5. /\ x \notin Members(Names(model.inputs)) /\ x \notin Members(InitNames(model))
  <2>1. x \in out(j) /\ out(j) \cap DefinedBefore(model, j) = {}
    BY <1>1 DEF out
  <2> QED BY <1>2, <2>1
<1> QED BY <1>4, <1>5 DEF out

\* The value of a name denotes what the name means, if that is so of the values
\* it is computed from.
LEMMA MeaningFound ==
  ASSUME Complete, NEW x \in DOMAIN ids, NEW f,
         \A y \in DOMAIN ids : ids[y] < ids[x] => f[y] = Denotation(gr, GraphInputs)[ids[y]]
  PROVE  MeaningOf(x, f) = Denotation(gr, GraphInputs)[ids[x]]
<1> USE DEF Complete
<1> DEFINE d == Denotation(gr, GraphInputs)
           m == Len(model.inputs)
           w == Len(weights)
<1>1. /\ \A i \in 1 .. m + w : d[i - 1] = GraphInputs[i]
      /\ \A k \in NodeIds(gr) : d[gr.nodes[k].out] = Applied(gr, k, d)
  BY DenotationObeys DEF TracedInv
<1>2. m \in Nat /\ w \in Nat /\ DOMAIN model.inputs = 1 .. m
  BY ValidNames DEF IsList
<1> HIDE DEF d
<1>3. CASE IsInput(x)
  <2>1. PICK i \in 1 .. m : model.inputs[i].name = x /\ ids[x] = i - 1
    BY <1>2, <1>3 DEF IsInput
  <2>2. x \in Members(Names(model.inputs))
    BY <1>2, <2>1 DEF Members, Names
  <2>3. MeaningOf(x, f) = Passed(x)
    BY <2>2 DEF MeaningOf
  <2>4. i \in 1 .. m + w
    BY <1>2
  <2>5. d[ids[x]] = Passed(x)
    BY <1>1, <2>1, <2>4, ArgumentsListed
  <2> QED BY <2>3, <2>5 DEF d
<1>4. CASE IsWeight(x)
  <2>1. PICK i \in DOMAIN model.inits, j \in 1 .. w :
          /\ model.inits[i].desc.name = x /\ weights[j] = model.inits[i].data
          /\ ids[x] = m + j - 1
    BY <1>4 DEF IsWeight
  <2>2. /\ DOMAIN InitNames(model) = DOMAIN model.inits
        /\ \A k \in DOMAIN model.inits : InitNames(model)[k] = model.inits[k].desc.name
    BY DEF InitNames
  <2>3. x \in Members(InitNames(model))
    BY <2>1, <2>2 DEF Members
  <2>4. x \notin Members(Names(model.inputs))
    BY <2>3 DEF Valid
  <2>5. \A k \in DOMAIN model.inits : InitNames(model)[k] = x => k = i
    BY <2>1, <2>2 DEF Valid, Distinct
  <2>6. (CHOOSE k \in DOMAIN model.inits : InitNames(model)[k] = x) = i
    BY <2>1, <2>2, <2>5
  <2>7. MeaningOf(x, f) = model.inits[i].data
    BY <2>3, <2>4, <2>6 DEF MeaningOf
  <2>8. m + j \in 1 .. m + w
    BY <1>2
  <2>9. d[ids[x]] = weights[j]
    <3>1. d[(m + j) - 1] = GraphInputs[m + j]
      BY <1>1, <2>8
    <3>2. GraphInputs[m + j] = weights[j]
      BY ArgumentsListed
    <3> QED BY <2>1, <3>1, <3>2
  <2> QED BY <2>1, <2>7, <2>9 DEF d
<1>5. CASE IsComputed(x)
  <2>1. PICK j \in DOMAIN model.nodes, k \in NodeIds(gr) :
          x \in Members(model.nodes[j].out) /\ ids[x] = gr.nodes[k].out /\ Replays(j, k)
    BY <1>5 DEF IsComputed
  <2> DEFINE n == model.nodes[j]
             t == Tensors(n)
             in == gr.nodes[k].in
  <2>2. /\ x \notin Members(Names(model.inputs)) /\ x \notin Members(InitNames(model))
        /\ \A i \in DOMAIN model.nodes : x \in Members(model.nodes[i].out) => i = j
    BY <2>1, ComputedOnce
  <2> DEFINE c == CHOOSE i \in DOMAIN model.nodes : x \in Members(model.nodes[i].out)
  <2>3. c = j
    BY <2>1, <2>2
  <2>4. MeaningOf(x, f) = <<OpOf(n), [i \in DOMAIN t |-> f[t[i]]]>>
    <3>1. MeaningOf(x, f) = <<OpOf(model.nodes[c]), [i \in DOMAIN Tensors(model.nodes[c]) |->
                                                       f[Tensors(model.nodes[c])[i]]]>>
      BY <2>2 DEF MeaningOf
    <3> HIDE DEF c
    <3> QED BY <2>3, <3>1
  <2>5. /\ \A i \in DOMAIN t : t[i] \in DOMAIN ids
        /\ gr.nodes[k].op = OpOf(n) /\ in = [i \in DOMAIN t |-> ids[t[i]]]
    BY <2>1 DEF Replays, InIds
  <2> HIDE DEF n, t
  <2>6. ASSUME NEW i \in DOMAIN t PROVE f[t[i]] = d[in[i]]
    <3>1. in[i] = ids[t[i]] /\ t[i] \in DOMAIN ids /\ i \in DOMAIN in
      BY <2>5
    <3>2. in[i] \in 0 .. gr.nodes[k].out - 1
      BY <3>1 DEF TracedInv, Numbered
    <3>3. gr.nodes[k].out \in Int
      BY DEF Formed
    <3>4. ids[t[i]] < ids[x]
      BY <2>1, <3>1, <3>2, <3>3
    <3> QED BY <3>1, <3>4 DEF d
  <2>7. d[ids[x]] = <<OpOf(n), [i \in DOMAIN in |-> d[in[i]]]>>
    BY <1>1, <2>1, <2>5 DEF Applied
  <2>8. [i \in DOMAIN in |-> d[in[i]]] = [i \in DOMAIN t |-> f[t[i]]]
    BY <2>5, <2>6
  <2> QED BY <2>4, <2>7, <2>8 DEF d
<1> QED BY <1>3, <1>4, <1>5 DEF TracedInv

\* Meaning is well defined, and the graph computes it.
LEMMA MeaningDenoted ==
  ASSUME Complete, NEW x \in DOMAIN ids
  PROVE  Meaning[x] = Denotation(gr, GraphInputs)[ids[x]]
<1> DEFINE d == Denotation(gr, GraphInputs)
           X == DOMAIN ids
           h == [y \in X |-> d[ids[y]]]
           M == Meaning
<1>1. \A y \in X : ids[y] \in Nat
  <2>1. \A y \in X : ids[y] \in Values(gr)
    BY DEF Complete
  <2> QED BY <2>1 DEF Complete, Formed
<1>2. ASSUME NEW y \in X, NEW f, \A z \in X : ids[z] < ids[y] => f[z] = h[z]
      PROVE  MeaningOf(y, f) = h[y]
  BY <1>2, MeaningFound
<1> HIDE DEF d
<1>3. M = CHOOSE f : f = [y \in X |-> MeaningOf(y, f)]
  BY DEF Meaning, MeaningOf
<1> HIDE DEF M
<1>4. h = [y \in X |-> MeaningOf(y, h)]
  <2>1. \A y \in X : MeaningOf(y, h) = h[y]
    BY <1>2
  <2> QED BY <2>1
<1>5. M = [y \in X |-> MeaningOf(y, M)]
  <2> HIDE DEF h
  <2> QED BY <1>3, <1>4
<1> HIDE DEF h, X
<1> DEFINE T == {k \in Nat : \A y \in X : ids[y] < k => M[y] = h[y]}
<1>6. 0 \in T
  BY <1>1
<1>7. ASSUME NEW k \in Nat, k \in T PROVE k + 1 \in T
  <2> SUFFICES ASSUME NEW y \in X, ids[y] < k + 1 PROVE M[y] = h[y]
    OBVIOUS
  <2>1. \A z \in X : ids[z] < ids[y] => M[z] = h[z]
    BY <1>1, <1>7
  <2>2. MeaningOf(y, M) = h[y]
    BY <1>2, <2>1
  <2> QED BY <1>5, <2>2
<1>8. Nat \subseteq T
  <2> HIDE DEF T
  <2> QED BY <1>6, <1>7, Denoting!SetInduction
<1>9. x \in X /\ ids[x] + 1 \in T /\ ids[x] < ids[x] + 1
  BY <1>1, <1>8 DEF X
<1>10. M[x] = h[x]
  BY <1>9
<1> QED BY <1>10 DEF M, h, X, d

\* If all outputs are computed, all are found.
LEMMA AllFound ==
  ASSUME Complete, Len(gr.outputs) = Len(model.outputs),
         \A i \in DOMAIN model.outputs : Computed(model.outputs[i].name)
  PROVE  Found(gr) = 1 .. Len(model.outputs)
<1> DEFINE n == Len(model.outputs)
<1>1. /\ DOMAIN model.outputs = 1 .. n /\ n \in Nat /\ DOMAIN gr.outputs = 1 .. n
  BY ValidNames DEF Complete, Formed, IsList
<1>2. \A i \in 1 .. n : model.outputs[i].name \in DOMAIN ids /\ gr.outputs[i] = ids[model.outputs[i].name]
  BY DEF Complete, TracedInv
<1>3. ASSUME NEW i \in 1 .. n, NEW k \in DOMAIN gr.inputs
      PROVE  gr.outputs[i] # gr.inputs[k]
  <2> DEFINE x == model.outputs[i].name
  <2>1. PICK j \in DOMAIN model.nodes : x \in Members(model.nodes[j].out)
    BY <1>1 DEF Computed
  <2>2. x \notin Members(Names(model.inputs)) /\ x \notin Members(InitNames(model))
    BY <2>1, ComputedOnce DEF Complete
  <2>3. ~ IsInput(x)
    BY <2>2 DEF IsInput, Members, Names
  <2>4. ~ IsWeight(x)
    BY <2>2 DEF IsWeight, Members, InitNames
  <2> HIDE DEF x
  <2>5. IsComputed(x)
    BY <1>2, <2>3, <2>4 DEF Complete, TracedInv, x
  <2>6. PICK m \in NodeIds(gr) : ids[x] = gr.nodes[m].out
    BY <2>5 DEF IsComputed
  <2>7. gr.nodes[m].out # gr.inputs[k]
    BY DEF Complete, Formed, WellFormed
  <2> QED BY <1>2, <2>6, <2>7 DEF x
<1>4. ASSUME NEW i \in 1 .. n, NEW k \in 1 .. i - 1
      PROVE  gr.outputs[k] # gr.outputs[i]
  <2>1. k \in 1 .. n /\ k # i
    BY <1>1
  <2>2. model.outputs[k].name # model.outputs[i].name
    <3>1. Distinct(Names(model.outputs))
      BY DEF Complete, Valid
    <3>2. /\ DOMAIN Names(model.outputs) = 1 .. n
          /\ \A j \in 1 .. n : Names(model.outputs)[j] = model.outputs[j].name
      BY <1>1 DEF Names
    <3> QED BY <2>1, <3>1, <3>2 DEF Distinct
  <2>3. ids[model.outputs[k].name] # ids[model.outputs[i].name]
    BY <1>2, <2>1, <2>2 DEF Complete, TracedInv
  <2> QED BY <1>2, <2>1, <2>3
<1> QED BY <1>1, <1>3, <1>4 DEF Found

\* So a run returns what the names of the outputs mean.
LEMMA ResultsMeant ==
  ASSUME Complete, RanInv, status = "ran", Len(gr.outputs) = Len(model.outputs),
         \A i \in DOMAIN model.outputs : Computed(model.outputs[i].name)
  PROVE  results = [i \in DOMAIN model.outputs |-> Meaning[model.outputs[i].name]]
<1> DEFINE n == Len(model.outputs)
           d == Denotation(gr, GraphInputs)
<1>1. DOMAIN model.outputs = 1 .. n /\ n \in Nat
  BY ValidNames DEF Complete
<1>2. Found(gr) = 1 .. n
  BY AllFound
<1>3. PICK q \in Ascending(1 .. n) : results = [k \in DOMAIN q |-> d[gr.outputs[q[k]]]]
  BY <1>2 DEF RanInv
<1>4. DOMAIN q = 1 .. n /\ \A k \in 1 .. n : q[k] = k
  BY <1>1, <1>3, AscendingOnce
<1>5. ASSUME NEW k \in 1 .. n PROVE d[gr.outputs[k]] = Meaning[model.outputs[k].name]
  <2>1. model.outputs[k].name \in DOMAIN ids /\ gr.outputs[k] = ids[model.outputs[k].name]
    BY DEF Complete, TracedInv
  <2> QED BY <2>1, MeaningDenoted
<1> HIDE DEF d
<1>6. results = [k \in 1 .. n |-> d[gr.outputs[k]]]
  BY <1>3, <1>4
<1>7. [k \in 1 .. n |-> d[gr.outputs[k]]] = [k \in 1 .. n |-> Meaning[model.outputs[k].name]]
  BY <1>5
<1> QED BY <1>1, <1>6, <1>7

\* Nothing changes once a run returned.
LEMMA RanPreserved ==
  ASSUME RanInv, [Next]_vars
  PROVE  RanInv'
<1>1. CASE Run
  <2>1. /\ status = "imported" /\ UNCHANGED <<model, gr, weights>>
        /\ \E q \in Ascending(Found(gr)) :
             results' = [k \in DOMAIN q |-> Denotation(gr, GraphInputs)[gr.outputs[q[k]]]]
    BY <1>1 DEF Run
  <2>2. gr' = gr /\ GraphInputs' = GraphInputs
    BY <2>1 DEF GraphInputs
  <2> QED BY <2>1, <2>2 DEF RanInv
<1>2. CASE UNCHANGED vars
  <2>1. UNCHANGED <<status, model, gr, weights, results>>
    BY <1>2 DEF vars, readerVars, importVars
  <2> QED BY <2>1 DEF RanInv, GraphInputs
<1>3. CASE (ReaderNext /\ UNCHANGED importVars) \/ FromFgx
  <2>1. status' # "ran"
    BY <1>3 DEF ReaderNext, ReadHeader, ReadSection, ValidateGraph, FromFgx, CheckOpset, ImportInput,
                ImportInit, ImportNode, ImportOutput, Entry, Done, Validate
  <2> QED BY <2>1 DEF RanInv
<1> QED BY <1>1, <1>2, <1>3 DEF Next

-----------------------------------------------------------------------------
(* What the converter writes is loaded                                      *)

\* The names of the int64 initializers among the first k, and what they hold.
HeldNames(m, k) ==
  {m.inits[j].desc.name : j \in {i \in 1 .. k : m.inits[i].desc.dtype = Int64}}
HeldUpTo(m, k) == [x \in HeldNames(m, k) |-> HeldOf(m)[x]]

\* The shapes of the values that have names.
NamedShapes == [x \in DOMAIN ids |-> gr.shape[ids[x]]]

\* Of a supported model nothing is refused: names stand for the numbers and the
\* shapes that they have in the model.
LoadInv ==
  /\ constants = [x \in DOMAIN constants |-> constants[x]]
  /\ Parsed /\ model \in Loadable =>
       /\ status # "refused"
       /\ status = "inputs" => constants = HeldUpTo(model, 0)
       /\ status = "inits" => constants = HeldUpTo(model, at)
       /\ status \in {"nodes", "outputs", "built", "imported", "ran"} => constants = HeldOf(model)
       /\ status \in {"inputs", "inits"} =>
            \A x \in DOMAIN ids : /\ x \in DOMAIN GivenOf(model)
                                  /\ gr.shape[ids[x]] = GivenOf(model)[x]
       /\ status = "nodes" => NamedShapes = ShapesAfter(model, at)
       /\ status \in {"outputs", "built", "imported", "ran"} =>
            NamedShapes = ShapesAfter(model, Len(model.nodes))

\* One more node computes one more shape.
ShapeStep(p, i, s) == With(s, p.nodes[i].out[1], OutShape(p, p.nodes[i], s))

Shapes == INSTANCE Repetition WITH Step <- ShapeStep

\* The recursive function is the shapes that are given with those computed.
LEMMA ShapesUnfold ==
  ASSUME NEW m
  PROVE  /\ ShapesAfter(m, 0) = GivenOf(m)
         /\ \A k \in Nat :
              ShapesAfter(m, k + 1) =
                With(ShapesAfter(m, k), m.nodes[k + 1].out[1],
                     OutShape(m, m.nodes[k + 1], ShapesAfter(m, k)))
<1>1. \A k : ShapesAfter(m, k) = Shapes!Repeated(m, GivenOf(m), k)
  BY DEF ShapesAfter, Shapes!Repeated, ShapeStep
<1>2. /\ Shapes!Repeated(m, GivenOf(m), 0) = GivenOf(m)
      /\ \A k \in Nat : Shapes!Repeated(m, GivenOf(m), k + 1) =
                          ShapeStep(m, k + 1, Shapes!Repeated(m, GivenOf(m), k))
  BY Shapes!RepeatedUnfolds
<1> QED BY <1>1, <1>2 DEF ShapeStep

\* An int64 initializer is found by its name.
LEMMA HeldFound ==
  ASSUME WellRead(model), Valid(model), NEW k \in DOMAIN model.inits,
         model.inits[k].desc.dtype = Int64
  PROVE  /\ model.inits[k].desc.name \in DOMAIN HeldOf(model)
         /\ HeldOf(model)[model.inits[k].desc.name] = Decode(model.inits[k])
<1> DEFINE held == {j \in DOMAIN model.inits : model.inits[j].desc.dtype = Int64}
           TheOne(x) == CHOOSE j \in held : model.inits[j].desc.name = x
           x == model.inits[k].desc.name
<1>1. k \in held
  OBVIOUS
<1>2. TheOne(x) \in held /\ model.inits[TheOne(x)].desc.name = x
  BY <1>1
<1>3. TheOne(x) = k
  BY <1>2, ValidNames
<1>4. HeldOf(model) = [y \in {model.inits[j].desc.name : j \in held} |-> Decode(model.inits[TheOne(y)])]
  BY DEF HeldOf
<1> HIDE DEF TheOne
<1>5. x \in {model.inits[j].desc.name : j \in held}
  BY <1>1
<1> QED BY <1>3, <1>4, <1>5

\* The constants of one more initializer.
LEMMA HeldGrows ==
  ASSUME WellRead(model), Valid(model), NEW k \in Nat, k < Len(model.inits)
  PROVE  LET i == model.inits[k + 1] IN
         /\ i.desc.dtype = Int64 =>
              HeldUpTo(model, k + 1) = With(HeldUpTo(model, k), i.desc.name, Decode(i))
         /\ i.desc.dtype # Int64 => HeldUpTo(model, k + 1) = HeldUpTo(model, k)
<1> DEFINE i == model.inits[k + 1]
           x == i.desc.name
<1>1. 1 .. k + 1 = 1 .. k \cup {k + 1} /\ k + 1 \in DOMAIN model.inits
  BY ValidNames
<1>2. ASSUME i.desc.dtype = Int64
      PROVE  HeldUpTo(model, k + 1) = With(HeldUpTo(model, k), x, Decode(i))
  <2>1. HeldOf(model)[x] = Decode(i)
    BY <1>1, <1>2, HeldFound
  <2>2. HeldNames(model, k + 1) = HeldNames(model, k) \cup {x}
    BY <1>1, <1>2 DEF HeldNames
  <2> HIDE DEF i, x
  <2> QED BY <2>1, <2>2 DEF HeldUpTo, With
<1>3. ASSUME i.desc.dtype # Int64
      PROVE  HeldUpTo(model, k + 1) = HeldUpTo(model, k)
  <2>1. HeldNames(model, k + 1) = HeldNames(model, k)
    BY <1>1, <1>3 DEF HeldNames
  <2> QED BY <2>1 DEF HeldUpTo
<1> QED BY <1>2, <1>3

\* Those of none, and of all.
LEMMA HeldEnds ==
  ASSUME WellRead(model), Valid(model)
  PROVE  /\ HeldNames(model, 0) = {}
         /\ HeldUpTo(model, Len(model.inits)) = HeldOf(model)
<1>1. HeldNames(model, 0) = {}
  BY DEF HeldNames
<1>2. DOMAIN HeldOf(model) = HeldNames(model, Len(model.inits))
  BY ValidNames DEF HeldOf, HeldNames
<1>3. HeldOf(model) = [x \in DOMAIN HeldOf(model) |-> HeldOf(model)[x]]
  BY DEF HeldOf
<1> QED BY <1>1, <1>2, <1>3 DEF HeldUpTo

\* What is given is found by its name.
LEMMA GivenFound ==
  ASSUME WellRead(model), Valid(model)
  PROVE  /\ \A k \in DOMAIN model.inputs :
              /\ model.inputs[k].name \in DOMAIN GivenOf(model)
              /\ GivenOf(model)[model.inputs[k].name] = model.inputs[k].dims
         /\ \A k \in DOMAIN model.inits :
              model.inits[k].desc.dtype = Float32 =>
                /\ model.inits[k].desc.name \in DOMAIN GivenOf(model)
                /\ GivenOf(model)[model.inits[k].desc.name] = model.inits[k].desc.dims
         /\ \A x \in DOMAIN GivenOf(model) :
              \/ \E k \in DOMAIN model.inputs : model.inputs[k].name = x
              \/ \E k \in DOMAIN model.inits :
                   model.inits[k].desc.dtype = Float32 /\ model.inits[k].desc.name = x
<1> DEFINE floats == {d \in {model.inits[k].desc : k \in DOMAIN model.inits} : d.dtype = Float32}
           given == Members(model.inputs) \cup floats
           TheOne(x) == CHOOSE d \in given : d.name = x
<1>1. GivenOf(model) = [x \in {d.name : d \in given} |-> TheOne(x).dims]
  BY DEF GivenOf
<1>2. \A d \in given :
        \/ \E k \in DOMAIN model.inputs : d = model.inputs[k]
        \/ \E k \in DOMAIN model.inits : d = model.inits[k].desc /\ d.dtype = Float32
  BY DEF Members
<1>3. \A k \in DOMAIN model.inputs : model.inputs[k] \in given
  BY DEF Members
<1>4. \A k \in DOMAIN model.inits : model.inits[k].desc.dtype = Float32 => model.inits[k].desc \in given
  OBVIOUS
<1>5. \A d \in given, e \in given : d.name = e.name => d = e
  <2> SUFFICES ASSUME NEW d \in given, NEW e \in given, d.name = e.name PROVE d = e
    OBVIOUS
  <2>1. /\ \A i, j \in DOMAIN model.inputs :
             model.inputs[i].name = model.inputs[j].name => i = j
        /\ \A i, j \in DOMAIN model.inits :
             model.inits[i].desc.name = model.inits[j].desc.name => i = j
        /\ \A i \in DOMAIN model.inputs, j \in DOMAIN model.inits :
             model.inputs[i].name # model.inits[j].desc.name
    BY ValidNames
  <2> HIDE DEF given
  <2>2. CASE \E k \in DOMAIN model.inputs : d = model.inputs[k]
    BY <1>2, <2>1, <2>2
  <2>3. CASE \E k \in DOMAIN model.inits : d = model.inits[k].desc
    BY <1>2, <2>1, <2>3
  <2> QED BY <1>2, <2>2, <2>3
<1> HIDE DEF given
<1>6. \A d \in given : TheOne(d.name) = d
  BY <1>5
<1> HIDE DEF TheOne
<1>7. \A d \in given : d.name \in DOMAIN GivenOf(model) /\ GivenOf(model)[d.name] = d.dims
  BY <1>1, <1>6
<1>8. \A x \in DOMAIN GivenOf(model) : \E d \in given : d.name = x
  BY <1>1
<1> QED BY <1>2, <1>3, <1>4, <1>7, <1>8

\* A value given is added under its name with its shape.
LEMMA GivenNamed ==
  ASSUME Formed(gr), \A x \in DOMAIN ids : ids[x] \in Values(gr),
         NEW s, \A x \in DOMAIN ids : x \in DOMAIN s /\ gr.shape[ids[x]] = s[x],
         NEW y \in DOMAIN s, gr' = WithInput(gr, s[y]), ids' = With(ids, y, gr.next)
  PROVE  \A x \in DOMAIN ids' : x \in DOMAIN s /\ gr'.shape[ids'[x]] = s[x]
<1>1. /\ DOMAIN ids' = DOMAIN ids \cup {y} /\ ids'[y] = gr.next
      /\ \A x \in DOMAIN ids : x # y => ids'[x] = ids[x]
  <2>1. ids' = [x \in DOMAIN ids \cup {y} |-> IF x = y THEN gr.next ELSE ids[x]]
    BY DEF With
  <2> QED BY <2>1
<1>2. gr'.shape[gr.next] = s[y] /\ \A v \in Values(gr) : gr'.shape[v] = gr.shape[v]
  BY FormedInput
<1> QED BY <1>1, <1>2

\* A supported model opens the import.
LEMMA LoadOpset ==
  ASSUME ImportInv, LoadInv, CheckOpset
  PROVE  LoadInv'
<1> USE DEF ImportInv
<1>1. /\ status = "parsed" /\ status' = IF model.meta.opset = SupportedOpset THEN "inputs" ELSE "refused"
      /\ Unbuilt
  BY DEF CheckOpset, importVars, Unbuilt
<1>2. model' = model /\ constants' = constants /\ gr' = gr /\ ids' = ids
  BY <1>1 DEF Unbuilt
<1>3. DOMAIN ids = {} /\ DOMAIN constants = {}
  BY <1>1, NoneKnown DEF KnownInv
<1>4. constants = HeldUpTo(model, 0)
  <2>1. HeldNames(model, 0) = {}
    BY DEF HeldNames
  <2> QED BY <1>3, <2>1 DEF LoadInv, HeldUpTo
<1>5. model \in Loadable => status' = "inputs"
  BY <1>1, LoadableAssumption DEF Computes
<1>6. (constants = [x \in DOMAIN constants |-> constants[x]])'
  BY <1>2 DEF LoadInv
<1> QED BY <1>2, <1>3, <1>4, <1>5, <1>6 DEF LoadInv

\* An input is taken, with its shape.
LEMMA LoadInput ==
  ASSUME ImportInv, LoadInv, ImportInput
  PROVE  LoadInv'
<1> USE DEF ImportInv
<1> DEFINE d == model.inputs[at + 1]
<1>1. /\ status = "inputs" /\ at < Len(model.inputs) /\ model' = model
      /\ IF InputFine(d) THEN AddInput(d) /\ status' = status
                         ELSE status' = "refused" /\ UNCHANGED <<gr, ids, constants>>
  BY DEF ImportInput, Entry
<1>2. constants' = constants
  BY <1>1 DEF AddInput
<1>3. /\ WellRead(model) /\ Valid(model) /\ at \in Nat /\ Parsed /\ Formed(gr)
      /\ \A x \in DOMAIN ids : ids[x] \in Values(gr)
  BY <1>1 DEF ReaderInv, ImportTyped, Parsed
<1>4. at + 1 \in DOMAIN model.inputs
  BY <1>1, <1>3, ValidNames
<1>5. (constants = [x \in DOMAIN constants |-> constants[x]])'
  BY <1>2 DEF LoadInv
<1>6. ASSUME model \in Loadable
      PROVE  /\ status' = "inputs"
             /\ \A x \in DOMAIN ids' : x \in DOMAIN GivenOf(model) /\ gr'.shape[ids'[x]] = GivenOf(model)[x]
  <2>1. InputFine(d)
    BY <1>4, <1>6, LoadableAssumption DEF Computes, InputFine
  <2>2. gr' = WithInput(gr, d.dims) /\ ids' = With(ids, d.name, gr.next) /\ status' = status
    BY <1>1, <2>1 DEF AddInput
  <2>3. d.name \in DOMAIN GivenOf(model) /\ GivenOf(model)[d.name] = d.dims
    BY <1>3, <1>4, GivenFound
  <2>4. \A x \in DOMAIN ids : x \in DOMAIN GivenOf(model) /\ gr.shape[ids[x]] = GivenOf(model)[x]
    BY <1>1, <1>3, <1>6 DEF LoadInv
  <2> QED BY <1>1, <1>3, <2>2, <2>3, <2>4, GivenNamed
<1> QED BY <1>1, <1>2, <1>3, <1>5, <1>6 DEF LoadInv

\* What a model of the converter declares is of one of two types.
LEMMA InitTypes ==
  ASSUME NEW m \in Models, IsList(m.inits), NEW k \in DOMAIN m.inits
  PROVE  m.inits[k].desc.dtype \in {Float32, Int64} /\ Len(m.inits[k].data) = Elements(m.inits[k].desc.dims)
<1>1. m.inits \in Seq(FineInits)
  BY ModelLists DEF ListsOf
<1>2. m.inits[k] \in FineInits
  BY <1>1
<1>3. m.inits[k].desc \in Descs
  BY <1>2 DEF FineInits, Inits
<1>4. m.inits[k].desc.dtype \in {Float32, Int64}
  BY <1>3 DEF Descs
<1>5. Len(m.inits[k].data) = Elements(m.inits[k].desc.dims)
  BY <1>2 DEF FineInits, Inits
<1> QED BY <1>4, <1>5

\* An initializer is taken, with its numbers or its shape.
LEMMA LoadInit ==
  ASSUME ImportInv, LoadInv, ImportInit
  PROVE  LoadInv'
<1> USE DEF ImportInv
<1> DEFINE i == model.inits[at + 1]
           x == i.desc.name
<1>1. /\ status = "inits" /\ at < Len(model.inits) /\ model' = model
      /\ IF InitFine(i) THEN AddInit(i) /\ status' = status /\ at' = at + 1
                        ELSE status' = "refused" /\ UNCHANGED <<gr, ids, constants>>
  BY DEF ImportInit, Entry
<1>2. /\ WellRead(model) /\ Valid(model) /\ at \in Nat /\ Parsed /\ Formed(gr)
      /\ \A y \in DOMAIN ids : ids[y] \in Values(gr)
  BY <1>1 DEF ReaderInv, ImportTyped, Parsed
<1>3. at + 1 \in DOMAIN model.inits
  BY <1>1, <1>2, ValidNames
<1>4. (constants = [y \in DOMAIN constants |-> constants[y]])'
  <2>1. constants' = constants \/ constants' = With(constants, x, Decode(i))
    BY <1>1 DEF AddInit
  <2>2. constants = [y \in DOMAIN constants |-> constants[y]]
    BY DEF LoadInv
  <2> HIDE DEF i, x
  <2>3. CASE constants' = With(constants, x, Decode(i))
    BY <2>3 DEF With
  <2> QED BY <2>1, <2>2, <2>3
<1>5. ASSUME model \in Loadable
      PROVE  /\ status' = "inits" /\ constants' = HeldUpTo(model, at + 1) /\ at' = at + 1
             /\ \A y \in DOMAIN ids' : y \in DOMAIN GivenOf(model) /\ gr'.shape[ids'[y]] = GivenOf(model)[y]
  <2>1. i.desc.dtype \in {Float32, Int64} /\ InitFine(i)
    BY <1>2, <1>3, <1>5, LoadableAssumption, InitTypes DEF InitFine, WellRead
  <2>2. AddInit(i) /\ status' = "inits" /\ at' = at + 1
    BY <1>1, <2>1
  <2>3. /\ \A y \in DOMAIN ids : y \in DOMAIN GivenOf(model) /\ gr.shape[ids[y]] = GivenOf(model)[y]
        /\ constants = HeldUpTo(model, at)
    BY <1>1, <1>2, <1>5 DEF LoadInv
  <2>4. CASE i.desc.dtype = Int64
    <3>1. constants' = With(constants, x, Decode(i)) /\ gr' = gr /\ ids' = ids
      BY <2>2, <2>4 DEF AddInit
    <3>2. HeldUpTo(model, at + 1) = With(HeldUpTo(model, at), x, Decode(i))
      BY <1>1, <1>2, <2>4, HeldGrows
    <3> QED BY <2>2, <2>3, <3>1, <3>2
  <2>5. CASE i.desc.dtype = Float32
    <3>1. i.desc.dtype # Int64
      BY <2>5 DEF Float32, Int64
    <3>2. gr' = WithInput(gr, i.desc.dims) /\ ids' = With(ids, x, gr.next) /\ constants' = constants
      BY <2>2, <3>1 DEF AddInit
    <3>3. HeldUpTo(model, at + 1) = HeldUpTo(model, at)
      BY <1>1, <1>2, <3>1, HeldGrows
    <3>4. x \in DOMAIN GivenOf(model) /\ GivenOf(model)[x] = i.desc.dims
      BY <1>2, <1>3, <2>5, GivenFound
    <3>5. \A y \in DOMAIN ids' : y \in DOMAIN GivenOf(model) /\ gr'.shape[ids'[y]] = GivenOf(model)[y]
      <4> HIDE DEF i, x
      <4> QED BY <1>2, <2>3, <3>2, <3>4, GivenNamed
    <3> QED BY <2>2, <2>3, <3>2, <3>3, <3>5
  <2> QED BY <2>1, <2>4, <2>5
<1> HIDE DEF i, x
<1> QED BY <1>1, <1>2, <1>4, <1>5 DEF LoadInv

\* With all that is given imported, names stand for just that.
LEMMA GivenNamedAll ==
  ASSUME ImportInv, LoadInv, model \in Loadable, status = "inits", at = Len(model.inits)
  PROVE  constants = HeldOf(model) /\ NamedShapes = GivenOf(model)
<1> USE DEF ImportInv
<1>1. WellRead(model) /\ Valid(model) /\ Parsed
  BY DEF ReaderInv, ImportTyped, Parsed
<1>2. constants = HeldOf(model) /\ DOMAIN constants = HeldNames(model, Len(model.inits))
  BY <1>1, HeldEnds DEF LoadInv, HeldUpTo
<1>3. \A x \in DOMAIN ids : x \in DOMAIN GivenOf(model) /\ gr.shape[ids[x]] = GivenOf(model)[x]
  BY <1>1 DEF LoadInv
<1>4. ASSUME NEW x \in DOMAIN GivenOf(model)
      PROVE  x \in DOMAIN ids
  <2>1. Known = InputNames(model, Len(model.inputs)) \cup InitialNames(model, Len(model.inits))
    BY DEF KnownInv
  <2>2. x \in Known
    BY <1>1, <2>1, GivenFound, ValidNames DEF InputNames, InitialNames
  <2>3. x \notin DOMAIN constants
    <3> SUFFICES ASSUME x \in HeldNames(model, Len(model.inits)) PROVE FALSE
      BY <1>2
    <3>1. PICK j \in DOMAIN model.inits : model.inits[j].desc.dtype = Int64 /\ model.inits[j].desc.name = x
      BY <1>1, ValidNames DEF HeldNames
    <3>2. \/ \E k \in DOMAIN model.inputs : model.inputs[k].name = x
          \/ \E k \in DOMAIN model.inits :
               model.inits[k].desc.dtype = Float32 /\ model.inits[k].desc.name = x
      BY <1>1, GivenFound
    <3>3. Float32 # Int64
      BY DEF Float32, Int64
    <3> QED BY <1>1, <3>1, <3>2, <3>3, ValidNames
  <2> QED BY <2>2, <2>3 DEF Known
<1>5. GivenOf(model) = [x \in DOMAIN GivenOf(model) |-> GivenOf(model)[x]]
  BY DEF GivenOf
<1>6. DOMAIN ids = DOMAIN GivenOf(model)
  BY <1>3, <1>4
<1> QED BY <1>2, <1>3, <1>5, <1>6 DEF NamedShapes

\* What a node reads has the shapes that names stand for.
LEMMA ReadShapes ==
  ASSUME NEW n, \A i \in DOMAIN Tensors(n) : Tensors(n)[i] \in DOMAIN ids
  PROVE  ShapesOf(gr, InIds(n)) = InShapes(n, NamedShapes)
<1> DEFINE t == Tensors(n)
           in == InIds(n)
<1>1. DOMAIN in = DOMAIN t /\ \A i \in DOMAIN t : in[i] = ids[t[i]]
  BY DEF InIds
<1>2. \A i \in DOMAIN t : NamedShapes[t[i]] = gr.shape[ids[t[i]]]
  BY DEF NamedShapes
<1>3. /\ ShapesOf(gr, in) = [i \in DOMAIN in |-> gr.shape[in[i]]]
      /\ InShapes(n, NamedShapes) = [i \in DOMAIN t |-> NamedShapes[t[i]]]
  BY DEF ShapesOf, InShapes
<1> HIDE DEF t, in
<1>4. ShapesOf(gr, in) = InShapes(n, NamedShapes)
  BY <1>1, <1>2, <1>3
<1> QED BY <1>4 DEF in

\* A node of a supported model is fine, and of the shape that is computed for it.
LEMMA ComputableFine ==
  ASSUME ImportTyped, model \in Loadable, at \in Nat, at + 1 \in DOMAIN model.nodes,
         constants = HeldOf(model), NamedShapes = ShapesAfter(model, at)
  PROVE  LET n == model.nodes[at + 1] IN
         /\ NodeFine(n)
         /\ \A i \in DOMAIN InIds(n) : InIds(n)[i] \in Values(gr)
         /\ InferOutputShape(OpOf(n), ShapesOf(gr, InIds(n))) = OutShape(model, n, NamedShapes)
<1> DEFINE n == model.nodes[at + 1]
           t == Tensors(n)
           s == NamedShapes
           sh == OutShape(model, n, s)
<1>1. /\ Supported(n) /\ Members(t) \subseteq DOMAIN s
      /\ Buildable(n, InShapes(n, s), HeldOf(model))
      /\ sh # Throws /\ Declared(model.vinf, n.out[1], sh)
  <2>1. Computable(model, at + 1) /\ (at + 1) - 1 = at
    BY LoadableAssumption DEF Computes
  <2> QED BY <2>1 DEF Computable
<1>2. DOMAIN s = DOMAIN ids
  BY DEF NamedShapes
<1>3. \A i \in DOMAIN t : t[i] \in DOMAIN ids /\ t[i] \notin DOMAIN constants
  <2>1. \A i \in DOMAIN t : t[i] \in DOMAIN ids
    BY <1>1, <1>2 DEF Members
  <2>2. DOMAIN ids \cap DOMAIN constants = {}
    BY DEF ImportTyped
  <2> HIDE DEF t
  <2> QED BY <2>1, <2>2
<1>4. ShapesOf(gr, InIds(n)) = InShapes(n, s)
  <2> HIDE DEF n
  <2> QED BY <1>3, ReadShapes
<1>5. /\ OpOf(n) = Built(n, InShapes(n, s), HeldOf(model))
      /\ InferOutputShape(OpOf(n), ShapesOf(gr, InIds(n))) = sh
  BY <1>4 DEF OpOf, OutShape
<1>6. \A i \in DOMAIN InIds(n) : InIds(n)[i] \in Values(gr)
  <2>1. DOMAIN InIds(n) = DOMAIN t /\ \A i \in DOMAIN t : InIds(n)[i] = ids[t[i]]
    BY DEF InIds
  <2>2. \A y \in DOMAIN ids : ids[y] \in Values(gr)
    BY DEF ImportTyped
  <2> HIDE DEF n, t
  <2> QED BY <1>3, <2>1, <2>2
<1>7. Resolvable(n)
  BY <1>3 DEF Resolvable
<1> HIDE DEF n, s, t, sh
<1>8. Accepts(gr, OpOf(n), InIds(n))
  BY <1>1, <1>5, <1>6 DEF Accepts
<1>9. NodeFine(n)
  BY <1>1, <1>4, <1>5, <1>7, <1>8 DEF NodeFine
<1> QED BY <1>5, <1>6, <1>9 DEF n, s, sh

\* A node is taken, and its output has one more shape.
LEMMA LoadNode ==
  ASSUME ImportInv, LoadInv, ImportNode
  PROVE  LoadInv'
<1> USE DEF ImportInv
<1> DEFINE n == model.nodes[at + 1]
           x == n.out[1]
<1>1. /\ status = "nodes" /\ at < Len(model.nodes) /\ model' = model
      /\ IF NodeFine(n) THEN AddNode(n) /\ status' = status /\ at' = at + 1
                        ELSE status' = "refused" /\ UNCHANGED <<gr, ids, constants>>
  BY DEF ImportNode, Entry
<1>2. constants' = constants
  BY <1>1 DEF AddNode
<1>3. /\ WellRead(model) /\ Valid(model) /\ at \in Nat /\ Parsed /\ Formed(gr)
      /\ \A y \in DOMAIN ids : ids[y] \in Values(gr)
  BY <1>1 DEF ReaderInv, ImportTyped, Parsed
<1>4. at + 1 \in DOMAIN model.nodes
  BY <1>1, <1>3, ValidNames
<1>5. (constants = [y \in DOMAIN constants |-> constants[y]])'
  BY <1>2 DEF LoadInv
<1>6. ASSUME model \in Loadable
      PROVE  /\ status' = "nodes" /\ constants = HeldOf(model) /\ at' = at + 1
             /\ NamedShapes' = ShapesAfter(model, at + 1)
  <2>1. constants = HeldOf(model) /\ NamedShapes = ShapesAfter(model, at)
    BY <1>1, <1>3, <1>6 DEF LoadInv
  <2> DEFINE op == OpOf(n)
             in == InIds(n)
             sh == OutShape(model, n, NamedShapes)
  <2>2. /\ NodeFine(n) /\ InferOutputShape(op, ShapesOf(gr, in)) = sh
        /\ \A i \in DOMAIN in : in[i] \in Values(gr)
    BY <1>3, <1>4, <1>6, <2>1, ComputableFine
  <2>3. /\ gr' = WithNode(gr, op, in) /\ ids' = With(ids, x, gr.next)
        /\ status' = "nodes" /\ at' = at + 1
    BY <1>1, <2>2 DEF AddNode
  <2>4. ShapesAfter(model, at + 1) = With(NamedShapes, x, sh)
    BY <1>3, <2>1, ShapesUnfold
  <2> HIDE DEF n, x, op, in, sh
  <2>5. /\ \A v \in Values(gr) : gr'.shape[v] = gr.shape[v]
        /\ gr'.shape[gr.next] = sh
    BY <1>3, <2>2, <2>3, FormedNode
  <2>6. /\ ids' = [y \in DOMAIN ids \cup {x} |-> IF y = x THEN gr.next ELSE ids[y]]
        /\ With(NamedShapes, x, sh) = [y \in DOMAIN ids \cup {x} |-> IF y = x THEN sh ELSE gr.shape[ids[y]]]
    BY <2>3 DEF With, NamedShapes
  <2>7. NamedShapes' = [y \in DOMAIN ids' |-> gr'.shape[ids'[y]]]
    BY DEF NamedShapes
  <2>8. NamedShapes' = With(NamedShapes, x, sh)
    BY <1>3, <2>5, <2>6, <2>7
  <2> QED BY <2>1, <2>3, <2>4, <2>8
<1> HIDE DEF n, x
<1> QED BY <1>1, <1>2, <1>3, <1>5, <1>6 DEF LoadInv

\* An output is taken.
LEMMA LoadOutput ==
  ASSUME ImportInv, LoadInv, ImportOutput
  PROVE  LoadInv'
<1> USE DEF ImportInv
<1> DEFINE d == model.outputs[at + 1]
<1>1. /\ status = "outputs" /\ at < Len(model.outputs) /\ model' = model
      /\ IF OutputFine(d) THEN MarkOutput(d) /\ status' = status
                          ELSE status' = "refused" /\ UNCHANGED <<gr, ids, constants>>
  BY DEF ImportOutput, Entry
<1>2. constants' = constants /\ ids' = ids
  BY <1>1 DEF MarkOutput
<1>3. /\ WellRead(model) /\ Valid(model) /\ at \in Nat /\ Parsed /\ Formed(gr)
      /\ \A y \in DOMAIN ids : ids[y] \in Values(gr)
  BY <1>1 DEF ReaderInv, ImportTyped, Parsed
<1>4. at + 1 \in DOMAIN model.outputs
  BY <1>1, <1>3, ValidNames
<1>5. (constants = [y \in DOMAIN constants |-> constants[y]])'
  BY <1>2 DEF LoadInv
<1>6. ASSUME model \in Loadable
      PROVE  /\ status' = "outputs" /\ constants = HeldOf(model)
             /\ NamedShapes' = ShapesAfter(model, Len(model.nodes))
  <2>1. constants = HeldOf(model) /\ NamedShapes = ShapesAfter(model, Len(model.nodes))
    BY <1>1, <1>3, <1>6 DEF LoadInv
  <2>2. d.dtype = Float32 /\ d.name \in DOMAIN NamedShapes /\ d.dims = NamedShapes[d.name]
    BY <1>4, <1>6, <2>1, LoadableAssumption DEF Computes
  <2>3. d.dtype = Float32 /\ d.name \in DOMAIN ids /\ gr.shape[ids[d.name]] = d.dims
    BY <2>2 DEF NamedShapes
  <2>4. gr' = WithOutput(gr, ids[d.name]) /\ ids[d.name] \in Values(gr) /\ status' = "outputs"
    BY <1>1, <1>3, <2>3 DEF OutputFine, MarkOutput
  <2>5. gr'.shape = gr.shape
    BY <1>3, <2>4, FormedOutput
  <2>6. NamedShapes' = NamedShapes
    BY <1>2, <2>5 DEF NamedShapes
  <2> QED BY <2>1, <2>4, <2>6
<1> HIDE DEF d
<1> QED BY <1>1, <1>2, <1>3, <1>5, <1>6 DEF LoadInv

\* From one list to the next, and to the end: a supported model has outputs.
LEMMA LoadOn ==
  ASSUME ImportInv, LoadInv, ProgressInv,
         \/ Done("inputs", model.inputs, "inits") \/ Done("inits", model.inits, "nodes")
         \/ Done("nodes", model.nodes, "outputs") \/ Done("outputs", model.outputs, "built")
         \/ Validate \/ Run
  PROVE  LoadInv'
<1> USE DEF ImportInv
<1>1. /\ \/ status = "inputs" /\ status' = "inits" /\ at' = 0
         \/ status = "inits" /\ status' = "nodes" /\ at = Len(model.inits) /\ at' = 0
         \/ status = "nodes" /\ status' = "outputs" /\ at = Len(model.nodes)
         \/ status = "outputs" /\ status' = "built"
         \/ status = "built" /\ status' = IF gr.outputs # <<>> THEN "imported" ELSE "refused"
         \/ status = "imported" /\ status' = "ran"
      /\ Unbuilt
  BY DEF Done, Validate, Run, importVars, Unbuilt
<1>2. /\ model' = model /\ constants' = constants /\ gr' = gr /\ ids' = ids
      /\ NamedShapes' = NamedShapes /\ Parsed
  BY <1>1 DEF Unbuilt, NamedShapes, Parsed
<1>3. (constants = [y \in DOMAIN constants |-> constants[y]])'
  BY <1>2 DEF LoadInv
<1>4. ASSUME model \in Loadable, status = "inits", at = Len(model.inits)
      PROVE  constants = HeldOf(model) /\ NamedShapes = ShapesAfter(model, 0)
  BY <1>4, GivenNamedAll, ShapesUnfold
<1>5. ASSUME model \in Loadable, status = "built"
      PROVE  gr.outputs # <<>>
  <2>1. Len(gr.outputs) = Len(model.outputs) /\ model.outputs # <<>> /\ WellRead(model)
    BY <1>5, LoadableAssumption DEF Computes, ProgressInv, ReaderInv
  <2>2. Len(model.outputs) \in Nat /\ model.outputs = [i \in 1 .. Len(model.outputs) |-> model.outputs[i]]
    BY <2>1 DEF WellRead, IsList
  <2>3. Len(model.outputs) # 0
    BY <2>1, <2>2
  <2> QED BY <2>1, <2>3
<1> QED BY <1>1, <1>2, <1>3, <1>4, <1>5 DEF LoadInv

\* While parse() reads, nothing is refused.
LEMMA LoadPreserved ==
  ASSUME ImportInv, ProgressInv, LoadInv, [Next]_vars
  PROVE  LoadInv'
<1>1. CASE UNCHANGED vars
  BY <1>1 DEF vars, readerVars, importVars, LoadInv, NamedShapes, Parsed
<1>2. CASE ReaderNext /\ UNCHANGED importVars
  <2>1. status' \in {"reading", "rejected", "parsed"} /\ constants' = constants
    BY <1>2 DEF ReaderNext, ReadHeader, ReadSection, ValidateGraph, importVars
  <2> QED BY <2>1 DEF LoadInv
<1> QED BY <1>1, <1>2, LoadOpset, LoadInput, LoadInit, LoadNode, LoadOutput, LoadOn DEF Next, FromFgx

-----------------------------------------------------------------------------
(* The theorems                                                             *)

\* The importer keeps its invariant; that of the reader is kept beside it.
LEMMA ImportInvHolds == Spec => []ImportInv
<1>1. Init => ImportInv
  BY ImportInitInv, ReaderInitInv DEF ImportInv
<1>2. ImportInv /\ ReaderInv' /\ [Next]_vars => ImportInv'
  <2> SUFFICES ASSUME ImportInv, ReaderInv', [Next]_vars
               PROVE  ImportTyped' /\ KnownInv' /\ ShapedInv'
    BY DEF ImportInv
  <2> USE DEF ImportInv
  <2>1. WellRead(model)
    BY DEF ReaderInv
  <2>2. CASE UNCHANGED vars
    <3>1. UNCHANGED <<status, model, gr, ids, constants, weights, at>>
      BY <2>2 DEF vars, readerVars, importVars
    <3>2. /\ InputsKnown' = InputsKnown /\ Known' = Known
          /\ \A k : NodeShaped(k)' <=> NodeShaped(k)
          /\ \A k : OutputShaped(k)' <=> OutputShaped(k)
      BY <3>1 DEF InputsKnown, Known, NodeShaped, OutputShaped
    <3> QED BY <3>1, <3>2 DEF ImportTyped, KnownInv, ShapedInv, Parsed
  <2>3. CASE ReaderNext /\ UNCHANGED importVars
    BY <2>3, ReadingStep
  <2>4. CASE CheckOpset
    BY <2>4, OpsetStep
  <2>5. CASE ImportInput
    BY <2>1, <2>5, InputStep
  <2>6. CASE ImportInit
    BY <2>1, <2>6, InitStep
  <2>7. CASE ImportNode
    BY <2>1, <2>7, NodeStep
  <2>8. CASE ImportOutput
    BY <2>1, <2>8, OutputStep
  <2>9. CASE \/ Done("inputs", model.inputs, "inits") \/ Done("inits", model.inits, "nodes")
             \/ Done("nodes", model.nodes, "outputs") \/ Done("outputs", model.outputs, "built")
    BY <2>1, <2>9, DoneStep
  <2>10. CASE Validate \/ Run
    BY <2>10, FinalStep
  <2> QED BY <2>2, <2>3, <2>4, <2>5, <2>6, <2>7, <2>8, <2>9, <2>10 DEF Next, FromFgx
<1> QED BY <1>1, <1>2, ReaderInvHolds, PTL DEF Spec

\* So is what was inferred from shapes and constants.
LEMMA ElementsInvHolds == Spec => []ElementsInv
<1>1. Init => ElementsInv
  <2> SUFFICES ASSUME Init PROVE ElementsInv
    OBVIOUS
  <2>1. gr = NoGraph /\ constants = [x \in {} |-> <<>>]
    BY DEF Init
  <2> QED BY <2>1 DEF ElementsInv, NoGraph, Values, NodeIds
<1>2. ImportInv /\ ElementsInv /\ [Next]_vars => ElementsInv'
  BY ElementsPreserved DEF ImportInv, ReaderInv
<1> QED BY <1>1, <1>2, ImportInvHolds, PTL DEF Spec

\* Whatever the file, a name stands for a value of the graph or for a constant,
\* and the graph has its inputs in front of the weights.
THEOREM ImporterTypeOK == Spec => []TypeOK
<1>1. ImportInv => TypeOK
  <2> SUFFICES ASSUME ImportTyped PROVE TypeOK
    BY DEF ImportInv
  <2>1. Len(gr.inputs) = Len(weights) + (IF status = "inputs" THEN at
                                         ELSE Cardinality(Members(Names(model.inputs)) \cap DOMAIN ids))
    BY DEF ImportTyped, InputsKnown
  <2> QED BY <2>1 DEF ImportTyped, Formed, TypeOK, Phases
<1> QED BY <1>1, ImportInvHolds, PTL

\* In no file that the reader lets through does a node or an output name what
\* was not imported before it.
THEOREM ImporterNothingDangling == Spec => []NothingDangling
<1>1. ImportInv => NothingDangling
  <2> SUFFICES ASSUME ImportInv PROVE NothingDangling
    OBVIOUS
  <2> USE DEF ImportInv
  <2>1. ASSUME status = "nodes", at < Len(model.nodes)
        PROVE  Members(model.nodes[at + 1].in) \subseteq DOMAIN ids \cup DOMAIN constants
    <3>1. Valid(model) /\ WellRead(model) /\ at \in Nat
      BY <2>1 DEF ReaderInv, ImportTyped, Parsed
    <3>2. at + 1 \in DOMAIN model.nodes
      BY <2>1, <3>1, ValidNames
    <3>3. Known = DefinedBefore(model, at + 1)
      BY <2>1 DEF KnownInv
    <3> QED BY <3>1, <3>2, <3>3 DEF Valid, ValidNode, Known
  <2>2. ASSUME status = "outputs"
        PROVE  Members(Names(model.outputs)) \subseteq DOMAIN ids \cup DOMAIN constants
    <3>1. Valid(model)
      BY <2>2 DEF ImportTyped, Parsed
    <3>2. Known = DefinedBefore(model, Len(model.nodes) + 1)
      BY <2>2 DEF KnownInv
    <3> QED BY <3>1, <3>2 DEF Valid, Known
  <2> QED BY <2>1, <2>2 DEF NothingDangling
<1> QED BY <1>1, ImportInvHolds, PTL

\* Whatever the file, every computed value of an imported model has the shape
\* that the file gives for it.
THEOREM ImporterShapesDeclared == Spec => []ShapesDeclared
<1>1. ImportInv => ShapesDeclared
  <2> SUFFICES ASSUME ImportInv, Imported, NEW x \in DOMAIN ids, Computed(x), NEW e \in Expected(x)
               PROVE  e = gr.shape[ids[x]]
    BY DEF ShapesDeclared
  <2>1. status \in {"imported", "ran"} /\ WellRead(model) /\ Valid(model)
    BY DEF Imported, ImportInv, ImportTyped, ReaderInv, Parsed
  <2>2. PICK k \in DOMAIN model.nodes : x \in Members(model.nodes[k].out)
    BY DEF Computed
  <2>3. NodeShaped(k) /\ k \in 1 .. Len(model.nodes)
    BY <2>1, ValidNames DEF ImportInv, ShapedInv
  <2>4. x = model.nodes[k].out[1]
    <3>1. DOMAIN model.nodes[k].out = 1 .. 1
      BY <2>1, <2>3 DEF NodeShaped, WellRead, NodeListed, IsList
    <3> QED BY <2>2, <3>1 DEF Members
  <2>5. CASE \E i \in DOMAIN model.vinf : model.vinf[i].name = x /\ e = model.vinf[i].dims
    BY <2>3, <2>4, <2>5 DEF NodeShaped, Declared
  <2>6. CASE \E i \in DOMAIN model.outputs : model.outputs[i].name = x /\ e = model.outputs[i].dims
    BY <2>1, <2>6, ValidNames DEF ImportInv, ShapedInv, OutputShaped
  <2> QED BY <2>5, <2>6 DEF Expected
<1> QED BY <1>1, ImportInvHolds, PTL

\* Whatever the file, Reshape copies all of its input and nothing else: also where
\* the code computes a dimension with products that wrap at 2^64.
THEOREM ImporterReshapeKeepsElements == Spec => []ReshapeKeepsElements
<1>1. ElementsInv => ReshapeKeepsElements
  BY DEF ElementsInv, Reshaped, ReshapeKeepsElements
<1> QED BY <1>1, ElementsInvHolds, PTL

\* Whatever the file, convolution and pooling have one output for every position
\* of the window.  The dimensions that the code gets where the difference of the
\* sizes wraps around are none that the file could declare, and are refused there.
THEOREM ImporterWindowsFit == Spec => []WindowsFit
<1>1. ImportInv /\ WindowsInv /\ ShapesDeclared => WindowsFit
  <2> SUFFICES ASSUME ImportInv, WindowsInv, ShapesDeclared, Imported, NEW k \in NodeIds(gr),
                      "window" \in DOMAIN gr.nodes[k].op, NEW a \in 1 .. 2,
                      LET n == gr.nodes[k]
                          in == gr.shape[n.in[1]]
                          w == n.op.window IN
                      /\ in[a + 2] \in 1 .. MaxDim
                      /\ \/ w.kernel[a] <= in[a + 2] + 2 * w.pad[a]
                         \/ \E x \in DOMAIN ids : ids[x] = n.out /\ Expected(x) # {}
               PROVE  LET n == gr.nodes[k]
                          w == n.op.window
                          padded == gr.shape[n.in[1]][a + 2] + 2 * w.pad[a] IN
                      gr.shape[n.out][a + 2] =
                        Cardinality({o \in 0 .. padded : o * w.stride[a] + w.kernel[a] <= padded})
    BY DEF WindowsFit
  <2> DEFINE n == gr.nodes[k]
             w == n.op.window
             size == gr.shape[n.in[1]][a + 2]
             out == gr.shape[n.out]
             y == w.kernel[a]
             p == w.pad[a]
             z == w.stride[a]
  <2>1. /\ y \in 1 .. MaxDim /\ z \in 1 .. MaxDim /\ p \in 0 .. MaxDim
        /\ Len(out) = 4 /\ out[a + 2] = Windows(size, p, y, z)
    BY DEF WindowsInv, Windowed, WindowBounded, Slid
  <2>2. /\ size \in 1 .. MaxDim
        /\ y <= size + 2 * p \/ \E x \in DOMAIN ids : ids[x] = n.out /\ Expected(x) # {}
    OBVIOUS
  <2>3. ASSUME NEW x \in DOMAIN ids, ids[x] = n.out, Expected(x) # {}
        PROVE  out[a + 2] \in 1 .. MaxDim
    <3>1. Computed(x)
      <4>1. \A i \in DOMAIN gr.inputs : gr.inputs[i] # n.out
        BY DEF ImportInv, ImportTyped, Formed, WellFormed
      <4> QED BY <2>3, <4>1 DEF WindowsInv, NamesComputed
    <3>2. PICK e \in Expected(x) : e = out
      BY <2>3, <3>1 DEF ShapesDeclared
    <3>3. \A i \in 1 .. Len(e) : e[i] \in 1 .. MaxDim
      BY ExpectedBounded DEF ImportInv, ReaderInv
    <3> HIDE DEF out
    <3>4. \A i \in 1 .. 4 : out[i] \in 1 .. MaxDim
      BY <2>1, <3>2, <3>3
    <3> QED BY SMTT(30), <3>4
  <2>4. out[a + 2] = Cardinality({o \in 0 .. size + 2 * p : o * z + y <= size + 2 * p})
    <3> HIDE DEF n, w, size, out, y, p, z
    <3>1. y <= size + 2 * p \/ out[a + 2] \in 1 .. MaxDim
      BY <2>2, <2>3
    <3>2. /\ size \in 1 .. MaxDim /\ p \in 0 .. MaxDim /\ y \in 1 .. MaxDim /\ z \in 1 .. MaxDim
          /\ out[a + 2] = Windows(size, p, y, z)
      BY <2>1, <2>2
    <3> QED BY ONLY <3>1, <3>2, WindowsFitted
  <2> QED BY <2>4
<1>2. Init => WindowsInv
  <2> SUFFICES ASSUME Init PROVE WindowsInv
    OBVIOUS
  <2>1. gr = NoGraph /\ ids = [x \in {} |-> 0]
    BY DEF Init
  <2> QED BY <2>1 DEF WindowsInv, NamesComputed, NoGraph, NodeIds
<1> QED BY <1>1, <1>2, WindowsPreserved, ElementsInvHolds, ImportInvHolds, ImporterShapesDeclared, PTL DEF Spec

\* Names stand for what the model says, and the lists of the graph grow in order.
LEMMA TracedInvHolds == Spec => [](TracedInv /\ ProgressInv)
<1> DEFINE Inv == TracedInv /\ ProgressInv
<1>1. Init => Inv
  <2> SUFFICES ASSUME Init PROVE Inv
    OBVIOUS
  <2>1. /\ status = "opened" /\ gr = NoGraph /\ weights = <<>> /\ ids = [x \in {} |-> 0]
    BY DEF Init, ReaderInit
  <2>2. TracedInv
    <3>1. DOMAIN ids = {}
      BY <2>1
    <3> QED BY <2>1, <3>1, NothingTraced
  <2> QED BY <2>1, <2>2 DEF ProgressInv
<1>2. ImportInv /\ ElementsInv /\ Inv /\ [Next]_vars => Inv'
  BY TracedPreserved
<1> QED BY <1>1, <1>2, ImportInvHolds, ElementsInvHolds, PTL DEF Spec

\* Whatever the file, a run returns the outputs in the order of the file, each
\* with the contents that its name stands for, every input and weight being
\* bound to its name.
THEOREM ImporterRunReturnsOutputs == Spec => []RunReturnsOutputs
<1> DEFINE Traced == TracedInv /\ ProgressInv
<1>1. Init => RanInv
  BY DEF Init, ReaderInit, RanInv
<1>2. RanInv /\ [Next]_vars => RanInv'
  BY RanPreserved
<1>3. ImportInv /\ Traced /\ RanInv => RunReturnsOutputs
  <2> SUFFICES ASSUME ImportInv, Traced, RanInv, status = "ran",
                      \A i \in DOMAIN model.outputs : Computed(model.outputs[i].name)
               PROVE  results = [i \in DOMAIN model.outputs |-> Meaning[model.outputs[i].name]]
    BY DEF RunReturnsOutputs
  <2>1. Complete /\ Len(gr.outputs) = Len(model.outputs)
    BY DEF ImportInv, ReaderInv, ImportTyped, Parsed, ProgressInv, Complete
  <2> QED BY <2>1, ResultsMeant
<1>4. Spec => []Traced
  BY TracedInvHolds
<1> QED BY <1>1, <1>2, <1>3, <1>4, ImportInvHolds, PTL DEF Spec

\* A file that the converter writes for a well-formed model of supported
\* operators, if it is not too large, is neither rejected nor refused: parse()
\* returns the model, and every input, initializer, node and output of it passes
\* the checks of fromFgx(), whatever number its value was given.
THEOREM ImporterWrittenIsLoaded == Spec => []WrittenIsLoaded
<1> DEFINE Traced == TracedInv /\ ProgressInv
<1>1. Init => LoadInv
  <2> SUFFICES ASSUME Init PROVE LoadInv
    OBVIOUS
  <2>1. status = "opened" /\ constants = [x \in {} |-> <<>>]
    BY DEF Init, ReaderInit
  <2> QED BY <2>1 DEF LoadInv, Parsed
<1>2. ImportInv /\ Traced /\ LoadInv /\ [Next]_vars => LoadInv'
  BY LoadPreserved
<1>3. ReadBack /\ LoadInv => WrittenIsLoaded
  <2> SUFFICES ASSUME ReadBack, LoadInv, status \in {"rejected", "refused"}, file \in Written
               PROVE  FALSE
    BY DEF WrittenIsLoaded
  <2> PICK m \in Loadable : file = Encode(m)
    BY DEF Written
  <2>1. Len(file) <= MaxFileSize
    BY DEF Written
  <2>2. status = "refused" /\ Parsed /\ model = m
    BY <2>1, LoadableAssumption DEF ReadBack, Parsed
  <2> QED BY <2>1, <2>2 DEF LoadInv
<1>4. Spec => []Traced
  BY TracedInvHolds
<1> QED BY <1>1, <1>2, <1>3, <1>4, ImportInvHolds, ReaderReadsBack, PTL DEF Spec
=============================================================================
