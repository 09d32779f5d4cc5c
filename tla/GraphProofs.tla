---------------------------- MODULE GraphProofs ----------------------------
(***************************************************************************)
(* Theorems about Graph, for graphs of every size and whatever shape       *)
(* inference answers.                                                      *)
(***************************************************************************)
EXTENDS Graph, FiniteSetTheorems, SequenceTheorems, TLAPS

-----------------------------------------------------------------------------
(* Sets of numbers and their enumeration *)

\* The least-number principle for a finite set: among the sets of elements up
\* to some n there is a smallest one.
LEMMA LeastElement ==
  ASSUME NEW U, IsFiniteSet(U), U \subseteq Int, U # {}
  PROVE  \E n \in U : \A m \in U : n <= m
<1> DEFINE UpTo(n) == {m \in U : m <= n}
           F == {UpTo(n) : n \in U}
<1>1. F \subseteq FiniteSubsetsOf(U) /\ F # {}
  <2>1. \A T \in SUBSET U : T \in FiniteSubsetsOf(U)
    BY FS_FiniteSubsetsOfFinite
  <2>2. \A n \in U : UpTo(n) \in SUBSET U
    OBVIOUS
  <2> HIDE DEF UpTo
  <2> QED BY <2>1, <2>2
<1>2. PICK X \in F : \A Y \in F : ~ (<<Y, X>> \in StrictSubsetOrdering(U))
  <2> HIDE DEF F
  <2> QED BY <1>1, WFMin, FS_StrictSubsetOrderingWellFounded
<1>3. PICK n \in U : X = UpTo(n)
  OBVIOUS
<1>4. ASSUME NEW m \in U, ~ n <= m PROVE FALSE
  <2>1. UpTo(m) \subseteq X /\ UpTo(m) # X
    <3>1. m \in Int /\ n \in Int
      OBVIOUS
    <3>2. \A x \in U : x \in Int /\ (x <= m => x <= n)
      BY <1>4
    <3>3. n \in UpTo(n) /\ n \notin UpTo(m)
      BY <1>4
    <3> QED BY <1>3, <3>2, <3>3
  <2>2. <<UpTo(m), X>> \in StrictSubsetOrdering(U)
    BY <1>3, <2>1 DEF StrictSubsetOrdering
  <2> QED BY <1>2, <2>2
<1> QED BY <1>4

\* Ascending(S) are sequences in which every element of S is once.
LEMMA AscendingEnumerates ==
  ASSUME NEW S, IsFiniteSet(S), S \subseteq Int, NEW q \in Ascending(S)
  PROVE  /\ q \in Seq(S)
         /\ \A j, k \in DOMAIN q : j # k => q[j] # q[k]
         /\ \A x \in S : \E k \in DOMAIN q : q[k] = x
<1> DEFINE n == Cardinality(S)
<1>1. n \in Nat
  BY FS_CardinalityType
<1>2. q \in [1 .. n -> S] /\ \A i, j \in 1 .. n : i < j => q[i] < q[j]
  BY DEF Ascending
<1> HIDE DEF n
<1>3. q \in Seq(S) /\ DOMAIN q = 1 .. n
  BY <1>1, <1>2
<1>4. \A j, k \in 1 .. n : j # k => q[j] # q[k]
  <2> SUFFICES ASSUME NEW j \in 1 .. n, NEW k \in 1 .. n, j # k PROVE q[j] # q[k]
    OBVIOUS
  <2>1. q[j] \in Int /\ q[k] \in Int
    BY <1>2
  <2>2. j < k \/ k < j
    BY <1>1
  <2> QED BY <1>2, <2>1, <2>2
<1>5. q \in Injection(1 .. n, S)
  BY <1>2, <1>4 DEF Injection, IsInjective
<1>6. Cardinality(1 .. n) = n
  BY <1>1, FS_Interval
<1>7. q \in Surjection(1 .. n, S)
  BY <1>5, <1>6, FS_Injection DEF n
<1> QED BY <1>3, <1>4, <1>7 DEF Surjection

\* A sequence that enumerates 1 .. n without repetition has length n.
LEMMA EnumerationLength ==
  ASSUME NEW n \in Nat, NEW q \in Seq(1 .. n),
         \A j, k \in DOMAIN q : j # k => q[j] # q[k],
         \A x \in 1 .. n : \E k \in DOMAIN q : q[k] = x
  PROVE  Len(q) = n
<1>1. Len(q) \in Nat /\ DOMAIN q = 1 .. Len(q) /\ q \in [1 .. Len(q) -> 1 .. n]
  BY LenProperties
<1>2. q \in Injection(1 .. Len(q), 1 .. n)
  BY <1>1 DEF Injection, IsInjective
<1>3. q \in Surjection(1 .. Len(q), 1 .. n)
  BY <1>1 DEF Surjection
<1>4. Cardinality(1 .. n) = Len(q)
  BY <1>1, <1>2, <1>3, FS_CountingElements DEF ExistsBijection, Bijection
<1>5. Cardinality(1 .. n) = n
  BY FS_Interval
<1> QED BY <1>4, <1>5

-----------------------------------------------------------------------------
(* The graph *)

\* A graph made by the build functions.  Besides what GraphTypeOK says, it is a
\* record, every value of it is an input or made by a node, nothing else is one
\* or the other (so a new value is neither), no value is two inputs, and its nodes
\* were accepted.
Typed(gr) ==
  /\ gr = [nodes |-> gr.nodes, inputs |-> gr.inputs, outputs |-> gr.outputs,
           next |-> gr.next, shape |-> gr.shape]
  /\ gr.nodes \in Seq(Node)
  /\ gr.inputs \in Seq(Nat) /\ gr.outputs \in Seq(Nat) /\ gr.next \in Nat
  /\ Values(gr) = 0 .. gr.next - 1
  /\ gr.shape \in [Values(gr) -> Shapes]

Sourced(gr) ==
  /\ \A v \in Values(gr) :
       \/ \E k \in DOMAIN gr.inputs : v = gr.inputs[k]
       \/ \E k \in NodeIds(gr) : v = gr.nodes[k].out
  /\ \A k \in DOMAIN gr.inputs : gr.inputs[k] \in Values(gr)
  /\ \A k \in NodeIds(gr) : gr.nodes[k].out \in Values(gr)
  /\ \A j, k \in DOMAIN gr.inputs : j # k => gr.inputs[j] # gr.inputs[k]

\* The operator of every node took what the node reads.
Accepted(gr) ==
  \A n \in NodeIds(gr) :
    /\ \A j \in DOMAIN gr.nodes[n].in : gr.nodes[n].in[j] \in Values(gr)
    /\ Infer(gr.nodes[n].op, ShapesOf(gr, gr.nodes[n].in)) \in Shapes
    /\ gr.shape[gr.nodes[n].out] = Infer(gr.nodes[n].op, ShapesOf(gr, gr.nodes[n].in))

WellBuilt(gr) == Typed(gr) /\ WellFormed(gr) /\ Sourced(gr) /\ Accepted(gr)

\* Inputs, nodes and outputs are sequences, and so are the inputs of a node.
LEMMA GraphSequences ==
  ASSUME NEW gr, WellBuilt(gr)
  PROVE  /\ Len(gr.nodes) \in Nat /\ NodeIds(gr) = 1 .. Len(gr.nodes)
         /\ IsFiniteSet(NodeIds(gr))
         /\ DOMAIN gr.nodes = NodeIds(gr)
         /\ \A n \in NodeIds(gr) :
              /\ gr.nodes[n] = [op |-> gr.nodes[n].op, in |-> gr.nodes[n].in, out |-> gr.nodes[n].out]
              /\ gr.nodes[n].op \in Ops /\ gr.nodes[n].in \in Seq(Nat) /\ gr.nodes[n].out \in Nat
<1>1. gr.nodes \in Seq(Node)
  BY DEF WellBuilt, Typed
<1>2. Len(gr.nodes) \in Nat /\ \A n \in 1 .. Len(gr.nodes) : gr.nodes[n] \in Node
  BY <1>1
<1>3. IsFiniteSet(1 .. Len(gr.nodes))
  BY <1>2, FS_Interval
<1> QED BY <1>1, <1>2, <1>3 DEF NodeIds, Node

\* What a node reads, from one node and from all of them.
LEMMA ReadsFinite ==
  ASSUME NEW gr, WellBuilt(gr), NEW i \in NodeIds(gr)
  PROVE  /\ IsFiniteSet(DOMAIN gr.nodes[i].in)
         /\ \A p : ReadsFrom(gr, i, p) \subseteq DOMAIN gr.nodes[i].in
         /\ Produced(gr, i) \subseteq DOMAIN gr.nodes[i].in
<1>1. gr.nodes[i].in \in Seq(Nat)
  BY GraphSequences
<1>2. Len(gr.nodes[i].in) \in Nat /\ DOMAIN gr.nodes[i].in = 1 .. Len(gr.nodes[i].in)
  BY <1>1
<1>3. IsFiniteSet(1 .. Len(gr.nodes[i].in))
  BY <1>2, FS_Interval
<1>4. \A p : ReadsFrom(gr, i, p) \subseteq DOMAIN gr.nodes[i].in
  BY DEF ReadsFrom
<1> QED BY <1>2, <1>3, <1>4 DEF Produced

\* A node reads from earlier nodes only.
LEMMA ReadsEarlier ==
  ASSUME NEW gr, WellBuilt(gr),
         NEW i \in NodeIds(gr), NEW p \in NodeIds(gr), ReadsFrom(gr, i, p) # {}
  PROVE  p < i
<1>1. PICK j \in DOMAIN gr.nodes[i].in : gr.nodes[i].in[j] = gr.nodes[p].out
  BY DEF ReadsFrom
<1>2. /\ \A k \in DOMAIN gr.inputs : gr.nodes[p].out # gr.inputs[k]
      /\ \A k \in NodeIds(gr) : k # p => gr.nodes[k].out # gr.nodes[p].out
      /\ \/ \E k \in DOMAIN gr.inputs : gr.nodes[i].in[j] = gr.inputs[k]
         \/ \E k \in 1 .. i - 1 : gr.nodes[i].in[j] = gr.nodes[k].out
  BY DEF WellBuilt, WellFormed
<1>3. PICK k \in 1 .. i - 1 : gr.nodes[i].in[j] = gr.nodes[k].out
  BY <1>1, <1>2
<1>4. k \in NodeIds(gr)
  BY GraphSequences
<1> QED BY <1>1, <1>2, <1>3, <1>4, GraphSequences

\* No two nodes are the producer of one input.
LEMMA OneProducer ==
  ASSUME NEW gr, WellBuilt(gr), NEW i \in NodeIds(gr),
         NEW p \in NodeIds(gr), NEW q \in NodeIds(gr), p # q
  PROVE  ReadsFrom(gr, i, p) \cap ReadsFrom(gr, i, q) = {}
<1>1. gr.nodes[p].out # gr.nodes[q].out
  BY DEF WellBuilt, WellFormed
<1> QED BY <1>1 DEF ReadsFrom

-----------------------------------------------------------------------------
(* What a graph means *)

\* Counting from 0 to n, from number to number.
LEMMA CountUp ==
  ASSUME NEW n \in Nat, NEW S, 0 \in S, \A m \in 0 .. n - 1 : m \in S => m + 1 \in S
  PROVE  n \in S
<1> DEFINE U == {k \in 0 .. n : k \notin S}
<1> SUFFICES ASSUME n \notin S PROVE FALSE
  OBVIOUS
<1>1. U \subseteq Int /\ U # {} /\ U \subseteq 0 .. n
  OBVIOUS
<1>2. IsFiniteSet(0 .. n)
  BY FS_Interval
<1> HIDE DEF U
<1>3. IsFiniteSet(U)
  BY <1>1, <1>2, FS_Subset
<1>4. PICK m \in U : \A k \in U : m <= k
  BY <1>1, <1>3, LeastElement
<1>5. m \in 0 .. n /\ m # 0 /\ m \notin S
  BY DEF U
<1>6. m - 1 \in 0 .. n - 1 /\ ~ (m <= m - 1) /\ (m - 1) + 1 = m
  BY <1>5
<1>7. m - 1 \notin U
  BY <1>4, <1>6
<1> QED BY <1>5, <1>6, <1>7 DEF U

\* Node n applied to what f says of its inputs.
Applied(gr, n, f) ==
  <<gr.nodes[n].op, [i \in DOMAIN gr.nodes[n].in |-> f[gr.nodes[n].in[i]]]>>

\* f gives the values of gr a meaning: inputs are the arguments, and what a node
\* makes is its operator applied to its inputs.
Obeys(gr, args, f) ==
  /\ \A i \in DOMAIN gr.inputs : f[gr.inputs[i]] = args[i]
  /\ \A n \in NodeIds(gr) : f[gr.nodes[n].out] = Applied(gr, n, f)

\* What v stands for when f is what the other values stand for: one step of the
\* recursive definition of the model.
ValueOf(gr, args, f, v) ==
  IF \E i \in DOMAIN gr.inputs : gr.inputs[i] = v
  THEN args[CHOOSE i \in DOMAIN gr.inputs : gr.inputs[i] = v]
  ELSE LET n == CHOOSE k \in NodeIds(gr) : gr.nodes[k].out = v IN
       <<gr.nodes[n].op, [i \in DOMAIN gr.nodes[n].in |-> f[gr.nodes[n].in[i]]]>>

\* f solves the recursion.
Denotes(gr, args, f) == f = [v \in Values(gr) |-> ValueOf(gr, args, f, v)]

\* An input is no node's value and one input only, a node's value that of no other.
LEMMA ValueCases ==
  ASSUME NEW gr, WellBuilt(gr), NEW args, NEW f
  PROVE  /\ \A i \in DOMAIN gr.inputs : ValueOf(gr, args, f, gr.inputs[i]) = args[i]
         /\ \A n \in NodeIds(gr) : ValueOf(gr, args, f, gr.nodes[n].out) = Applied(gr, n, f)
<1>1. ASSUME NEW i \in DOMAIN gr.inputs
      PROVE  ValueOf(gr, args, f, gr.inputs[i]) = args[i]
  <2>1. \A k \in DOMAIN gr.inputs : gr.inputs[k] = gr.inputs[i] => k = i
    BY DEF WellBuilt, Sourced
  <2>2. (CHOOSE k \in DOMAIN gr.inputs : gr.inputs[k] = gr.inputs[i]) = i
    BY <2>1
  <2> QED BY <2>2 DEF ValueOf
<1>2. ASSUME NEW n \in NodeIds(gr)
      PROVE  ValueOf(gr, args, f, gr.nodes[n].out) = Applied(gr, n, f)
  <2>1. /\ ~ \E i \in DOMAIN gr.inputs : gr.inputs[i] = gr.nodes[n].out
        /\ \A k \in NodeIds(gr) : gr.nodes[k].out = gr.nodes[n].out => k = n
    BY DEF WellBuilt, WellFormed
  <2>2. (CHOOSE k \in NodeIds(gr) : gr.nodes[k].out = gr.nodes[n].out) = n
    BY <2>1
  <2> QED BY <2>1, <2>2 DEF ValueOf, Applied
<1> QED BY <1>1, <1>2

\* The values there are when the first m nodes have run.
Upto(gr, m) ==
  {gr.inputs[i] : i \in DOMAIN gr.inputs} \cup {gr.nodes[n].out : n \in NodeIds(gr) \cap (1 .. m)}

\* A node reads nothing but inputs and what nodes before it make.
LEMMA ReadsUpto ==
  ASSUME NEW gr, WellBuilt(gr), NEW n \in NodeIds(gr), NEW m \in Nat, n <= m + 1,
         NEW j \in DOMAIN gr.nodes[n].in
  PROVE  gr.nodes[n].in[j] \in Upto(gr, m)
<1>1. \/ \E k \in DOMAIN gr.inputs : gr.nodes[n].in[j] = gr.inputs[k]
      \/ \E k \in 1 .. n - 1 : gr.nodes[n].in[j] = gr.nodes[k].out
  BY DEF WellBuilt, WellFormed
<1>2. \A k \in 1 .. n - 1 : k \in NodeIds(gr) \cap (1 .. m)
  BY GraphSequences
<1> QED BY <1>1, <1>2 DEF Upto

\* All values are there in the end, and the next node makes a new one.
LEMMA UptoShape ==
  ASSUME NEW gr, WellBuilt(gr)
  PROVE  /\ Upto(gr, Len(gr.nodes)) = Values(gr)
         /\ \A m \in Nat : Upto(gr, m) \subseteq Values(gr)
         /\ \A m \in Nat : m + 1 \in NodeIds(gr) =>
              /\ Upto(gr, m + 1) = Upto(gr, m) \cup {gr.nodes[m + 1].out}
              /\ gr.nodes[m + 1].out \notin Upto(gr, m)
<1>1. NodeIds(gr) \cap (1 .. Len(gr.nodes)) = NodeIds(gr)
  BY GraphSequences
<1>2. Upto(gr, Len(gr.nodes)) = Values(gr) /\ \A m \in Nat : Upto(gr, m) \subseteq Values(gr)
  BY <1>1 DEF Upto, WellBuilt, Sourced
<1>3. ASSUME NEW m \in Nat, m + 1 \in NodeIds(gr)
      PROVE  /\ Upto(gr, m + 1) = Upto(gr, m) \cup {gr.nodes[m + 1].out}
             /\ gr.nodes[m + 1].out \notin Upto(gr, m)
  <2>1. NodeIds(gr) \cap (1 .. m + 1) = (NodeIds(gr) \cap (1 .. m)) \cup {m + 1}
    BY <1>3
  <2>2. \A k \in NodeIds(gr) \cap (1 .. m) : k # m + 1
    OBVIOUS
  <2>3. /\ \A i \in DOMAIN gr.inputs : gr.nodes[m + 1].out # gr.inputs[i]
        /\ \A k \in NodeIds(gr) : k # m + 1 => gr.nodes[k].out # gr.nodes[m + 1].out
    BY <1>3 DEF WellBuilt, WellFormed
  <2>4. gr.nodes[m + 1].out \notin Upto(gr, m)
    BY <2>2, <2>3 DEF Upto
  <2> QED BY <2>1, <2>4 DEF Upto
<1> QED BY <1>2, <1>3

\* The recursion has a solution, made node after node.
LEMMA DenotationExists ==
  ASSUME NEW gr, WellBuilt(gr), NEW args
  PROVE  \E f : Denotes(gr, args, f)
<1> DEFINE Solved(f, m) == /\ f = [v \in Values(gr) |-> f[v]]
                           /\ \A v \in Upto(gr, m) : f[v] = ValueOf(gr, args, f, v)
           S == {m \in Nat : \E f : Solved(f, m)}
<1>1. 0 \in S
  <2> DEFINE f == [v \in Values(gr) |-> ValueOf(gr, args, <<>>, v)]
  <2>1. \A v \in Upto(gr, 0) : \E i \in DOMAIN gr.inputs : v = gr.inputs[i]
    BY DEF Upto
  <2>2. \A v \in Upto(gr, 0) : v \in Values(gr) /\ f[v] = ValueOf(gr, args, <<>>, v)
    BY UptoShape
  <2>3. f = [v \in Values(gr) |-> f[v]]
    OBVIOUS
  <2> HIDE DEF f
  <2>4. ASSUME NEW v \in Upto(gr, 0) PROVE ValueOf(gr, args, f, v) = ValueOf(gr, args, <<>>, v)
    <3>1. PICK i \in DOMAIN gr.inputs : v = gr.inputs[i]
      BY <2>1
    <3>2. ASSUME NEW e PROVE ValueOf(gr, args, e, gr.inputs[i]) = args[i]
      BY ValueCases
    <3> QED BY <3>1, <3>2
  <2> QED BY <2>2, <2>3, <2>4
<1>2. ASSUME NEW m \in 0 .. Len(gr.nodes) - 1, m \in S PROVE m + 1 \in S
  <2>0. m \in Nat /\ m + 1 \in NodeIds(gr)
    BY GraphSequences
  <2>1. PICK f : Solved(f, m)
    BY <1>2
  <2> DEFINE o == gr.nodes[m + 1].out
             h == [v \in Values(gr) |-> IF v = o THEN Applied(gr, m + 1, f) ELSE f[v]]
  <2>2. /\ Upto(gr, m + 1) = Upto(gr, m) \cup {o} /\ o \notin Upto(gr, m)
        /\ Upto(gr, m) \subseteq Values(gr) /\ o \in Values(gr)
    BY <2>0, UptoShape DEF WellBuilt, Sourced
  <2>3. /\ h = [v \in Values(gr) |-> h[v]]
        /\ h[o] = Applied(gr, m + 1, f)
        /\ \A v \in Upto(gr, m) : h[v] = f[v]
    BY <2>2
  <2> HIDE DEF h, o
  <2>4. ASSUME NEW n \in NodeIds(gr), n <= m + 1
        PROVE  Applied(gr, n, h) = Applied(gr, n, f)
    <3>1. \A j \in DOMAIN gr.nodes[n].in : h[gr.nodes[n].in[j]] = f[gr.nodes[n].in[j]]
      BY <2>0, <2>3, <2>4, ReadsUpto
    <3> QED BY <3>1 DEF Applied
  <2>5. ASSUME NEW v \in Upto(gr, m) PROVE h[v] = ValueOf(gr, args, h, v)
    <3>1. h[v] = ValueOf(gr, args, f, v)
      BY <2>1, <2>3
    <3>2. ASSUME NEW i \in DOMAIN gr.inputs, v = gr.inputs[i] PROVE h[v] = ValueOf(gr, args, h, v)
      <4>1. ASSUME NEW e PROVE ValueOf(gr, args, e, gr.inputs[i]) = args[i]
        BY ValueCases
      <4> QED BY <3>1, <3>2, <4>1
    <3>3. ASSUME NEW n \in NodeIds(gr) \cap (1 .. m), v = gr.nodes[n].out
          PROVE  h[v] = ValueOf(gr, args, h, v)
      <4>1. n \in NodeIds(gr) /\ n <= m + 1
        BY <2>0
      <4>2. ASSUME NEW e PROVE ValueOf(gr, args, e, gr.nodes[n].out) = Applied(gr, n, e)
        BY <4>1, ValueCases
      <4> QED BY <2>4, <3>1, <3>3, <4>1, <4>2
    <3> QED BY <3>2, <3>3 DEF Upto
  <2>6. h[o] = ValueOf(gr, args, h, o)
    <3>1. Applied(gr, m + 1, h) = Applied(gr, m + 1, f)
      BY <2>0, <2>4
    <3>2. ValueOf(gr, args, h, gr.nodes[m + 1].out) = Applied(gr, m + 1, h)
      BY <2>0, ValueCases
    <3> QED BY <2>3, <3>1, <3>2 DEF o
  <2>7. Solved(h, m + 1)
    BY <2>2, <2>3, <2>5, <2>6
  <2> QED BY <2>0, <2>7
<1>3. Len(gr.nodes) \in S
  <2> HIDE DEF S
  <2> QED BY <1>1, <1>2, CountUp, GraphSequences
<1>4. PICK f : Solved(f, Len(gr.nodes))
  BY <1>3
<1>5. \A v \in Values(gr) : f[v] = ValueOf(gr, args, f, v)
  BY <1>4, UptoShape
<1>6. f = [v \in Values(gr) |-> ValueOf(gr, args, f, v)]
  BY <1>4, <1>5
<1> QED BY <1>6 DEF Denotes

\* So the denotation of a graph is a meaning of it.
LEMMA DenotationObeys ==
  ASSUME NEW gr, WellBuilt(gr), NEW args
  PROVE  Obeys(gr, args, Denotation(gr, args))
<1>1. Denotation(gr, args) = CHOOSE f : Denotes(gr, args, f)
  BY DEF Denotation, Denotes, ValueOf
<1>2. Denotes(gr, args, Denotation(gr, args))
  BY <1>1, DenotationExists
<1>3. PICK f : f = Denotation(gr, args)
  OBVIOUS
<1>4. f = [v \in Values(gr) |-> ValueOf(gr, args, f, v)]
  BY <1>2, <1>3 DEF Denotes
<1>5. \A v \in Values(gr) : f[v] = ValueOf(gr, args, f, v)
  BY <1>4
<1>6. /\ \A i \in DOMAIN gr.inputs : gr.inputs[i] \in Values(gr)
      /\ \A n \in NodeIds(gr) : gr.nodes[n].out \in Values(gr)
  BY DEF WellBuilt, Sourced
<1>7. /\ \A i \in DOMAIN gr.inputs : ValueOf(gr, args, f, gr.inputs[i]) = args[i]
      /\ \A n \in NodeIds(gr) : ValueOf(gr, args, f, gr.nodes[n].out) = Applied(gr, n, f)
  BY ValueCases
<1>8. Obeys(gr, args, f)
  BY <1>5, <1>6, <1>7 DEF Obeys
<1> QED BY <1>3, <1>8

\* There is no other.
LEMMA OneMeaning ==
  ASSUME NEW gr, WellBuilt(gr), NEW args, NEW f, Obeys(gr, args, f), NEW h, Obeys(gr, args, h)
  PROVE  \A v \in Values(gr) : f[v] = h[v]
<1> DEFINE S == {m \in Nat : \A v \in Upto(gr, m) : f[v] = h[v]}
<1>1. 0 \in S
  BY DEF Upto, Obeys
<1>2. ASSUME NEW m \in 0 .. Len(gr.nodes) - 1, m \in S PROVE m + 1 \in S
  <2>0. m \in Nat /\ m + 1 \in NodeIds(gr) /\ m + 1 <= m + 1
    BY GraphSequences
  <2>1. \A j \in DOMAIN gr.nodes[m + 1].in : f[gr.nodes[m + 1].in[j]] = h[gr.nodes[m + 1].in[j]]
    BY <1>2, <2>0, ReadsUpto
  <2>2. Applied(gr, m + 1, f) = Applied(gr, m + 1, h)
    BY <2>1 DEF Applied
  <2>3. f[gr.nodes[m + 1].out] = h[gr.nodes[m + 1].out]
    BY <2>0, <2>2 DEF Obeys
  <2> QED BY <1>2, <2>0, <2>3, UptoShape
<1>3. Len(gr.nodes) \in S
  <2> HIDE DEF S
  <2> QED BY <1>1, <1>2, CountUp, GraphSequences
<1> QED BY <1>3, UptoShape

-----------------------------------------------------------------------------
(* The build functions *)

LEMMA BuiltEmpty == WellBuilt(NoGraph)
<1> USE DEF NoGraph, Values, NodeIds
<1>1. DOMAIN [v \in {} |-> {}] = {} /\ [v \in {} |-> {}] \in [{} -> Shapes]
  OBVIOUS
<1> QED BY <1>1 DEF WellBuilt, Typed, Sourced, WellFormed, Accepted

\* The shapes after value gr.next has been made with shape sh.
Grow(gr, sh) == [u \in Values(gr) \cup {gr.next} |-> IF u = gr.next THEN sh ELSE gr.shape[u]]

\* addInput(), addNode() and markOutput(), field by field.
LEMMA ValueFields ==
  ASSUME NEW gr, WellBuilt(gr), NEW sh
  PROVE  WithValue(gr, sh) =
           [nodes |-> gr.nodes, inputs |-> gr.inputs, outputs |-> gr.outputs,
            next |-> gr.next + 1, shape |-> Grow(gr, sh)]
<1> DEFINE x == gr.next + 1
           f == Grow(gr, sh)
           r == [gr EXCEPT !.next = x]
<1>1. WithValue(gr, sh) = [gr EXCEPT !.next = @ + 1, !.shape = f]
  BY DEF WithValue, Grow
<1>2. [gr EXCEPT !.next = @ + 1, !.shape = f] = [gr EXCEPT !.next = x, !.shape = f]
  OBVIOUS
<1> HIDE DEF x, f
<1>3. r = [nodes |-> gr.nodes, inputs |-> gr.inputs, outputs |-> gr.outputs,
           next |-> x, shape |-> gr.shape]
  <2>1. gr = [nodes |-> gr.nodes, inputs |-> gr.inputs, outputs |-> gr.outputs,
              next |-> gr.next, shape |-> gr.shape]
    BY DEF WellBuilt, Typed
  <2>2. PICK n, i, o, y, t : gr = [nodes |-> n, inputs |-> i, outputs |-> o, next |-> y, shape |-> t]
    BY <2>1
  <2>3. r = [nodes |-> n, inputs |-> i, outputs |-> o, next |-> x, shape |-> t]
    BY <2>2 DEF r
  <2> QED BY <2>2, <2>3
<1>4. [gr EXCEPT !.next = x, !.shape = f] = [r EXCEPT !.shape = f]
  OBVIOUS
<1> HIDE DEF r
<1>5. [r EXCEPT !.shape = f] = [nodes |-> gr.nodes, inputs |-> gr.inputs, outputs |-> gr.outputs,
                                next |-> x, shape |-> f]
  BY <1>3
<1>6. WithValue(gr, sh) = [nodes |-> gr.nodes, inputs |-> gr.inputs, outputs |-> gr.outputs,
                           next |-> x, shape |-> f]
  BY <1>1, <1>2, <1>4, <1>5
<1> QED BY <1>6 DEF x, f

LEMMA InputFields ==
  ASSUME NEW gr, WellBuilt(gr), NEW sh
  PROVE  WithInput(gr, sh) =
           [nodes |-> gr.nodes, inputs |-> Append(gr.inputs, gr.next), outputs |-> gr.outputs,
            next |-> gr.next + 1, shape |-> Grow(gr, sh)]
<1> DEFINE w == WithValue(gr, sh)
           in == Append(gr.inputs, gr.next)
<1>1. w = [nodes |-> gr.nodes, inputs |-> gr.inputs, outputs |-> gr.outputs,
           next |-> gr.next + 1, shape |-> Grow(gr, sh)]
  BY ValueFields
<1>2. WithInput(gr, sh) = [w EXCEPT !.inputs = Append(@, gr.next)]
  BY DEF WithInput
<1> HIDE DEF w
<1>3. [w EXCEPT !.inputs = Append(@, gr.next)] = [w EXCEPT !.inputs = in]
  BY <1>1
<1> HIDE DEF in
<1>4. [w EXCEPT !.inputs = in] =
        [nodes |-> gr.nodes, inputs |-> in, outputs |-> gr.outputs,
         next |-> gr.next + 1, shape |-> Grow(gr, sh)]
  BY <1>1
<1>5. WithInput(gr, sh) =
        [nodes |-> gr.nodes, inputs |-> in, outputs |-> gr.outputs,
         next |-> gr.next + 1, shape |-> Grow(gr, sh)]
  BY <1>2, <1>3, <1>4
<1> QED BY <1>5 DEF in

LEMMA NodeFields ==
  ASSUME NEW gr, WellBuilt(gr), NEW op, NEW in
  PROVE  WithNode(gr, op, in) =
           [nodes |-> Append(gr.nodes, [op |-> op, in |-> in, out |-> gr.next]),
            inputs |-> gr.inputs, outputs |-> gr.outputs,
            next |-> gr.next + 1, shape |-> Grow(gr, Infer(op, ShapesOf(gr, in)))]
<1> DEFINE sh == Infer(op, ShapesOf(gr, in))
           w == WithValue(gr, sh)
           node == [op |-> op, in |-> in, out |-> gr.next]
           ns == Append(gr.nodes, node)
<1>1. w = [nodes |-> gr.nodes, inputs |-> gr.inputs, outputs |-> gr.outputs,
           next |-> gr.next + 1, shape |-> Grow(gr, sh)]
  BY ValueFields
<1>2. WithNode(gr, op, in) = [w EXCEPT !.nodes = Append(@, node)]
  BY DEF WithNode
<1> HIDE DEF sh, w, node
<1>3. [w EXCEPT !.nodes = Append(@, node)] = [w EXCEPT !.nodes = ns]
  BY <1>1
<1> HIDE DEF ns
<1>4. [w EXCEPT !.nodes = ns] =
        [nodes |-> ns, inputs |-> gr.inputs, outputs |-> gr.outputs,
         next |-> gr.next + 1, shape |-> Grow(gr, sh)]
  BY <1>1
<1>5. WithNode(gr, op, in) =
        [nodes |-> ns, inputs |-> gr.inputs, outputs |-> gr.outputs,
         next |-> gr.next + 1, shape |-> Grow(gr, sh)]
  BY <1>2, <1>3, <1>4
<1> QED BY <1>5 DEF ns, node, sh

LEMMA OutputFields ==
  ASSUME NEW gr, WellBuilt(gr), NEW v
  PROVE  WithOutput(gr, v) =
           [nodes |-> gr.nodes, inputs |-> gr.inputs, outputs |-> Append(gr.outputs, v),
            next |-> gr.next, shape |-> gr.shape]
<1> DEFINE out == Append(gr.outputs, v)
<1>1. WithOutput(gr, v) = [gr EXCEPT !.outputs = out]
  BY DEF WithOutput
<1> HIDE DEF out
<1>2. [gr EXCEPT !.outputs = out] =
        [nodes |-> gr.nodes, inputs |-> gr.inputs, outputs |-> out,
         next |-> gr.next, shape |-> gr.shape]
  <2>1. gr = [nodes |-> gr.nodes, inputs |-> gr.inputs, outputs |-> gr.outputs,
              next |-> gr.next, shape |-> gr.shape]
    BY DEF WellBuilt, Typed
  <2>2. PICK n, i, o, y, t : gr = [nodes |-> n, inputs |-> i, outputs |-> o, next |-> y, shape |-> t]
    BY <2>1
  <2>3. [gr EXCEPT !.outputs = out] = [nodes |-> n, inputs |-> i, outputs |-> out, next |-> y, shape |-> t]
    BY <2>2
  <2> QED BY <2>2, <2>3
<1> QED BY <1>1, <1>2 DEF out

LEMMA Grown ==
  ASSUME NEW gr, WellBuilt(gr), NEW sh \in Shapes
  PROVE  /\ DOMAIN Grow(gr, sh) = 0 .. gr.next
         /\ Grow(gr, sh) \in [0 .. gr.next -> Shapes]
         /\ gr.next \in Nat /\ gr.next \notin Values(gr) /\ Values(gr) \subseteq Nat
         /\ 0 .. gr.next = Values(gr) \cup {gr.next}
         /\ Grow(gr, sh)[gr.next] = sh
         /\ \A u \in Values(gr) : Grow(gr, sh)[u] = gr.shape[u]
<1>1. gr.next \in Nat /\ Values(gr) = 0 .. gr.next - 1 /\ gr.shape \in [Values(gr) -> Shapes]
  BY DEF WellBuilt, Typed
<1>2. gr.next \notin Values(gr) /\ Values(gr) \subseteq Nat /\ 0 .. gr.next = Values(gr) \cup {gr.next}
  BY <1>1
<1>3. \A u \in Values(gr) : gr.shape[u] \in Shapes
  BY <1>1
<1> QED BY <1>1, <1>2, <1>3 DEF Grow

\* The new value is no input and nothing a node makes.
LEMMA NewValue ==
  ASSUME NEW gr, WellBuilt(gr)
  PROVE  /\ \A k \in DOMAIN gr.inputs : gr.inputs[k] # gr.next
         /\ \A k \in NodeIds(gr) : gr.nodes[k].out # gr.next
BY DEF WellBuilt, Typed, Sourced

\* Shape inference is given the same shapes in a graph with a further value.
LEMMA SameShapes ==
  ASSUME NEW gr, WellBuilt(gr), NEW h, NEW sh \in Shapes, h.shape = Grow(gr, sh),
         NEW in, \A j \in DOMAIN in : in[j] \in Values(gr)
  PROVE  ShapesOf(h, in) = ShapesOf(gr, in)
<1>1. \A u \in Values(gr) : h.shape[u] = gr.shape[u]
  BY Grown
<1> QED BY <1>1 DEF ShapesOf

LEMMA BuiltInput ==
  ASSUME NEW gr, WellBuilt(gr), NEW sh \in Shapes
  PROVE  WellBuilt(WithInput(gr, sh))
<1> DEFINE f == Grow(gr, sh)
           h == WithInput(gr, sh)
           last == Len(gr.inputs) + 1
<1>1. h = [nodes |-> gr.nodes, inputs |-> Append(gr.inputs, gr.next), outputs |-> gr.outputs,
           next |-> gr.next + 1, shape |-> f]
  BY InputFields
<1>2. /\ DOMAIN f = 0 .. gr.next /\ f \in [0 .. gr.next -> Shapes]
      /\ gr.next \in Nat /\ gr.next \notin Values(gr)
      /\ 0 .. gr.next = Values(gr) \cup {gr.next}
  BY Grown
<1> HIDE DEF f, h
<1>3. /\ h.nodes = gr.nodes /\ h.outputs = gr.outputs /\ h.next = gr.next + 1 /\ h.shape = f
      /\ h.inputs = Append(gr.inputs, gr.next)
  BY <1>1
<1>4. Values(h) = Values(gr) \cup {gr.next} /\ NodeIds(h) = NodeIds(gr)
  BY <1>2, <1>3 DEF Values, NodeIds
<1>5. /\ h.inputs \in Seq(Nat)
      /\ DOMAIN h.inputs = DOMAIN gr.inputs \cup {last}
      /\ \A k \in DOMAIN gr.inputs : h.inputs[k] = gr.inputs[k]
      /\ h.inputs[last] = gr.next
  BY <1>2, <1>3 DEF WellBuilt, Typed
<1>6. Typed(h)
  <2>1. h = [nodes |-> h.nodes, inputs |-> h.inputs, outputs |-> h.outputs,
             next |-> h.next, shape |-> h.shape]
    BY <1>1, <1>3
  <2>2. h.nodes \in Seq(Node) /\ h.outputs \in Seq(Nat) /\ h.next \in Nat
    BY <1>2, <1>3 DEF WellBuilt, Typed
  <2>3. Values(h) = 0 .. h.next - 1 /\ h.shape \in [Values(h) -> Shapes]
    BY <1>2, <1>3, <1>4
  <2> QED BY <1>5, <2>1, <2>2, <2>3 DEF Typed
<1>7. WellFormed(h)
  <2>1. ASSUME NEW n \in NodeIds(gr)
        PROVE  /\ \A i \in DOMAIN h.inputs : h.nodes[n].out # h.inputs[i]
               /\ \A k \in NodeIds(h) : k # n => h.nodes[k].out # h.nodes[n].out
               /\ \A i \in DOMAIN h.nodes[n].in :
                    \/ \E k \in DOMAIN h.inputs : h.nodes[n].in[i] = h.inputs[k]
                    \/ \E k \in 1 .. n - 1 : h.nodes[n].in[i] = h.nodes[k].out
    <3>1. /\ \A i \in DOMAIN gr.inputs : gr.nodes[n].out # gr.inputs[i]
          /\ \A k \in NodeIds(gr) : k # n => gr.nodes[k].out # gr.nodes[n].out
          /\ \A i \in DOMAIN gr.nodes[n].in :
               \/ \E k \in DOMAIN gr.inputs : gr.nodes[n].in[i] = gr.inputs[k]
               \/ \E k \in 1 .. n - 1 : gr.nodes[n].in[i] = gr.nodes[k].out
      BY DEF WellBuilt, WellFormed
    <3>2. gr.nodes[n].out # gr.next
      BY NewValue
    <3>3. \A i \in DOMAIN h.inputs : h.nodes[n].out # h.inputs[i]
      BY <1>3, <1>5, <3>1, <3>2
    <3>4. \A i \in DOMAIN h.nodes[n].in : \A k \in DOMAIN gr.inputs :
            gr.nodes[n].in[i] = gr.inputs[k] => \E l \in DOMAIN h.inputs : h.nodes[n].in[i] = h.inputs[l]
      BY <1>3, <1>5
    <3> QED BY <1>3, <1>4, <3>1, <3>3, <3>4
  <2>2. \A i \in DOMAIN h.outputs : h.outputs[i] \in Values(h)
    BY <1>3, <1>4 DEF WellBuilt, WellFormed
  <2> QED BY <1>4, <2>1, <2>2 DEF WellFormed
<1>8. Sourced(h)
  <2>1. \A j, k \in DOMAIN h.inputs : j # k => h.inputs[j] # h.inputs[k]
    <3>1. \A j, k \in DOMAIN gr.inputs : j # k => gr.inputs[j] # gr.inputs[k]
      BY DEF WellBuilt, Sourced
    <3> QED BY <1>5, <3>1, NewValue
  <2> QED BY <1>3, <1>4, <1>5, <2>1 DEF WellBuilt, Sourced
<1>9. Accepted(h)
  <2>1. ASSUME NEW n \in NodeIds(gr)
        PROVE  /\ \A j \in DOMAIN h.nodes[n].in : h.nodes[n].in[j] \in Values(h)
               /\ Infer(h.nodes[n].op, ShapesOf(h, h.nodes[n].in)) \in Shapes
               /\ h.shape[h.nodes[n].out] = Infer(h.nodes[n].op, ShapesOf(h, h.nodes[n].in))
    <3>1. /\ \A j \in DOMAIN gr.nodes[n].in : gr.nodes[n].in[j] \in Values(gr)
          /\ Infer(gr.nodes[n].op, ShapesOf(gr, gr.nodes[n].in)) \in Shapes
          /\ gr.shape[gr.nodes[n].out] = Infer(gr.nodes[n].op, ShapesOf(gr, gr.nodes[n].in))
          /\ gr.nodes[n].out \in Values(gr)
      BY DEF WellBuilt, Accepted, Sourced
    <3>2. ShapesOf(h, gr.nodes[n].in) = ShapesOf(gr, gr.nodes[n].in)
      BY <1>3, <3>1, SameShapes DEF f
    <3>3. h.shape[gr.nodes[n].out] = gr.shape[gr.nodes[n].out]
      BY <1>3, <3>1, Grown DEF f
    <3> QED BY <1>3, <1>4, <3>1, <3>2, <3>3
  <2> QED BY <1>4, <2>1 DEF Accepted
<1> QED BY <1>6, <1>7, <1>8, <1>9 DEF WellBuilt, h

LEMMA BuiltNode ==
  ASSUME NEW gr, WellBuilt(gr), NEW op \in Ops, NEW in \in Seq(Nat),
         \A i \in DOMAIN in : in[i] \in Values(gr),
         Infer(op, ShapesOf(gr, in)) \in Shapes
  PROVE  WellBuilt(WithNode(gr, op, in))
<1> DEFINE f == Grow(gr, Infer(op, ShapesOf(gr, in)))
           node == [op |-> op, in |-> in, out |-> gr.next]
           h == WithNode(gr, op, in)
           last == Len(gr.nodes) + 1
<1>1. h = [nodes |-> Append(gr.nodes, node), inputs |-> gr.inputs, outputs |-> gr.outputs,
           next |-> gr.next + 1, shape |-> f]
  BY NodeFields
<1>2. /\ DOMAIN f = 0 .. gr.next /\ f \in [0 .. gr.next -> Shapes]
      /\ gr.next \in Nat /\ gr.next \notin Values(gr)
      /\ 0 .. gr.next = Values(gr) \cup {gr.next}
  BY Grown
<1>n. node \in Node /\ node.in = in /\ node.out = gr.next /\ node.op = op
  BY <1>2 DEF Node
<1> HIDE DEF f, h, node
<1>3. /\ h.inputs = gr.inputs /\ h.outputs = gr.outputs /\ h.next = gr.next + 1 /\ h.shape = f
      /\ h.nodes = Append(gr.nodes, node)
  BY <1>1
<1>4. Values(h) = Values(gr) \cup {gr.next}
  BY <1>2, <1>3 DEF Values
<1>5. /\ h.nodes \in Seq(Node)
      /\ NodeIds(h) = NodeIds(gr) \cup {last}
      /\ \A k \in NodeIds(gr) : h.nodes[k] = gr.nodes[k] /\ k # last
      /\ h.nodes[last] = node
      /\ \A n \in NodeIds(gr) : 1 .. n - 1 \subseteq NodeIds(gr)
      /\ 1 .. last - 1 = NodeIds(gr)
  BY <1>n, <1>3 DEF WellBuilt, Typed, NodeIds
<1>6. Typed(h)
  <2>1. h = [nodes |-> h.nodes, inputs |-> h.inputs, outputs |-> h.outputs,
             next |-> h.next, shape |-> h.shape]
    BY <1>1, <1>3
  <2>2. h.inputs \in Seq(Nat) /\ h.outputs \in Seq(Nat) /\ h.next \in Nat
    BY <1>2, <1>3 DEF WellBuilt, Typed
  <2>3. Values(h) = 0 .. h.next - 1 /\ h.shape \in [Values(h) -> Shapes]
    BY <1>2, <1>3, <1>4
  <2> QED BY <1>5, <2>1, <2>2, <2>3 DEF Typed
<1>7. WellFormed(h)
  <2>1. ASSUME NEW n \in NodeIds(gr)
        PROVE  /\ \A i \in DOMAIN h.inputs : h.nodes[n].out # h.inputs[i]
               /\ \A k \in NodeIds(h) : k # n => h.nodes[k].out # h.nodes[n].out
               /\ \A i \in DOMAIN h.nodes[n].in :
                    \/ \E k \in DOMAIN h.inputs : h.nodes[n].in[i] = h.inputs[k]
                    \/ \E k \in 1 .. n - 1 : h.nodes[n].in[i] = h.nodes[k].out
    <3>1. /\ \A i \in DOMAIN gr.inputs : gr.nodes[n].out # gr.inputs[i]
          /\ \A k \in NodeIds(gr) : k # n => gr.nodes[k].out # gr.nodes[n].out
          /\ \A i \in DOMAIN gr.nodes[n].in :
               \/ \E k \in DOMAIN gr.inputs : gr.nodes[n].in[i] = gr.inputs[k]
               \/ \E k \in 1 .. n - 1 : gr.nodes[n].in[i] = gr.nodes[k].out
      BY DEF WellBuilt, WellFormed
    <3>2. gr.nodes[n].out # gr.next
      BY NewValue
    <3>3. \A k \in NodeIds(h) : k # n => h.nodes[k].out # h.nodes[n].out
      BY <1>n, <1>5, <3>1, <3>2
    <3>4. \A k \in 1 .. n - 1 : h.nodes[k] = gr.nodes[k]
      BY <1>5
    <3>5. h.nodes[n] = gr.nodes[n]
      BY <1>5
    <3>6. ASSUME NEW i \in DOMAIN h.nodes[n].in
          PROVE  \/ \E k \in DOMAIN h.inputs : h.nodes[n].in[i] = h.inputs[k]
                 \/ \E k \in 1 .. n - 1 : h.nodes[n].in[i] = h.nodes[k].out
      <4>1. h.nodes[n].in[i] = gr.nodes[n].in[i] /\ i \in DOMAIN gr.nodes[n].in
        BY <3>5, <3>6
      <4>2. CASE \E k \in DOMAIN gr.inputs : gr.nodes[n].in[i] = gr.inputs[k]
        BY <1>3, <4>1, <4>2
      <4>3. CASE \E k \in 1 .. n - 1 : gr.nodes[n].in[i] = gr.nodes[k].out
        BY <3>4, <4>1, <4>3
      <4> QED BY <3>1, <4>1, <4>2, <4>3
    <3> QED BY <1>3, <3>1, <3>3, <3>5, <3>6
  <2>2. /\ \A i \in DOMAIN h.inputs : h.nodes[last].out # h.inputs[i]
        /\ \A k \in NodeIds(h) : k # last => h.nodes[k].out # h.nodes[last].out
    BY <1>n, <1>3, <1>5, NewValue
  <2>3. ASSUME NEW i \in DOMAIN h.nodes[last].in
        PROVE  \/ \E k \in DOMAIN h.inputs : h.nodes[last].in[i] = h.inputs[k]
               \/ \E k \in 1 .. last - 1 : h.nodes[last].in[i] = h.nodes[k].out
    <3>1. in[i] \in Values(gr) /\ h.nodes[last].in[i] = in[i]
      BY <1>n, <1>5
    <3>2. \/ \E k \in DOMAIN gr.inputs : in[i] = gr.inputs[k]
          \/ \E k \in NodeIds(gr) : in[i] = gr.nodes[k].out
      BY <3>1 DEF WellBuilt, Sourced
    <3> QED BY <3>1, <3>2, <1>3, <1>5
  <2>4. \A i \in DOMAIN h.outputs : h.outputs[i] \in Values(h)
    BY <1>3, <1>4 DEF WellBuilt, WellFormed
  <2> HIDE DEF last
  <2>5. ASSUME NEW n \in NodeIds(h)
        PROVE  /\ \A i \in DOMAIN h.inputs : h.nodes[n].out # h.inputs[i]
               /\ \A k \in NodeIds(h) : k # n => h.nodes[k].out # h.nodes[n].out
               /\ \A i \in DOMAIN h.nodes[n].in :
                    \/ \E k \in DOMAIN h.inputs : h.nodes[n].in[i] = h.inputs[k]
                    \/ \E k \in 1 .. n - 1 : h.nodes[n].in[i] = h.nodes[k].out
    <3>1. CASE n \in NodeIds(gr)
      BY <2>1, <3>1
    <3>2. CASE n = last
      BY <2>2, <2>3, <3>2
    <3> QED BY <1>5, <3>1, <3>2
  <2> QED BY <2>4, <2>5 DEF WellFormed
<1>8. Sourced(h)
  <2>1. Sourced(gr)
    BY DEF WellBuilt
  <2>2. \A v \in Values(h) :
          \/ \E k \in DOMAIN h.inputs : v = h.inputs[k]
          \/ \E k \in NodeIds(h) : v = h.nodes[k].out
    <3>1. \A v \in Values(gr) :
            \/ \E k \in DOMAIN gr.inputs : v = gr.inputs[k]
            \/ \E k \in NodeIds(gr) : v = gr.nodes[k].out
      BY <2>1 DEF Sourced
    <3> HIDE DEF last
    <3> QED BY <1>n, <1>3, <1>4, <1>5, <3>1
  <2>3. \A k \in NodeIds(h) : h.nodes[k].out \in Values(h)
    BY <2>1, <1>n, <1>4, <1>5 DEF Sourced
  <2> QED BY <2>1, <2>2, <2>3, <1>3, <1>4 DEF Sourced
<1>9. Accepted(h)
  <2>1. ASSUME NEW n \in NodeIds(gr)
        PROVE  /\ \A j \in DOMAIN h.nodes[n].in : h.nodes[n].in[j] \in Values(h)
               /\ Infer(h.nodes[n].op, ShapesOf(h, h.nodes[n].in)) \in Shapes
               /\ h.shape[h.nodes[n].out] = Infer(h.nodes[n].op, ShapesOf(h, h.nodes[n].in))
    <3>1. /\ \A j \in DOMAIN gr.nodes[n].in : gr.nodes[n].in[j] \in Values(gr)
          /\ Infer(gr.nodes[n].op, ShapesOf(gr, gr.nodes[n].in)) \in Shapes
          /\ gr.shape[gr.nodes[n].out] = Infer(gr.nodes[n].op, ShapesOf(gr, gr.nodes[n].in))
          /\ gr.nodes[n].out \in Values(gr)
      BY DEF WellBuilt, Accepted, Sourced
    <3>2. ShapesOf(h, gr.nodes[n].in) = ShapesOf(gr, gr.nodes[n].in)
      BY <1>3, <3>1, SameShapes DEF f
    <3>3. h.shape[gr.nodes[n].out] = gr.shape[gr.nodes[n].out]
      BY <1>3, <3>1, Grown DEF f
    <3>4. h.nodes[n] = gr.nodes[n]
      BY <1>5
    <3> QED BY <1>4, <3>1, <3>2, <3>3, <3>4
  <2>2. /\ \A j \in DOMAIN h.nodes[last].in : h.nodes[last].in[j] \in Values(h)
        /\ Infer(h.nodes[last].op, ShapesOf(h, h.nodes[last].in)) \in Shapes
        /\ h.shape[h.nodes[last].out] = Infer(h.nodes[last].op, ShapesOf(h, h.nodes[last].in))
    <3>1. ShapesOf(h, in) = ShapesOf(gr, in)
      BY <1>3, SameShapes DEF f
    <3>2. h.shape[gr.next] = Infer(op, ShapesOf(gr, in))
      BY <1>3, Grown DEF f
    <3>3. h.nodes[last].in = in /\ h.nodes[last].out = gr.next /\ h.nodes[last].op = op
      BY <1>n, <1>5
    <3> QED BY <1>4, <3>1, <3>2, <3>3
  <2> HIDE DEF last
  <2> QED BY <1>5, <2>1, <2>2 DEF Accepted
<1> QED BY <1>6, <1>7, <1>8, <1>9 DEF WellBuilt, h

LEMMA BuiltOutput ==
  ASSUME NEW gr, WellBuilt(gr), NEW v \in Values(gr)
  PROVE  WellBuilt(WithOutput(gr, v))
<1> DEFINE h == WithOutput(gr, v)
<1>1. h = [nodes |-> gr.nodes, inputs |-> gr.inputs, outputs |-> Append(gr.outputs, v),
           next |-> gr.next, shape |-> gr.shape]
  BY OutputFields
<1> HIDE DEF h
<1>2. /\ h.nodes = gr.nodes /\ h.inputs = gr.inputs /\ h.next = gr.next /\ h.shape = gr.shape
      /\ h.outputs = Append(gr.outputs, v)
  BY <1>1
<1>3. v \in Nat /\ gr.outputs \in Seq(Nat)
  BY DEF WellBuilt, Typed
<1>4. h.outputs \in Seq(Nat) /\ \A i \in DOMAIN h.outputs : h.outputs[i] \in Values(gr)
  BY <1>2, <1>3 DEF WellBuilt, WellFormed
<1>5. Values(h) = Values(gr) /\ NodeIds(h) = NodeIds(gr)
  BY <1>2 DEF Values, NodeIds
<1>6. Typed(h)
  BY <1>1, <1>2, <1>4, <1>5 DEF WellBuilt, Typed
<1>7. WellFormed(h)
  <2>1. WellFormed(gr)
    BY DEF WellBuilt
  <2>2. \A n \in NodeIds(h) :
          /\ \A i \in DOMAIN h.inputs : h.nodes[n].out # h.inputs[i]
          /\ \A k \in NodeIds(h) : k # n => h.nodes[k].out # h.nodes[n].out
    BY <2>1, <1>2, <1>5 DEF WellFormed
  <2>3. \A n \in NodeIds(h) : \A i \in DOMAIN h.nodes[n].in :
          \/ \E k \in DOMAIN h.inputs : h.nodes[n].in[i] = h.inputs[k]
          \/ \E k \in 1 .. n - 1 : h.nodes[n].in[i] = h.nodes[k].out
    BY <2>1, <1>2, <1>5 DEF WellFormed
  <2>4. \A i \in DOMAIN h.outputs : h.outputs[i] \in Values(h)
    BY <1>4, <1>5
  <2>5. ASSUME NEW n \in NodeIds(h)
        PROVE  /\ \A i \in DOMAIN h.inputs : h.nodes[n].out # h.inputs[i]
               /\ \A k \in NodeIds(h) : k # n => h.nodes[k].out # h.nodes[n].out
               /\ \A i \in DOMAIN h.nodes[n].in :
                    \/ \E k \in DOMAIN h.inputs : h.nodes[n].in[i] = h.inputs[k]
                    \/ \E k \in 1 .. n - 1 : h.nodes[n].in[i] = h.nodes[k].out
    BY <2>2, <2>3
  <2> QED BY <2>4, <2>5 DEF WellFormed
<1>8. Sourced(h)
  BY <1>2, <1>5 DEF WellBuilt, Sourced
<1>9. Accepted(h)
  BY <1>2, <1>5 DEF WellBuilt, Accepted, ShapesOf
<1> QED BY <1>6, <1>7, <1>8, <1>9 DEF WellBuilt, h

-----------------------------------------------------------------------------
(* The sort *)

\* A queue that is used from its end: its last element goes, others follow.
LEMMA PopPush ==
  ASSUME NEW S, NEW s \in Seq(S), s # <<>>, NEW q \in Seq(S),
         NEW t, t = SubSeq(s, 1, Len(s) - 1) \o q
  PROVE  /\ t \in Seq(S)
         /\ Len(s) \in Nat \ {0} /\ Len(q) \in Nat
         /\ DOMAIN t = 1 .. Len(s) - 1 + Len(q)
         /\ \A k \in DOMAIN t : t[k] = IF k < Len(s) THEN s[k] ELSE q[k - Len(s) + 1]
<1> DEFINE r == SubSeq(s, 1, Len(s) - 1)
<1>1. Len(s) \in Nat \ {0} /\ Len(q) \in Nat
  BY EmptySeq
<1>2. r \in Seq(S) /\ Len(r) = Len(s) - 1 /\ \A k \in 1 .. Len(s) - 1 : r[k] = s[k]
  <2>1. \A k \in 1 .. Len(s) - 1 : s[k] \in S
    BY <1>1
  <2>2. /\ SubSeq(s, 1, Len(s) - 1) \in Seq(S)
        /\ Len(SubSeq(s, 1, Len(s) - 1)) = IF 1 <= Len(s) - 1 THEN Len(s) - 1 - 1 + 1 ELSE 0
        /\ \A k \in 1 .. Len(s) - 1 - 1 + 1 : SubSeq(s, 1, Len(s) - 1)[k] = s[1 + k - 1]
    BY <1>1, <2>1, SubSeqProperties
  <2>3. Len(r) = Len(s) - 1
    <3>1. Len(r) = IF 1 <= Len(s) - 1 THEN Len(s) - 1 - 1 + 1 ELSE 0
      BY <2>2
    <3>2. \A m \in Nat \ {0} : (IF 1 <= m - 1 THEN m - 1 - 1 + 1 ELSE 0) = m - 1
      OBVIOUS
    <3> HIDE DEF r
    <3> QED BY <1>1, <3>1, <3>2
  <2>4. ASSUME NEW k \in 1 .. Len(s) - 1 PROVE r[k] = s[k]
    <3>1. k \in 1 .. Len(s) - 1 - 1 + 1 /\ 1 + k - 1 = k
      BY <1>1
    <3> QED BY <2>2, <3>1
  <2> QED BY <2>2, <2>3, <2>4
<1> HIDE DEF r
<1>3. /\ r \o q \in Seq(S) /\ Len(r \o q) = Len(s) - 1 + Len(q)
      /\ \A k \in 1 .. Len(s) - 1 + Len(q) : (r \o q)[k] = IF k < Len(s) THEN s[k] ELSE q[k - Len(s) + 1]
  <2>1. /\ r \o q \in Seq(S) /\ Len(r \o q) = Len(r) + Len(q)
        /\ \A k \in 1 .. Len(r) + Len(q) : (r \o q)[k] = IF k <= Len(r) THEN r[k] ELSE q[k - Len(r)]
    BY <1>2, ConcatProperties
  <2>2. ASSUME NEW k \in 1 .. Len(s) - 1 + Len(q)
        PROVE  (r \o q)[k] = IF k < Len(s) THEN s[k] ELSE q[k - Len(s) + 1]
    <3>1. Len(r) = Len(s) - 1 /\ k - Len(r) = k - Len(s) + 1
      BY <1>1, <1>2
    <3>2. (r \o q)[k] = IF k <= Len(r) THEN r[k] ELSE q[k - Len(r)]
      BY <2>1, <3>1
    <3>3. k < Len(s) => r[k] = s[k] /\ k <= Len(r)
      BY <1>1, <1>2
    <3>4. ~ k < Len(s) => ~ k <= Len(r)
      BY <1>1, <1>2
    <3> QED BY <3>1, <3>2, <3>3, <3>4
  <2>3. Len(r) + Len(q) = Len(s) - 1 + Len(q)
    BY <1>1, <1>2
  <2> QED BY <2>1, <2>2, <2>3
<1>4. t = r \o q
  BY DEF r
<1> QED BY <1>1, <1>3, <1>4

\* Where a call is.
CallOK ==
  /\ phase \in {"building", "sorting", "sorted", "validated", "running", "executed",
                "walking", "rebuilding", "optimized", "thrown"}
  /\ order \in Seq(NodeIds(g)) /\ queue \in Seq(NodeIds(g))
  /\ at \in 0 .. Len(order)

\* What waits for a node that is not ordered no longer does when it is.
LEMMA WaitingAfter ==
  ASSUME WellBuilt(g), NEW n \in NodeIds(g), ~ Placed(n),
         g' = g, \A i \in NodeIds(g) : Placed(i)' <=> Placed(i) \/ i = n,
         NEW i \in NodeIds(g)
  PROVE  /\ ReadsFrom(g, i, n) \subseteq Waiting(i)
         /\ Waiting(i)' = Waiting(i) \ ReadsFrom(g, i, n)
         /\ IsFiniteSet(Waiting(i)) /\ IsFiniteSet(ReadsFrom(g, i, n))
         /\ Cardinality(Waiting(i)') = Cardinality(Waiting(i)) - Cardinality(ReadsFrom(g, i, n))
         /\ Cardinality(Waiting(i)) = Cardinality(ReadsFrom(g, i, n)) => Waiting(i)' = {}
<1> DEFINE W == Waiting(i)
           R == ReadsFrom(g, i, n)
           left == {j \in Produced(g, i) :
                      \E p \in NodeIds(g) : j \in ReadsFrom(g, i, p) /\ ~ (Placed(p) \/ p = n)}
<1>1. R \subseteq W
  <2>1. R \subseteq Produced(g, i)
    BY DEF Produced
  <2> QED BY <2>1 DEF Waiting
<1>2. W \subseteq Produced(g, i)
  BY DEF Waiting
<1>3. IsFiniteSet(W) /\ IsFiniteSet(R)
  BY <1>1, <1>2, ReadsFinite, FS_Subset
<1>4. Waiting(i)' = left
  <2>1. Waiting(i)' = {j \in Produced(g, i) :
                         \E p \in NodeIds(g) : j \in ReadsFrom(g, i, p) /\ ~ (Placed(p)')}
    BY DEF Waiting
  <2> QED BY <2>1
<1>5. left = W \ R
  <2>1. ASSUME NEW j \in left PROVE j \in W /\ j \notin R
    <3>1. PICK p \in NodeIds(g) : j \in ReadsFrom(g, i, p) /\ ~ Placed(p) /\ p # n
      BY <2>1
    <3>2. j \in W
      BY <2>1, <3>1 DEF Waiting
    <3> QED BY <3>1, <3>2, OneProducer
  <2>2. ASSUME NEW j \in W, j \notin R PROVE j \in left
    BY <2>2 DEF Waiting
  <2> HIDE DEF left
  <2> QED BY <2>1, <2>2
<1> HIDE DEF W, R, left
<1>6. W \cap R = R
  BY <1>1
<1>7. Cardinality(W \ R) = Cardinality(W) - Cardinality(R)
  BY <1>3, <1>6, FS_Difference
<1>8. Cardinality(W) = Cardinality(R) => R = W
  BY <1>1, <1>3, FS_Subset
<1> QED BY <1>1, <1>3, <1>4, <1>5, <1>7, <1>8 DEF W, R

\* The parts of SortInv.
Queued(i) == \E k \in DOMAIN queue : queue[k] = i

NoneTwice ==
  /\ \A j, k \in DOMAIN order : j # k => order[j] # order[k]
  /\ \A j, k \in DOMAIN queue : j # k => queue[j] # queue[k]
  /\ \A k \in DOMAIN queue : ~ Placed(queue[k])

Topological == \A j, k \in DOMAIN order : ReadsFrom(g, order[j], order[k]) # {} => k < j

SortParts ==
  /\ NoneTwice
  /\ indegree = [i \in NodeIds(g) |-> Cardinality(Waiting(i))]
  /\ \A i \in NodeIds(g) : Waiting(i) = {} <=> Placed(i) \/ Queued(i)
  /\ Topological

LEMMA SortInvParts == SortInv <=> (phase = "sorting" => SortParts)
BY DEF SortInv, SortParts, NoneTwice, Topological, Queued

\* Nothing is ordered when the sort starts.
LEMMA StartSortParts ==
  ASSUME WellBuilt(g), StartSort
  PROVE  CallOK' /\ SortParts'
<1> DEFINE S == {i \in NodeIds(g) : Produced(g, i) = {}}
<1>1. g' = g /\ order' = <<>> /\ queue' \in Ascending(S) /\ at' = 0 /\ phase' = "sorting"
      /\ indegree' = [i \in NodeIds(g) |-> Cardinality(Produced(g, i))]
  BY DEF StartSort
<1>2. S \subseteq NodeIds(g) /\ S \subseteq Int /\ IsFiniteSet(S)
  BY GraphSequences, FS_Subset
<1>3. /\ queue' \in Seq(S)
      /\ \A j, k \in DOMAIN queue' : j # k => queue'[j] # queue'[k]
      /\ \A i \in S : \E k \in DOMAIN queue' : queue'[k] = i
  <2> HIDE DEF S
  <2> QED BY <1>1, <1>2, AscendingEnumerates
<1>4. \A k \in DOMAIN queue' : queue'[k] \in S
  BY <1>3
<1>5. \A i : ~ Placed(i)'
  BY <1>1 DEF Placed
<1>6. ASSUME NEW i \in NodeIds(g) PROVE Waiting(i)' = Produced(g, i)
  <2>1. Waiting(i)' = {j \in Produced(g, i) : \E p \in NodeIds(g) : j \in ReadsFrom(g, i, p) /\ ~ (Placed(p)')}
    BY <1>1 DEF Waiting
  <2> QED BY <2>1, <1>5 DEF Produced
<1>7. CallOK'
  <2>1. queue' \in Seq(NodeIds(g)) /\ order' \in Seq(NodeIds(g))
    BY <1>1, <1>2, <1>3, SeqMonotonic
  <2>2. NodeIds(g)' = NodeIds(g)
    BY <1>1
  <2> QED BY <1>1, <2>1, <2>2 DEF CallOK
<1>8. NoneTwice' /\ Topological'
  BY <1>1, <1>3, <1>5 DEF NoneTwice, Topological
<1>9. indegree' = [i \in NodeIds(g) |-> Cardinality(Waiting(i)')]
  BY <1>1, <1>6
<1>10. ASSUME NEW i \in NodeIds(g) PROVE Waiting(i)' = {} <=> Placed(i)' \/ Queued(i)'
  BY <1>3, <1>4, <1>5, <1>6 DEF Queued
<1> QED BY <1>1, <1>7, <1>8, <1>9, <1>10 DEF SortParts

\* One pass of the sort: its node is ordered, and the nodes that waited for it
\* alone are queued.
LEMMA NextReadyParts ==
  ASSUME WellBuilt(g), CallOK, SortParts, NextReady
  PROVE  CallOK' /\ SortParts'
<1> DEFINE n == queue[Len(queue)]
           reads == [i \in NodeIds(g) |-> Cardinality(ReadsFrom(g, i, n))]
           ready == {i \in NodeIds(g) : reads[i] > 0 /\ indegree[i] = reads[i]}
           L == Len(order)
           M == Len(queue)
<1>1. /\ queue # <<>> /\ order' = Append(order, n) /\ g' = g /\ at' = at /\ phase' = phase
      /\ indegree' = [i \in NodeIds(g) |-> indegree[i] - reads[i]]
      /\ \E q \in Ascending(ready) : queue' = SubSeq(queue, 1, Len(queue) - 1) \o q
  BY DEF NextReady
<1>2. PICK q \in Ascending(ready) : queue' = SubSeq(queue, 1, Len(queue) - 1) \o q
  BY <1>1
<1>3. /\ order \in Seq(NodeIds(g)) /\ queue \in Seq(NodeIds(g)) /\ at \in 0 .. L
      /\ L \in Nat /\ M \in Nat \ {0} /\ DOMAIN queue = 1 .. M /\ DOMAIN order = 1 .. L
      /\ \A k \in DOMAIN queue : queue[k] \in NodeIds(g)
      /\ \A k \in DOMAIN order : order[k] \in NodeIds(g)
  BY <1>1, EmptySeq DEF CallOK
<1>4. n \in NodeIds(g) /\ ~ Placed(n) /\ Queued(n) /\ Waiting(n) = {} /\ queue[M] = n
  BY <1>3 DEF SortParts, NoneTwice, Queued
<1>5. ready \subseteq NodeIds(g) /\ ready \subseteq Int /\ IsFiniteSet(ready)
  <2>1. ready \subseteq NodeIds(g)
    OBVIOUS
  <2> HIDE DEF ready
  <2> QED BY <2>1, GraphSequences, FS_Subset
<1>6. /\ q \in Seq(ready)
      /\ \A j, k \in DOMAIN q : j # k => q[j] # q[k]
      /\ \A i \in ready : \E k \in DOMAIN q : q[k] = i
      /\ DOMAIN q = 1 .. Len(q) /\ Len(q) \in Nat
      /\ \A k \in DOMAIN q : q[k] \in ready
  <2> HIDE DEF ready
  <2>1. /\ q \in Seq(ready)
        /\ \A j, k \in DOMAIN q : j # k => q[j] # q[k]
        /\ \A i \in ready : \E k \in DOMAIN q : q[k] = i
    BY <1>5, AscendingEnumerates
  <2> QED BY <2>1
<1>7. /\ queue' \in Seq(NodeIds(g))
      /\ DOMAIN queue' = 1 .. M - 1 + Len(q)
      /\ \A k \in DOMAIN queue' : queue'[k] = IF k < M THEN queue[k] ELSE q[k - M + 1]
  <2>1. q \in Seq(NodeIds(g))
    BY <1>5, <1>6, SeqMonotonic
  <2>2. queue \in Seq(NodeIds(g)) /\ queue # <<>> /\ queue' = SubSeq(queue, 1, Len(queue) - 1) \o q
    BY <1>1, <1>2, <1>3
  <2> HIDE DEF ready
  <2> QED BY <2>1, <2>2, PopPush
<1>8. /\ order' \in Seq(NodeIds(g)) /\ Len(order') = L + 1 /\ DOMAIN order' = 1 .. L + 1
      /\ \A k \in 1 .. L : order'[k] = order[k]
      /\ order'[L + 1] = n
  BY <1>1, <1>3, <1>4
<1>9. \A i \in NodeIds(g) : Placed(i)' <=> Placed(i) \/ i = n
  <2> HIDE DEF n
  <2> QED BY <1>3, <1>8 DEF Placed
<1> HIDE DEF n, L, M
<1>10. ASSUME NEW i \in NodeIds(g)
       PROVE  /\ reads[i] = Cardinality(ReadsFrom(g, i, n))
              /\ ReadsFrom(g, i, n) \subseteq Waiting(i)
              /\ Waiting(i)' = Waiting(i) \ ReadsFrom(g, i, n)
              /\ IsFiniteSet(Waiting(i)) /\ IsFiniteSet(ReadsFrom(g, i, n))
              /\ Cardinality(Waiting(i)') = Cardinality(Waiting(i)) - reads[i]
              /\ Cardinality(Waiting(i)) = reads[i] => Waiting(i)' = {}
  BY <1>1, <1>4, <1>9, WaitingAfter
<1>11. \A i \in NodeIds(g) : indegree[i] = Cardinality(Waiting(i))
  BY DEF SortParts
<1> HIDE DEF reads
<1>12. ASSUME NEW i \in NodeIds(g)
       PROVE  i \in ready <=> Waiting(i) # {} /\ Waiting(i)' = {}
  <2> DEFINE R == ReadsFrom(g, i, n)
             W == Waiting(i)
  <2>1. /\ R \subseteq W /\ Waiting(i)' = W \ R /\ reads[i] = Cardinality(R)
        /\ indegree[i] = Cardinality(W)
        /\ IsFiniteSet(R) /\ IsFiniteSet(W)
        /\ (Cardinality(W) = Cardinality(R) => W \ R = {})
    BY <1>10, <1>11
  <2> HIDE DEF R, W
  <2>2. Cardinality(R) \in Nat /\ (Cardinality(R) = 0 <=> R = {})
    BY <2>1, FS_CardinalityType, FS_EmptySet
  <2>3. i \in ready <=> R # {} /\ Cardinality(W) = Cardinality(R)
    BY <2>1, <2>2
  <2>4. Cardinality(W) = Cardinality(R) <=> W = R
    BY <2>1
  <2> QED BY <2>1, <2>3, <2>4 DEF W
<1> HIDE DEF ready
\* Who is queued.
<1>13. ASSUME NEW i \in NodeIds(g)
       PROVE  Queued(i)' <=> (Queued(i) /\ i # n) \/ i \in ready
  <2>1. ASSUME Queued(i)' PROVE (Queued(i) /\ i # n) \/ i \in ready
    <3>1. PICK k \in DOMAIN queue' : queue'[k] = i
      BY <2>1 DEF Queued
    <3>2. CASE k < M
      <4>1. k \in DOMAIN queue /\ M \in DOMAIN queue /\ k # M /\ queue[k] = i
        BY <1>3, <1>7, <3>1, <3>2
      <4> QED BY <1>4, <4>1 DEF SortParts, NoneTwice, Queued
    <3>3. CASE ~ k < M
      <4>1. k - M + 1 \in DOMAIN q /\ q[k - M + 1] = i
        BY <1>3, <1>6, <1>7, <3>1, <3>3
      <4> QED BY <1>6, <4>1
    <3> QED BY <3>2, <3>3
  <2>2. ASSUME Queued(i), i # n PROVE Queued(i)'
    <3>1. PICK k \in DOMAIN queue : queue[k] = i
      BY <2>2 DEF Queued
    <3>2. k < M /\ k \in DOMAIN queue'
      BY <1>3, <1>4, <1>6, <1>7, <2>2, <3>1
    <3> QED BY <1>7, <3>1, <3>2 DEF Queued
  <2>3. ASSUME i \in ready PROVE Queued(i)'
    <3>1. PICK k \in DOMAIN q : q[k] = i
      BY <1>6, <2>3
    <3>2. k + M - 1 \in DOMAIN queue' /\ ~ k + M - 1 < M /\ (k + M - 1) - M + 1 = k
      BY <1>3, <1>6, <1>7
    <3> QED BY <1>7, <3>1, <3>2 DEF Queued
  <2> QED BY <2>1, <2>2, <2>3
<1>14. ASSUME NEW i \in ready PROVE ~ Placed(i) /\ ~ Queued(i) /\ i # n
  BY <1>4, <1>5, <1>12 DEF SortParts
<1>15. NoneTwice'
  <2>1. \A j, k \in DOMAIN order' : j # k => order'[j] # order'[k]
    <3>1. \A k \in 1 .. L : order[k] # n
      BY <1>3, <1>4 DEF Placed
    <3>2. \A j, k \in 1 .. L : j # k => order[j] # order[k]
      BY <1>3 DEF SortParts, NoneTwice
    <3>3. \A k \in 1 .. L + 1 : k \in 1 .. L \/ k = L + 1
      BY <1>3
    <3> QED BY <1>8, <3>1, <3>2, <3>3
  <2>2. ASSUME NEW j \in DOMAIN queue', NEW k \in DOMAIN queue', j < k PROVE queue'[j] # queue'[k]
    <3>1. CASE k < M
      <4>1. j \in DOMAIN queue /\ k \in DOMAIN queue /\ j # k /\ queue'[j] = queue[j] /\ queue'[k] = queue[k]
        BY <1>3, <1>7, <2>2, <3>1
      <4> QED BY <4>1 DEF SortParts, NoneTwice
    <3>2. CASE j < M /\ ~ k < M
      <4>1. j \in DOMAIN queue /\ queue'[j] = queue[j]
        BY <1>3, <1>7, <3>2
      <4>2. k - M + 1 \in DOMAIN q /\ queue'[k] = q[k - M + 1]
        BY <1>3, <1>6, <1>7, <3>2
      <4> QED BY <1>6, <1>14, <4>1, <4>2 DEF Queued
    <3>3. CASE ~ j < M
      <4>1. /\ j - M + 1 \in DOMAIN q /\ k - M + 1 \in DOMAIN q /\ j - M + 1 # k - M + 1
            /\ ~ k < M
        BY <1>3, <1>6, <1>7, <2>2, <3>3
      <4> QED BY <1>6, <1>7, <3>3, <4>1
    <3> QED BY <1>7, <1>3, <1>6, <2>2, <3>1, <3>2, <3>3
  <2>3. ASSUME NEW k \in DOMAIN queue', NEW i, queue'[k] = i
        PROVE  i \in NodeIds(g) /\ ~ Placed(i)'
    <3>1. CASE k < M
      <4>1. k \in DOMAIN queue /\ queue[k] = i /\ k # M /\ M \in DOMAIN queue
        BY <1>3, <1>7, <2>3, <3>1
      <4>2. ~ Placed(i) /\ i # n /\ i \in NodeIds(g)
        BY <1>3, <1>4, <4>1 DEF SortParts, NoneTwice
      <4> QED BY <1>9, <4>2
    <3>2. CASE ~ k < M
      <4>1. i \in ready
        BY <1>3, <1>6, <1>7, <2>3, <3>2
      <4> QED BY <1>5, <1>9, <1>14, <4>1
    <3> QED BY <3>1, <3>2
  <2>4. \A j, k \in DOMAIN queue' : j # k => j < k \/ k < j
    BY <1>3, <1>6, <1>7
  <2>5. \A k \in DOMAIN queue' : ~ \E l \in DOMAIN order' : order'[l] = queue'[k]
    BY <2>3 DEF Placed
  <2>6. \A j, k \in DOMAIN queue' : j # k => queue'[j] # queue'[k]
    BY <2>2, <2>4
  <2> QED BY <2>1, <2>5, <2>6 DEF NoneTwice, Placed
<1>16. Topological'
  <2> SUFFICES ASSUME NEW j \in 1 .. L + 1, NEW k \in 1 .. L + 1,
                      ReadsFrom(g, order'[j], order'[k]) # {}
               PROVE  k < j
    BY <1>1, <1>8 DEF Topological
  <2>1. order'[j] \in NodeIds(g) /\ order'[k] \in NodeIds(g)
    BY <1>8
  <2>2. \A m \in 1 .. L + 1 : m \in 1 .. L \/ m = L + 1
    BY <1>3
  <2>3. CASE j \in 1 .. L /\ k \in 1 .. L
    BY <1>3, <1>8, <2>3 DEF SortParts, Topological
  <2>4. CASE j = L + 1 /\ k \in 1 .. L
    BY <1>3, <2>4
  <2>5. CASE k = L + 1
    <3>1. order'[k] = n /\ ReadsFrom(g, order'[j], n) \subseteq Waiting(order'[j])
      BY <1>8, <1>10, <2>1, <2>5
    <3>2. Waiting(order'[j]) # {}
      BY <3>1
    <3>3. ~ Placed(order'[j]) /\ order'[j] # n
      BY <1>4, <2>1, <3>2 DEF SortParts
    <3>4. j \notin 1 .. L /\ j # L + 1
      BY <1>3, <1>8, <3>3 DEF Placed
    <3> QED BY <2>2, <3>4
  <2> QED BY <2>2, <2>3, <2>4, <2>5
<1>17. CallOK'
  BY <1>1, <1>3, <1>7, <1>8 DEF CallOK, L
<1>18. indegree' = [i \in NodeIds(g) |-> Cardinality(Waiting(i)')]
  BY <1>1, <1>10, <1>11
<1>19. ASSUME NEW i \in NodeIds(g) PROVE Waiting(i)' = {} <=> Placed(i)' \/ Queued(i)'
  <2>1. Waiting(i) = {} <=> Placed(i) \/ Queued(i)
    BY DEF SortParts
  <2>2. Waiting(i) = {} => Waiting(i)' = {}
    BY <1>10
  <2> QED BY <1>4, <1>9, <1>12, <1>13, <2>1, <2>2
<1>20. NodeIds(g)' = NodeIds(g)
  BY <1>1
<1> QED BY <1>15, <1>16, <1>17, <1>18, <1>19, <1>20 DEF SortParts

\* When the queue is empty every node is ordered: the first node that is not
\* would wait for none of the nodes before it, all of which are.
LEMMA SortedParts ==
  ASSUME WellBuilt(g), CallOK, SortParts, queue = <<>>
  PROVE  /\ \A i \in NodeIds(g) : Placed(i)
         /\ Len(order) = Len(g.nodes)
<1> DEFINE U == {i \in NodeIds(g) : ~ Placed(i)}
<1>1. \A i \in NodeIds(g) : ~ Queued(i)
  BY DEF Queued
<1>2. U = {}
  <2> SUFFICES ASSUME U # {} PROVE FALSE
    OBVIOUS
  <2>1. U \subseteq NodeIds(g) /\ U \subseteq Int /\ IsFiniteSet(U)
    <3>1. U \subseteq NodeIds(g)
      OBVIOUS
    <3> HIDE DEF U
    <3> QED BY <3>1, GraphSequences, FS_Subset
  <2>2. PICK i \in U : \A m \in U : i <= m
    <3> HIDE DEF U
    <3> QED BY <2>1, LeastElement
  <2>3. ASSUME NEW p \in NodeIds(g), ReadsFrom(g, i, p) # {} PROVE Placed(p)
    <3>1. p < i /\ i \in Int /\ p \in Int
      BY <2>1, <2>2, <2>3, ReadsEarlier, GraphSequences
    <3> QED BY <2>2, <3>1
  <2>4. Waiting(i) = {}
    BY <2>3 DEF Waiting
  <2> QED BY <1>1, <2>2, <2>4 DEF SortParts
<1>3. \A i \in NodeIds(g) : Placed(i)
  BY <1>2
<1>4. order \in Seq(1 .. Len(g.nodes)) /\ Len(g.nodes) \in Nat
  BY GraphSequences DEF CallOK
<1>5. /\ \A j, k \in DOMAIN order : j # k => order[j] # order[k]
      /\ \A x \in 1 .. Len(g.nodes) : \E k \in DOMAIN order : order[k] = x
  BY <1>3, GraphSequences DEF SortParts, NoneTwice, Placed
<1> QED BY <1>3, <1>4, <1>5, EnumerationLength

-----------------------------------------------------------------------------
(* The invariant *)

\* execute() starts at the first node, and has in storage what the caller
\* passed and what the nodes handled so far have made.
StorageInv ==
  /\ phase \in {"building", "sorting", "sorted"} => at = 0
  /\ phase = "running" =>
       DOMAIN storage = {g.inputs[i] : i \in DOMAIN g.inputs} \cup
                        {g.nodes[order[k]].out : k \in 1 .. at}

GraphInv ==
  /\ WellBuilt(g) /\ CallOK
  /\ SortInv /\ OrderTopological
  /\ StorageInv

LEMMA GraphInvInit == GraphInit => GraphInv /\ NeverThrown
<1> SUFFICES ASSUME GraphInit PROVE GraphInv /\ NeverThrown
  OBVIOUS
<1> USE DEF GraphInit
<1>1. WellBuilt(g)
  BY BuiltEmpty
<1>2. CallOK
  BY DEF CallOK
<1> QED BY <1>1, <1>2 DEF GraphInv, SortInv, OrderTopological, Ordered, StorageInv, NeverThrown

LEMMA GraphInvType == GraphInv => GraphTypeOK
BY DEF GraphInv, WellBuilt, Typed, CallOK, GraphTypeOK

\* A build function adds to the graph.
LEMMA BuildKeeps ==
  ASSUME GraphInv, Building, WellBuilt(g'), NodeIds(g) \subseteq NodeIds(g')
  PROVE  GraphInv' /\ NeverThrown'
<1> USE DEF Building
<1>1. CallOK'
  <2>1. order \in Seq(NodeIds(g')) /\ queue \in Seq(NodeIds(g'))
    BY SeqMonotonic DEF GraphInv, CallOK
  <2> QED BY <2>1 DEF GraphInv, CallOK, sortVars
<1> QED BY <1>1 DEF GraphInv, SortInv, OrderTopological, Ordered, StorageInv, NeverThrown

LEMMA BuildStepKeeps ==
  ASSUME GraphInv, BuildStep
  PROVE  GraphInv' /\ NeverThrown'
<1> USE GraphAssumption
<1>0. WellBuilt(g)
  BY DEF GraphInv
<1>1. ASSUME NEW sh \in Shapes, AddInput(sh) PROVE GraphInv' /\ NeverThrown'
  <2>1. g' = WithInput(g, sh) /\ Building
    BY <1>1 DEF AddInput
  <2>2. WellBuilt(g')
    BY <1>0, <2>1, BuiltInput
  <2>3. g'.nodes = g.nodes
    BY <1>0, <2>1, InputFields
  <2> QED BY <2>1, <2>2, <2>3, BuildKeeps DEF NodeIds
<1>2. ASSUME NEW op \in Ops, NEW n \in 0 .. MaxArity, NEW in \in [1 .. n -> Values(g)], AddNode(op, in)
      PROVE  GraphInv' /\ NeverThrown'
  <2>1. g' = WithNode(g, op, in) /\ Building /\ Infer(op, ShapesOf(g, in)) # NoShape
    BY <1>2 DEF AddNode, Accepts
  <2>2. g.shape \in [Values(g) -> Shapes] /\ Values(g) \subseteq Nat
    BY <1>0, Grown DEF WellBuilt, Typed
  <2>3. in \in Seq(Nat) /\ DOMAIN in = 1 .. n /\ \A i \in DOMAIN in : in[i] \in Values(g)
    BY <2>2
  <2>4. ShapesOf(g, in) \in [1 .. n -> Shapes]
    BY <2>2, <2>3 DEF ShapesOf
  <2>5. Infer(op, ShapesOf(g, in)) \in Shapes
    BY <2>1, <2>4
  <2>6. WellBuilt(g')
    BY <1>0, <2>1, <2>3, <2>5, BuiltNode
  <2>7. g'.nodes = Append(g.nodes, [op |-> op, in |-> in, out |-> g.next])
    BY <1>0, <2>1, NodeFields
  <2>8. NodeIds(g) \subseteq NodeIds(g')
    BY <1>0, <2>7 DEF WellBuilt, Typed, NodeIds
  <2> QED BY <2>1, <2>6, <2>8, BuildKeeps
<1>3. ASSUME NEW v \in Values(g), MarkOutput(v) PROVE GraphInv' /\ NeverThrown'
  <2>1. g' = WithOutput(g, v) /\ Building
    BY <1>3 DEF MarkOutput
  <2>2. WellBuilt(g')
    BY <1>0, <2>1, BuiltOutput
  <2>3. g'.nodes = g.nodes
    BY <1>0, <2>1, OutputFields
  <2> QED BY <2>1, <2>2, <2>3, BuildKeeps DEF NodeIds
<1>4. CASE StartSort
  <2>1. CallOK' /\ SortParts'
    BY <1>0, <1>4, StartSortParts
  <2>2. g' = g /\ phase' = "sorting" /\ at' = 0
    BY <1>4 DEF StartSort
  <2>3. WellBuilt(g)'
    BY <1>0, <2>2
  <2>4. SortInv'
    BY <2>1 DEF SortInv, SortParts, NoneTwice, Topological, Queued
  <2> QED BY <2>1, <2>2, <2>3, <2>4 DEF GraphInv, OrderTopological, Ordered, StorageInv, NeverThrown
<1> QED BY <1>1, <1>2, <1>3, <1>4 DEF BuildStep

LEMMA SortStepKeeps ==
  ASSUME GraphInv, SortStep
  PROVE  GraphInv' /\ NeverThrown'
<1>0. WellBuilt(g) /\ CallOK /\ (phase = "sorting" => SortParts)
  BY SortInvParts DEF GraphInv
<1>1. CASE NextReady
  <2>1. phase = "sorting" /\ phase' = phase /\ g' = g /\ at' = at
    BY <1>1 DEF NextReady
  <2>2. CallOK' /\ SortParts'
    BY <1>0, <1>1, <2>1, NextReadyParts
  <2>3. WellBuilt(g)'
    BY <1>0, <2>1
  <2>4. SortInv'
    BY <2>2 DEF SortInv, SortParts, NoneTwice, Topological, Queued
  <2> QED BY <2>1, <2>2, <2>3, <2>4 DEF GraphInv, OrderTopological, Ordered, StorageInv, NeverThrown
<1>2. CASE Sorted
  <2>1. phase = "sorting" /\ queue = <<>> /\ UNCHANGED <<g, sortVars, at>>
        /\ phase' = IF Len(order) # Len(g.nodes) THEN "thrown" ELSE "sorted"
    BY <1>2 DEF Sorted
  <2>2. (\A i \in NodeIds(g) : Placed(i)) /\ Len(order) = Len(g.nodes)
    BY <1>0, <2>1, SortedParts
  <2>3. phase' = "sorted"
    BY <2>1, <2>2
  <2>4. OrderTopological'
    BY <1>0, <2>1, <2>2 DEF OrderTopological, SortParts, NoneTwice, Topological, Placed, sortVars
  <2> QED BY <1>0, <2>1, <2>3, <2>4 DEF GraphInv, CallOK, SortInv, StorageInv, NeverThrown, sortVars
<1>3. CASE Validated
  <2>1. phase = "sorted" /\ phase' = "validated" /\ UNCHANGED <<g, sortVars, at>>
    BY <1>3 DEF Validated
  <2> QED BY <2>1 DEF GraphInv, CallOK, SortInv, OrderTopological, Ordered, StorageInv, NeverThrown, sortVars
<1> QED BY <1>1, <1>2, <1>3 DEF SortStep

\* An input of the next node is passed by the caller or made by a node before it
\* in the order.
LEMMA InputsComputed ==
  ASSUME GraphInv, phase = "running", at < Len(order),
         NEW j \in DOMAIN Handled.in
  PROVE  Handled.in[j] \in DOMAIN storage
<1> DEFINE n == order[at + 1]
           v == Handled.in[j]
<1>1. WellBuilt(g) /\ order \in Seq(NodeIds(g)) /\ at \in 0 .. Len(order)
  BY DEF GraphInv, CallOK
<1>2. n \in NodeIds(g) /\ Handled = g.nodes[n] /\ at + 1 \in DOMAIN order /\ DOMAIN order = 1 .. Len(order)
  BY <1>1 DEF Handled
<1> HIDE DEF n
<1>3. \/ \E k \in DOMAIN g.inputs : v = g.inputs[k]
      \/ \E k \in 1 .. n - 1 : v = g.nodes[k].out
  BY <1>1, <1>2 DEF WellBuilt, WellFormed
<1>4. CASE \E k \in DOMAIN g.inputs : v = g.inputs[k]
  BY <1>4 DEF GraphInv, StorageInv
<1>5. ASSUME NEW p \in 1 .. n - 1, v = g.nodes[p].out PROVE v \in DOMAIN storage
  <2>1. p \in NodeIds(g)
    BY <1>1, <1>2, GraphSequences
  <2>2. OrderTopological /\ Ordered
    BY DEF GraphInv, Ordered
  <2>3. PICK k \in DOMAIN order : order[k] = p
    BY <2>1, <2>2 DEF OrderTopological
  <2>4. ReadsFrom(g, n, p) # {}
    BY <1>2, <1>5 DEF ReadsFrom
  <2>5. k < at + 1
    BY <1>2, <2>2, <2>3, <2>4 DEF OrderTopological, n
  <2>6. k \in 1 .. at
    BY <1>1, <1>2, <2>5
  <2> QED BY <1>5, <2>3, <2>6 DEF GraphInv, StorageInv
<1> QED BY <1>3, <1>4, <1>5

LEMMA ExecStepKeeps ==
  ASSUME GraphInv, ExecStep
  PROVE  GraphInv' /\ NeverThrown'
<1>1. CASE MapInputs
  <2>1. /\ phase = "sorted" /\ phase' = "running" /\ UNCHANGED <<g, sortVars, at>>
        /\ DOMAIN storage' = {g.inputs[i] : i \in DOMAIN g.inputs}
    BY <1>1 DEF MapInputs
  <2>2. at = 0
    BY <2>1 DEF GraphInv, StorageInv
  <2>3. StorageInv'
    BY <2>1, <2>2 DEF StorageInv, sortVars
  <2> QED BY <2>1, <2>3 DEF GraphInv, CallOK, SortInv, OrderTopological, Ordered, NeverThrown, sortVars
<1>2. CASE RunNode
  <2>1. phase = "running" /\ at < Len(order) /\ UNCHANGED <<g, sortVars>>
    BY <1>2 DEF RunNode
  <2>2. \A i \in DOMAIN Handled.in : Handled.in[i] \in DOMAIN storage
    BY <2>1, InputsComputed
  <2>3. /\ DOMAIN storage' = DOMAIN storage \cup {Handled.out}
        /\ at' = at + 1 /\ phase' = phase
    BY <1>2, <2>2 DEF RunNode
  <2>4. order \in Seq(NodeIds(g)) /\ at \in 0 .. Len(order)
    BY DEF GraphInv, CallOK
  <2>5. at' \in 0 .. Len(order) /\ 1 .. at' = (1 .. at) \cup {at + 1}
    BY <2>1, <2>3, <2>4
  <2>6. {g.nodes[order[k]].out : k \in 1 .. at'} =
        {g.nodes[order[k]].out : k \in 1 .. at} \cup {Handled.out}
    BY <2>5 DEF Handled
  <2>7. StorageInv'
    <3>1. DOMAIN storage = {g.inputs[i] : i \in DOMAIN g.inputs} \cup {g.nodes[order[k]].out : k \in 1 .. at}
      BY <2>1 DEF GraphInv, StorageInv
    <3>2. DOMAIN storage' = {g.inputs[i] : i \in DOMAIN g.inputs} \cup {g.nodes[order[k]].out : k \in 1 .. at'}
      BY <2>3, <2>6, <3>1
    <3>3. g' = g /\ order' = order /\ phase' = "running"
      BY <2>1, <2>3 DEF sortVars
    <3> QED BY <3>2, <3>3 DEF StorageInv
  <2>8. CallOK'
    BY <2>1, <2>3, <2>5 DEF GraphInv, CallOK, sortVars
  <2> QED BY <2>1, <2>3, <2>7, <2>8 DEF GraphInv, SortInv, OrderTopological, Ordered, NeverThrown, sortVars
<1>3. CASE Gather
  <2>1. phase = "running" /\ phase' = "executed" /\ UNCHANGED <<g, sortVars, at>>
    BY <1>3 DEF Gather
  <2> QED BY <2>1 DEF GraphInv, CallOK, SortInv, OrderTopological, Ordered, StorageInv, NeverThrown, sortVars
<1> QED BY <1>1, <1>2, <1>3 DEF ExecStep

LEMMA GraphNextKeeps ==
  ASSUME GraphInv, NeverThrown, [GraphNext]_graphVars
  PROVE  GraphInv' /\ NeverThrown'
<1>1. CASE GraphNext
  BY <1>1, BuildStepKeeps, SortStepKeeps, ExecStepKeeps DEF GraphNext
<1>2. CASE UNCHANGED graphVars
  <2>1. /\ g' = g /\ phase' = phase /\ at' = at /\ storage' = storage
        /\ indegree' = indegree /\ queue' = queue /\ order' = order
    BY <1>2 DEF graphVars, sortVars, execVars
  <2>2. WellBuilt(g)' /\ CallOK' /\ OrderTopological' /\ NeverThrown'
    BY <2>1 DEF GraphInv, CallOK, OrderTopological, Ordered, NeverThrown
  <2>3. SortInv'
    BY <2>1 DEF GraphInv, SortInv, Placed, Waiting
  <2>4. StorageInv'
    BY <2>1 DEF GraphInv, StorageInv
  <2> QED BY <2>2, <2>3, <2>4 DEF GraphInv
<1> QED BY <1>1, <1>2

-----------------------------------------------------------------------------
(* What execute() returns *)

\* While execute() runs, its storage holds what the values stand for; what it
\* returned is what the outputs stand for.
ResultInv ==
  /\ phase = "running" => \A v \in DOMAIN storage : storage[v] = Denotation(g, Arguments)[v]
  /\ ResultsDenoted

\* A step that leaves the graph alone leaves its meaning alone.
LEMMA MeaningSame ==
  ASSUME g' = g
  PROVE  Denotation(g, Arguments)' = Denotation(g, Arguments)
BY DEF Arguments

LEMMA MapInputsMeant ==
  ASSUME GraphInv, MapInputs
  PROVE  ResultInv'
<1>1. /\ g' = g /\ phase' = "running"
      /\ storage' = [v \in {g.inputs[i] : i \in DOMAIN g.inputs} |->
                       Arguments[CHOOSE i \in DOMAIN g.inputs : g.inputs[i] = v]]
  BY DEF MapInputs
<1>2. WellBuilt(g) /\ Obeys(g, Arguments, Denotation(g, Arguments))
  BY DenotationObeys DEF GraphInv
<1>3. ASSUME NEW i \in DOMAIN g.inputs
      PROVE  storage'[g.inputs[i]] = Denotation(g, Arguments)[g.inputs[i]]
  <2>1. \A k \in DOMAIN g.inputs : g.inputs[k] = g.inputs[i] => k = i
    BY <1>2 DEF WellBuilt, Sourced
  <2>2. (CHOOSE k \in DOMAIN g.inputs : g.inputs[k] = g.inputs[i]) = i
    BY <2>1
  <2>3. storage'[g.inputs[i]] = Arguments[i]
    BY <1>1, <2>2
  <2> QED BY <1>2, <2>3 DEF Obeys
<1>4. \A v \in DOMAIN storage' : storage'[v] = Denotation(g, Arguments)[v]
  BY <1>1, <1>3
<1> QED BY <1>1, <1>4, MeaningSame DEF ResultInv, ResultsDenoted

LEMMA RunNodeMeant ==
  ASSUME GraphInv, ResultInv, RunNode
  PROVE  ResultInv'
<1> DEFINE n == order[at + 1]
           d == Denotation(g, Arguments)
<1>1. phase = "running" /\ at < Len(order) /\ g' = g
  BY DEF RunNode
<1>2. /\ phase' = "running"
      /\ storage' = [v \in DOMAIN storage \cup {Handled.out} |->
                       IF v = Handled.out
                       THEN <<Handled.op, [i \in DOMAIN Handled.in |-> storage[Handled.in[i]]]>>
                       ELSE storage[v]]
  BY <1>1, InputsComputed DEF RunNode
<1>3. n \in NodeIds(g) /\ Handled = g.nodes[n]
  BY <1>1 DEF GraphInv, CallOK, Handled
<1>4. Obeys(g, Arguments, d)
  BY DenotationObeys DEF GraphInv
<1> HIDE DEF d, n
<1>5. \A v \in DOMAIN storage : storage[v] = d[v]
  BY <1>1 DEF ResultInv, d
<1>6. \A i \in DOMAIN Handled.in : storage[Handled.in[i]] = d[Handled.in[i]]
  BY <1>1, <1>5, InputsComputed
<1>7. <<Handled.op, [i \in DOMAIN Handled.in |-> storage[Handled.in[i]]]>> = Applied(g, n, d)
  BY <1>3, <1>6 DEF Applied
<1>8. d[Handled.out] = Applied(g, n, d)
  BY <1>3, <1>4 DEF Obeys
<1>9. \A v \in DOMAIN storage' : storage'[v] = d[v]
  BY <1>2, <1>5, <1>7, <1>8
<1>10. d' = d
  BY <1>1, MeaningSame DEF d
<1> QED BY <1>2, <1>9, <1>10 DEF ResultInv, ResultsDenoted, d

\* Every node has run, so every output is in storage.
LEMMA GatherMeant ==
  ASSUME GraphInv, ResultInv, Gather
  PROVE  ResultInv'
<1> DEFINE d == Denotation(g, Arguments)
<1>1. phase = "running" /\ at = Len(order) /\ g' = g /\ phase' = "executed"
  BY DEF Gather
<1>2. PICK q \in Ascending(Found(g)) : results' = [k \in DOMAIN q |-> storage[g.outputs[q[k]]]]
  BY DEF Gather
<1>3. WellBuilt(g) /\ OrderTopological /\ Ordered /\ CallOK
  BY <1>1 DEF GraphInv, Ordered
<1>4. ASSUME NEW i \in Found(g) PROVE g.outputs[i] \in DOMAIN storage
  <2>1. g.outputs[i] \in Values(g)
    BY <1>3 DEF Found, WellBuilt, WellFormed
  <2>2. \/ \E k \in DOMAIN g.inputs : g.outputs[i] = g.inputs[k]
        \/ \E n \in NodeIds(g) : g.outputs[i] = g.nodes[n].out
    BY <1>3, <2>1 DEF WellBuilt, Sourced
  <2>3. \A n \in NodeIds(g) : \E k \in 1 .. at : order[k] = n
    BY <1>1, <1>3 DEF OrderTopological, CallOK
  <2>4. DOMAIN storage = {g.inputs[k] : k \in DOMAIN g.inputs} \cup {g.nodes[order[k]].out : k \in 1 .. at}
    BY <1>1 DEF GraphInv, StorageInv
  <2> QED BY <2>2, <2>3, <2>4
<1>5. q \in [1 .. Cardinality(Found(g)) -> Found(g)]
  BY DEF Ascending
<1>6. \A k \in DOMAIN q : storage[g.outputs[q[k]]] = d[g.outputs[q[k]]]
  BY <1>1, <1>4, <1>5 DEF ResultInv
<1>7. d' = d
  BY <1>1, MeaningSame
<1> HIDE DEF d
<1>8. results' = [k \in DOMAIN q |-> d[g.outputs[q[k]]]]
  BY <1>2, <1>6
<1>9. ResultsDenoted'
  BY <1>1, <1>7, <1>8 DEF ResultsDenoted, d
<1> QED BY <1>1, <1>9 DEF ResultInv

LEMMA GraphNextMeant ==
  ASSUME GraphInv, ResultInv, [GraphNext]_graphVars
  PROVE  ResultInv'
<1>1. CASE BuildStep
  <2>1. phase' \notin {"running", "executed"}
    BY <1>1 DEF BuildStep, AddInput, AddNode, MarkOutput, Building, StartSort
  <2> QED BY <2>1 DEF ResultInv, ResultsDenoted
<1>2. CASE SortStep
  <2>1. phase' \notin {"running", "executed"}
    BY <1>2 DEF SortStep, NextReady, Sorted, Validated
  <2> QED BY <2>1 DEF ResultInv, ResultsDenoted
<1>3. CASE ExecStep
  BY <1>3, MapInputsMeant, RunNodeMeant, GatherMeant DEF ExecStep
<1>4. CASE UNCHANGED graphVars
  <2>1. g' = g /\ phase' = phase /\ storage' = storage /\ results' = results
    BY <1>4 DEF graphVars, execVars
  <2> QED BY <2>1, MeaningSame DEF ResultInv, ResultsDenoted
<1> QED BY <1>1, <1>2, <1>3, <1>4 DEF GraphNext

LEMMA ResultInvInit == GraphInit => ResultInv
BY DEF GraphInit, ResultInv, ResultsDenoted

-----------------------------------------------------------------------------
(* The theorems *)

\* In every state of a graph and its calls, whatever is built from whatever
\* operators and shapes: the inductive invariant of Graph.
THEOREM GraphSpecInv == GraphSpec => [](GraphInv /\ NeverThrown)
<1>1. GraphInit => GraphInv /\ NeverThrown
  BY GraphInvInit
<1>2. GraphInv /\ NeverThrown /\ [GraphNext]_graphVars => (GraphInv /\ NeverThrown)'
  BY GraphNextKeeps
<1> QED BY <1>1, <1>2, PTL DEF GraphSpec

\* Kahn's algorithm orders every node once, after all that it reads from, for
\* graphs of every size and in whatever order nodes become ready.
THEOREM GraphOrderTopological == GraphSpec => []OrderTopological
<1>1. GraphInv => OrderTopological
  BY DEF GraphInv
<1> QED BY <1>1, GraphSpecInv, PTL

\* The sort finds no cycle in such a graph, and execute() no input that is not
\* computed yet: their exceptions cannot be thrown.
THEOREM GraphNeverThrows == GraphSpec => []NeverThrown
BY GraphSpecInv, PTL

\* execute() returns what the outputs stand for: whatever graph was built and in
\* whatever order its nodes became ready, the tensors returned are the operators
\* of the graph applied to the arguments as the graph says.
THEOREM GraphResultsDenoted == GraphSpec => []ResultsDenoted
<1>1. GraphInit => ResultInv
  BY ResultInvInit
<1>2. GraphInv /\ NeverThrown /\ ResultInv /\ [GraphNext]_graphVars => ResultInv'
  BY GraphNextMeant
<1>3. ResultInv => ResultsDenoted
  BY DEF ResultInv
<1> QED BY <1>1, <1>2, <1>3, GraphSpecInv, PTL DEF GraphSpec

=============================================================================
