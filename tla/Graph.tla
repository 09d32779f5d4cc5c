------------------------------- MODULE Graph -------------------------------
(***************************************************************************)
(* Graph (include/forgert/graph/graph.h): a computation graph is built by  *)
(* addInput, addNode and markOutput, then validated or executed; both sort *)
(* its nodes topologically with Kahn's algorithm first.                    *)
(*                                                                         *)
(* The sort is modelled pass by pass of its loop, execution node by node.  *)
(* What an operator computes is a term, its name applied to what it reads; *)
(* of shapes only what shape inference accepts and answers is kept.        *)
(***************************************************************************)
EXTENDS GraphRecords

CONSTANTS
  Ops,         \* operators
  Shapes,      \* tensor shapes
  MaxArity,    \* bound of the inputs of a node
  MaxInputs, MaxNodes, MaxOutputs     \* bounds of the graphs built

ASSUME GraphAssumption ==
  /\ NoShape \notin Shapes
  /\ \A op \in Ops : \A n \in 0 .. MaxArity : \A in \in [1 .. n -> Shapes] :
       Infer(op, in) \in Shapes \cup {NoShape}
  /\ MaxArity \in Nat
  /\ MaxInputs \in Nat /\ MaxNodes \in Nat /\ MaxOutputs \in Nat

VARIABLES
  g,           \* the graph: its members
  phase,       \* building, or where a call is, or how it ended
  indegree,    \* in_degree: node -> inputs whose producer is not in order yet
  queue,       \* nodes ready to be ordered, used from its end
  order,       \* node indices in execution order
  at,          \* nodes of order handled by the call
  storage,     \* value_storage of execute(): value id -> contents
  results      \* contents of the tensors execute() returned

sortVars == <<indegree, queue, order>>
execVars == <<storage, results>>
graphVars == <<g, phase, sortVars, at, execVars>>

Node == [op : Ops, in : Seq(Nat), out : Nat]

\* What the caller passes for each input.
Arguments == [i \in DOMAIN g.inputs |-> <<"argument", i>>]

-----------------------------------------------------------------------------
GraphInit ==
  /\ g = NoGraph
  /\ phase = "building"
  /\ indegree = <<>> /\ queue = <<>> /\ order = <<>>
  /\ at = 0
  /\ storage = [v \in {} |-> {}]
  /\ results = <<>>

\* A build function that throws has changed nothing: those are no steps.
Building ==
  /\ phase = "building"
  /\ UNCHANGED <<phase, sortVars, at, execVars>>

AddInput(sh) ==
  /\ Building
  /\ Len(g.inputs) < MaxInputs
  /\ g' = WithInput(g, sh)

AddNode(op, in) ==
  /\ Building
  /\ Len(g.nodes) < MaxNodes
  /\ Accepts(g, op, in)
  /\ g' = WithNode(g, op, in)

MarkOutput(v) ==
  /\ Building
  /\ Len(g.outputs) < MaxOutputs
  /\ v \in Values(g)
  /\ g' = WithOutput(g, v)

-----------------------------------------------------------------------------
(* computeExecutionOrder()                                                  *)

\* Every call on the graph starts with the same sort, whatever follows.
StartSort ==
  /\ phase = "building"
  /\ phase' = "sorting"
  /\ indegree' = [i \in NodeIds(g) |-> Cardinality(Produced(g, i))]
  /\ queue' \in Ascending({i \in NodeIds(g) : Produced(g, i) = {}})
  /\ order' = <<>>
  /\ at' = 0
  /\ UNCHANGED <<g, execVars>>

\* Mutant: a dependent counts once for a producer, however often it reads it.
NextReadyOnce ==
  LET n == queue[Len(queue)]
      dependents == {i \in NodeIds(g) : ReadsFrom(g, i, n) # {}}
      ready == {i \in dependents : indegree[i] = 1} IN
  /\ phase = "sorting"
  /\ queue # <<>>
  /\ order' = Append(order, n)
  /\ indegree' = [i \in NodeIds(g) |-> IF i \in dependents THEN indegree[i] - 1 ELSE indegree[i]]
  /\ \E q \in Ascending(ready) : queue' = SubSeq(queue, 1, Len(queue) - 1) \o q
  /\ UNCHANGED <<g, phase, at, execVars>>

\* Mutant: one producer suffices to make a node ready.
NextReadyAny ==
  LET n == queue[Len(queue)]
      reads == [i \in NodeIds(g) |-> Cardinality(ReadsFrom(g, i, n))]
      ready == {i \in NodeIds(g) : reads[i] > 0} IN
  /\ phase = "sorting"
  /\ queue # <<>>
  /\ order' = Append(order, n)
  /\ indegree' = [i \in NodeIds(g) |-> indegree[i] - reads[i]]
  /\ \E q \in Ascending(ready) : queue' = SubSeq(queue, 1, Len(queue) - 1) \o q
  /\ UNCHANGED <<g, phase, at, execVars>>

\* Mutant: nodes that were ready before are queued once more.
NextReadyAgain ==
  LET n == queue[Len(queue)]
      reads == [i \in NodeIds(g) |-> Cardinality(ReadsFrom(g, i, n))]
      ready == {i \in NodeIds(g) : indegree[i] = reads[i]} IN
  /\ phase = "sorting"
  /\ queue # <<>>
  /\ order' = Append(order, n)
  /\ indegree' = [i \in NodeIds(g) |-> indegree[i] - reads[i]]
  /\ \E q \in Ascending(ready) : queue' = SubSeq(queue, 1, Len(queue) - 1) \o q
  /\ Len(order) < Len(g.nodes)
  /\ UNCHANGED <<g, phase, at, execVars>>

\* The last node of the queue is next; the nodes that waited for it alone
\* follow it in the queue.
NextReady ==
  LET n == queue[Len(queue)]
      reads == [i \in NodeIds(g) |-> Cardinality(ReadsFrom(g, i, n))]
      ready == {i \in NodeIds(g) : reads[i] > 0 /\ indegree[i] = reads[i]} IN
  /\ phase = "sorting"
  /\ queue # <<>>
  /\ order' = Append(order, n)
  /\ indegree' = [i \in NodeIds(g) |-> indegree[i] - reads[i]]
  /\ \E q \in Ascending(ready) : queue' = SubSeq(queue, 1, Len(queue) - 1) \o q
  /\ UNCHANGED <<g, phase, at, execVars>>

\* Nodes left over are on a cycle.
Sorted ==
  /\ phase = "sorting"
  /\ queue = <<>>
  /\ phase' = IF Len(order) # Len(g.nodes) THEN "thrown" ELSE "sorted"
  /\ UNCHANGED <<g, sortVars, at, execVars>>

\* validate(), which has refused a graph without outputs before the sort.
Validated ==
  /\ phase = "sorted"
  /\ g.outputs # <<>>
  /\ phase' = "validated"
  /\ UNCHANGED <<g, sortVars, at, execVars>>

-----------------------------------------------------------------------------
(* execute(), after its arguments were accepted                             *)

MapInputs ==
  /\ phase = "sorted"
  /\ phase' = "running"
  /\ storage' = [v \in {g.inputs[i] : i \in DOMAIN g.inputs} |->
                   Arguments[CHOOSE i \in DOMAIN g.inputs : g.inputs[i] = v]]
  /\ UNCHANGED <<g, sortVars, at, results>>

Handled == g.nodes[order[at + 1]]

\* An input that is not computed yet makes execute() throw.
RunNode ==
  /\ phase = "running"
  /\ at < Len(order)
  /\ IF \A i \in DOMAIN Handled.in : Handled.in[i] \in DOMAIN storage
     THEN /\ storage' = [v \in DOMAIN storage \cup {Handled.out} |->
               IF v = Handled.out
               THEN <<Handled.op, [i \in DOMAIN Handled.in |-> storage[Handled.in[i]]]>>
               ELSE storage[v]]
          /\ at' = at + 1
          /\ UNCHANGED phase
     ELSE /\ phase' = "thrown"
          /\ UNCHANGED <<at, storage>>
  /\ UNCHANGED <<g, sortVars, results>>

\* Mutant: the tensors come back in the order they were computed in.
GatherByValue ==
  /\ phase = "running"
  /\ at = Len(order)
  /\ \E q \in Ascending({g.outputs[i] : i \in Found(g)}) :
       results' = [k \in DOMAIN q |-> storage[q[k]]]
  /\ phase' = "executed"
  /\ UNCHANGED <<g, sortVars, at, storage>>

Gather ==
  /\ phase = "running"
  /\ at = Len(order)
  /\ \E q \in Ascending(Found(g)) :
       results' = [k \in DOMAIN q |-> storage[g.outputs[q[k]]]]
  /\ phase' = "executed"
  /\ UNCHANGED <<g, sortVars, at, storage>>

BuildStep ==
  \/ \E sh \in Shapes : AddInput(sh)
  \/ \E op \in Ops : \E n \in 0 .. MaxArity :
       \E in \in [1 .. n -> Values(g)] : AddNode(op, in)
  \/ \E v \in Values(g) : MarkOutput(v)
  \/ StartSort

SortStep == NextReady \/ Sorted \/ Validated

ExecStep == MapInputs \/ RunNode \/ Gather

GraphNext == BuildStep \/ SortStep \/ ExecStep

GraphSpec == GraphInit /\ [][GraphNext]_graphVars

-----------------------------------------------------------------------------
(***************************************************************************)
(* Properties                                                              *)
(***************************************************************************)

\* The graphs the build functions make: what reads a value comes after what
\* makes it, and no value id is made twice; where a call can be.
GraphTypeOK ==
  /\ WellFormed(g)
  /\ g.nodes \in Seq(Node)
  /\ g.inputs \in Seq(Nat) /\ g.outputs \in Seq(Nat) /\ g.next \in Nat
  /\ Values(g) = 0 .. g.next - 1
  /\ g.shape \in [Values(g) -> Shapes]
  /\ phase \in {"building", "sorting", "sorted", "validated", "running", "executed",
                "walking", "rebuilding", "optimized", "thrown"}
  /\ order \in Seq(NodeIds(g)) /\ queue \in Seq(NodeIds(g))
  /\ at \in 0 .. Len(order)

Ordered == phase \notin {"building", "sorting"}

\* The order is one of all the nodes, and none comes before one it reads from,
\* in whatever order nodes become ready and leave the queue.
OrderTopological ==
  Ordered =>
    /\ \A n \in NodeIds(g) : \E k \in DOMAIN order : order[k] = n
    /\ \A j, k \in DOMAIN order :
         /\ j # k => order[j] # order[k]
         /\ ReadsFrom(g, order[j], order[k]) # {} => k < j

\* What makes OrderTopological inductive.  While the nodes are sorted, no node
\* is ordered or queued twice, in_degree counts the inputs of a node whose
\* producer is not ordered, and the nodes without such inputs are the ones
\* that are ordered or queued.
Placed(n) == \E k \in DOMAIN order : order[k] = n

Waiting(i) == {j \in Produced(g, i) : \E p \in NodeIds(g) : j \in ReadsFrom(g, i, p) /\ ~Placed(p)}

SortInv ==
  phase = "sorting" =>
    /\ \A j, k \in DOMAIN order : j # k => order[j] # order[k]
    /\ \A j, k \in DOMAIN queue : j # k => queue[j] # queue[k]
    /\ \A k \in DOMAIN queue : ~Placed(queue[k])
    /\ indegree = [i \in NodeIds(g) |-> Cardinality(Waiting(i))]
    /\ \A i \in NodeIds(g) :
         Waiting(i) = {} <=> Placed(i) \/ \E k \in DOMAIN queue : queue[k] = i
    /\ \A j, k \in DOMAIN order : ReadsFrom(g, order[j], order[k]) # {} => k < j

\* A graph that the build functions accepted has no cycle: the exceptions of
\* the sort and "value not computed" are never thrown.
NeverThrown == phase # "thrown"

\* execute() returns what the outputs stand for, each once and in the order in
\* which they were marked, the caller's own tensors left out.
ResultsDenoted ==
  phase = "executed" =>
    \E q \in Ascending(Found(g)) :
      results = [k \in DOMAIN q |-> Denotation(g, Arguments)[g.outputs[q[k]]]]

=============================================================================
