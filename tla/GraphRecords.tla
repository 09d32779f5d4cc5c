---------------------------- MODULE GraphRecords ----------------------------
(***************************************************************************)
(* The members of a Graph (include/forgert/graph/graph.h) as a record, and *)
(* its build functions as functions from records to records.  Graph builds *)
(* graphs with them, GraphOptimizer rebuilds and Importer imports them.    *)
(*                                                                         *)
(* Every operator of the repository has one output, so a node has one.     *)
(* Value ids start at 0 and are never reused.                              *)
(***************************************************************************)
EXTENDS Integers, Sequences, FiniteSets

CONSTANTS
  Infer(_, _),  \* inferOutputShapes(): an operator and the shapes of its inputs
  NoShape       \* what Infer answers where the code throws

NoGraph == [nodes |-> <<>>, inputs |-> <<>>, outputs |-> <<>>, next |-> 0,
            shape |-> [v \in {} |-> {}]]

Values(gr) == DOMAIN gr.shape

\* Mutant: the id of the new value is given out again.
WithValueAgain(gr, sh) ==
  [gr EXCEPT !.shape = [v \in Values(gr) \cup {gr.next} |->
                          IF v = gr.next THEN sh ELSE gr.shape[v]]]

WithValue(gr, sh) ==
  [gr EXCEPT !.next = @ + 1,
             !.shape = [v \in Values(gr) \cup {gr.next} |->
                          IF v = gr.next THEN sh ELSE gr.shape[v]]]

WithInput(gr, sh) == [WithValue(gr, sh) EXCEPT !.inputs = Append(@, gr.next)]

ShapesOf(gr, in) == [i \in DOMAIN in |-> gr.shape[in[i]]]

\* addNode() goes through: the inputs exist and the operator takes them.
Accepts(gr, op, in) ==
  /\ \A i \in DOMAIN in : in[i] \in Values(gr)
  /\ Infer(op, ShapesOf(gr, in)) # NoShape

WithNode(gr, op, in) ==
  [WithValue(gr, Infer(op, ShapesOf(gr, in))) EXCEPT
     !.nodes = Append(@, [op |-> op, in |-> in, out |-> gr.next])]

WithOutput(gr, v) == [gr EXCEPT !.outputs = Append(@, v)]

-----------------------------------------------------------------------------

NodeIds(gr) == 1 .. Len(gr.nodes)

\* The inputs of node i that are produced by node p, and by any node at all.
ReadsFrom(gr, i, p) == {j \in DOMAIN gr.nodes[i].in : gr.nodes[i].in[j] = gr.nodes[p].out}

Produced(gr, i) == UNION {ReadsFrom(gr, i, p) : p \in NodeIds(gr)}

\* The enumerations of S in ascending order: there is one.
Ascending(S) ==
  {q \in [1 .. Cardinality(S) -> S] :
     \A i, j \in DOMAIN q : i < j => q[i] < q[j]}

\* The outputs that execute() returns.  They are moved out of owned_tensors,
\* where neither the caller's tensors nor those already moved are found.
Found(gr) ==
  {i \in DOMAIN gr.outputs :
     /\ \A k \in DOMAIN gr.inputs : gr.outputs[i] # gr.inputs[k]
     /\ \A k \in 1 .. i - 1 : gr.outputs[k] # gr.outputs[i]}

-----------------------------------------------------------------------------
(* What a graph means, for the properties of the modules that build one.    *)

\* What ScheduledGraph assumes of the graph it is given: one producer for every
\* value but the inputs, made before anything that reads it.
WellFormed(gr) ==
  /\ \A n \in NodeIds(gr) :
       /\ \A i \in DOMAIN gr.inputs : gr.nodes[n].out # gr.inputs[i]
       /\ \A k \in NodeIds(gr) : k # n => gr.nodes[k].out # gr.nodes[n].out
       /\ \A i \in DOMAIN gr.nodes[n].in :
            \/ \E k \in DOMAIN gr.inputs : gr.nodes[n].in[i] = gr.inputs[k]
            \/ \E k \in 1 .. n - 1 : gr.nodes[n].in[i] = gr.nodes[k].out
  /\ \A i \in DOMAIN gr.outputs : gr.outputs[i] \in Values(gr)

\* What a value stands for when the graph is given args: an argument, or an
\* operator applied to what its inputs stand for.
Denotation(gr, args) ==
  LET d[v \in Values(gr)] ==
        IF \E i \in DOMAIN gr.inputs : gr.inputs[i] = v
        THEN args[CHOOSE i \in DOMAIN gr.inputs : gr.inputs[i] = v]
        ELSE LET n == CHOOSE k \in NodeIds(gr) : gr.nodes[k].out = v IN
             <<gr.nodes[n].op, [i \in DOMAIN gr.nodes[n].in |-> d[gr.nodes[n].in[i]]]>>
  IN d
=============================================================================
