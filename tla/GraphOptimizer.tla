-------------------------- MODULE GraphOptimizer --------------------------
(***************************************************************************)
(* GraphOptimizer (include/forgert/graph/optimizer.h, src/graph/           *)
(* optimizer.cpp): dead-node elimination.  The nodes are walked backwards  *)
(* through the execution order, then a new graph is built from those that  *)
(* are live, by the build functions of GraphRecords.                       *)
(***************************************************************************)
EXTENDS Graph

VARIABLES
  liveValues,  \* live_values
  liveNodes,   \* live_node_set
  rebuilt,     \* the graph under construction, then the one returned
  idMap        \* id_map: value id of the original -> value id of the rebuilt

optVars == <<liveValues, liveNodes, rebuilt, idMap>>
vars == <<graphVars, optVars>>

Init ==
  /\ GraphInit
  /\ liveValues = {} /\ liveNodes = {}
  /\ rebuilt = NoGraph
  /\ idMap = [v \in {} |-> 0]

-----------------------------------------------------------------------------
(* computeLiveNodes() *)

Seed ==
  /\ phase = "sorted"
  /\ phase' = "walking"
  /\ liveValues' = {g.outputs[i] : i \in DOMAIN g.outputs}
  /\ liveNodes' = {}
  /\ at' = Len(order)
  /\ UNCHANGED <<g, sortVars, execVars, rebuilt, idMap>>

\* Mutant: only the first input of a live node is kept alive.
WalkFirstInput ==
  LET n == order[at] IN
  /\ phase = "walking"
  /\ at > 0
  /\ IF g.nodes[n].out \in liveValues
     THEN /\ liveNodes' = liveNodes \cup {n}
          /\ liveValues' = liveValues \cup {g.nodes[n].in[1]}
     ELSE UNCHANGED <<liveNodes, liveValues>>
  /\ at' = at - 1
  /\ UNCHANGED <<g, phase, sortVars, execVars, rebuilt, idMap>>

\* Mutant: the inputs of dead nodes are kept alive too.
WalkAllInputs ==
  LET n == order[at] IN
  /\ phase = "walking"
  /\ at > 0
  /\ liveNodes' = IF g.nodes[n].out \in liveValues THEN liveNodes \cup {n} ELSE liveNodes
  /\ liveValues' = liveValues \cup {g.nodes[n].in[i] : i \in DOMAIN g.nodes[n].in}
  /\ at' = at - 1
  /\ UNCHANGED <<g, phase, sortVars, execVars, rebuilt, idMap>>

\* A node is live if its output is, and then so are its inputs.
WalkNode ==
  LET n == order[at] IN
  /\ phase = "walking"
  /\ at > 0
  /\ IF g.nodes[n].out \in liveValues
     THEN /\ liveNodes' = liveNodes \cup {n}
          /\ liveValues' = liveValues \cup {g.nodes[n].in[i] : i \in DOMAIN g.nodes[n].in}
     ELSE UNCHANGED <<liveNodes, liveValues>>
  /\ at' = at - 1
  /\ UNCHANGED <<g, phase, sortVars, execVars, rebuilt, idMap>>

-----------------------------------------------------------------------------
(* rebuildGraph() *)

\* id_map with value v of the original mapped to the one about to be made.
MapToNext(v) == [u \in DOMAIN idMap \cup {v} |-> IF u = v THEN rebuilt.next ELSE idMap[u]]

\* The inputs are re-registered in their order.
ReplayInput ==
  LET v == g.inputs[Len(rebuilt.inputs) + 1] IN
  /\ phase = "walking"
  /\ at = 0
  /\ Len(rebuilt.inputs) < Len(g.inputs)
  /\ rebuilt' = WithInput(rebuilt, g.shape[v])
  /\ idMap' = MapToNext(v)
  /\ UNCHANGED <<g, phase, sortVars, at, execVars, liveValues, liveNodes>>

InputsReplayed ==
  /\ phase = "walking"
  /\ at = 0
  /\ Len(rebuilt.inputs) = Len(g.inputs)
  /\ phase' = "rebuilding"
  /\ UNCHANGED <<g, sortVars, at, execVars, optVars>>

SkipDead ==
  /\ phase = "rebuilding"
  /\ at < Len(order)
  /\ order[at + 1] \notin liveNodes
  /\ at' = at + 1
  /\ UNCHANGED <<g, phase, sortVars, execVars, optVars>>

\* Every input of the node has its place in the new graph.
Mapped(n) == \A i \in DOMAIN n.in : n.in[i] \in DOMAIN idMap

MappedInputs(n) == [i \in DOMAIN n.in |-> idMap[n.in[i]]]

\* The clone of a node is the next of the new graph.
Clone(n, in) ==
  /\ rebuilt' = WithNode(rebuilt, n.op, in)
  /\ idMap' = MapToNext(n.out)

\* Mutant: inputs keep the ids they had in the original.
ReplayUnmapped ==
  /\ phase = "rebuilding"
  /\ at < Len(order)
  /\ order[at + 1] \in liveNodes
  /\ Accepts(rebuilt, Handled.op, Handled.in)
  /\ Clone(Handled, Handled.in)
  /\ at' = at + 1
  /\ UNCHANGED <<g, phase, sortVars, execVars, liveValues, liveNodes>>

\* An input without a place, or one that addNode() refuses, makes it throw.
ReplayNode ==
  /\ phase = "rebuilding"
  /\ at < Len(order)
  /\ order[at + 1] \in liveNodes
  /\ IF Mapped(Handled) /\ Accepts(rebuilt, Handled.op, MappedInputs(Handled))
     THEN /\ Clone(Handled, MappedInputs(Handled))
          /\ at' = at + 1
          /\ UNCHANGED phase
     ELSE /\ phase' = "thrown"
          /\ UNCHANGED <<at, rebuilt, idMap>>
  /\ UNCHANGED <<g, sortVars, execVars, liveValues, liveNodes>>

MarkOutputs ==
  /\ phase = "rebuilding"
  /\ at = Len(order)
  /\ IF \A i \in DOMAIN g.outputs : g.outputs[i] \in DOMAIN idMap
     THEN /\ phase' = "optimized"
          /\ rebuilt' = [rebuilt EXCEPT !.outputs = [i \in DOMAIN g.outputs |-> idMap[g.outputs[i]]]]
     ELSE /\ phase' = "thrown"
          /\ UNCHANGED rebuilt
  /\ UNCHANGED <<g, sortVars, at, execVars, liveValues, liveNodes, idMap>>

OptStep ==
  \/ Seed \/ WalkNode
  \/ ReplayInput \/ InputsReplayed \/ SkipDead \/ ReplayNode \/ MarkOutputs

Next ==
  \/ GraphNext /\ UNCHANGED optVars
  \/ OptStep

Spec == Init /\ [][Next]_vars

-----------------------------------------------------------------------------
(***************************************************************************)
(* Properties                                                              *)
(***************************************************************************)

\* Node n reaches an output: it makes one, or a node made later, which does,
\* reads from it.
Reaches(gr) ==
  LET r[n \in NodeIds(gr)] ==
        \/ \E i \in DOMAIN gr.outputs : gr.outputs[i] = gr.nodes[n].out
        \/ \E k \in n + 1 .. Len(gr.nodes) : ReadsFrom(gr, k, n) # {} /\ r[k]
  IN r

\* Dead-node elimination "removes every GraphNode whose output values cannot
\* reach any declared graph output" (optimizer.h:13-14), and no other.
LiveIsReaching ==
  phase = "rebuilding" => liveNodes = {n \in NodeIds(g) : Reaches(g)[n]}

\* The graph returned takes and returns tensors of the same shapes.
SameSignature ==
  /\ Len(rebuilt.inputs) = Len(g.inputs)
  /\ Len(rebuilt.outputs) = Len(g.outputs)
  /\ \A i \in DOMAIN g.inputs : rebuilt.shape[rebuilt.inputs[i]] = g.shape[g.inputs[i]]
  /\ \A i \in DOMAIN g.outputs : rebuilt.shape[rebuilt.outputs[i]] = g.shape[g.outputs[i]]

\* It is well-formed and its outputs stand for what those of the original stand
\* for, in the same positions, whatever order the original was built in.
RebuiltEquivalent ==
  phase = "optimized" =>
    /\ WellFormed(rebuilt)
    /\ SameSignature
    /\ \A i \in DOMAIN g.outputs :
         Denotation(rebuilt, Arguments)[rebuilt.outputs[i]] = Denotation(g, Arguments)[g.outputs[i]]

\* Optimizing the graph returned again would remove nothing.
RebuiltHasNoDeadNode ==
  phase = "optimized" =>
    \A n \in NodeIds(rebuilt) : Reaches(rebuilt)[n]
=============================================================================
