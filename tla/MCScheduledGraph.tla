------------------------- MODULE MCScheduledGraph -------------------------
(***************************************************************************)
(* Small graphs for ScheduledGraph: see the .cfg files for the questions.  *)
(*                                                                         *)
(* Costs are scaled down so that the operators behave as in the default    *)
(* table: "linear" is worth its transfers, "relu" only when nothing has to *)
(* be sent, "join" has no row in the table.                                *)
(***************************************************************************)
EXTENDS ScheduledGraph

CONSTANTS a, b       \* contents

Injective == [v \in Contents |-> v]

Table == [
  linear |-> [known |-> TRUE, cuda_supported |-> TRUE, cpu_ns_per_elem |-> 12, gpu_speedup |-> 4],
  relu   |-> [known |-> TRUE, cuda_supported |-> TRUE, cpu_ns_per_elem |-> 3, gpu_speedup |-> 3],
  join   |-> [known |-> FALSE, cuda_supported |-> FALSE, cpu_ns_per_elem |-> 0, gpu_speedup |-> 1]]

Frozen(n, v) == [bytes |-> n, frozen |-> TRUE, val |-> v]
Activation(n, v) == [bytes |-> n, frozen |-> FALSE, val |-> v]

\* A layer: activation 1, weight 2, bias 3.  Its results 4 and 5 can stay on
\* the device, "join" brings 5 back to the CPU.
LayerNodes == <<[op |-> "linear", in |-> <<1, 2, 3>>, out |-> 4],
                [op |-> "relu", in |-> <<4>>, out |-> 5],
                [op |-> "join", in |-> <<5, 1>>, out |-> 6]>>
LayerElems == <<2, 3, 2, 2, 2, 2>>
LayerOutputs == <<6, 5>>

\* Activation and bias have one size: they may trade places.
LayerSlots == <<Activation(2, a), Frozen(3, a), Frozen(2, b)>>
LayerCalls == {<<1, 2, 3>>, <<3, 2, 1>>}

\* One weight, 2, feeds two nodes: whether it has to be sent decides where the
\* first of them runs.
SharedNodes == <<[op |-> "relu", in |-> <<2>>, out |-> 4],
                 [op |-> "linear", in |-> <<1, 2, 3>>, out |-> 5],
                 [op |-> "join", in |-> <<4, 5>>, out |-> 6]>>
SharedElems == <<2, 2, 2, 2, 2, 2>>
SharedOutputs == <<6, 4>>
SharedSlots == <<Activation(2, a), Frozen(2, a), Frozen(2, b)>>
SharedCalls == {<<1, 2, 3>>, <<1, 3, 2>>, <<1, 2>>}

\* markOutput() accepts a value twice.
TwiceOutputs == <<6, 6>>
=============================================================================
