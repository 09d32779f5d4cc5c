------------------------- MODULE SchedulingPolicy -------------------------
(***************************************************************************)
(* SchedulingPolicy::decide (src/scheduler/scheduler.cpp): CPU or CUDA for *)
(* one node, a pure function of the operator's profile, the sizes and the  *)
(* device context.                                                         *)
(*                                                                         *)
(* The code compares costs in double-precision nanoseconds.  Here both     *)
(* sides are multiplied by bandwidth * speedup, which makes them integers  *)
(* and leaves the comparison as it is.                                     *)
(***************************************************************************)
EXTENDS Integers

CONSTANT LaunchNs     \* CUDA_LAUNCH_OVERHEAD_NS

ASSUME LaunchAssumption == LaunchNs \in Nat

\* One row of the cost table; known is FALSE for an operator without a row.
Profile == [known : BOOLEAN, cuda_supported : BOOLEAN,
            cpu_ns_per_elem : Nat, gpu_speedup : Nat \ {0}]

\* Snapshot of the device: bytes the decisions count as allocated, the VRAM
\* budget and the transfer bandwidth in bytes per ns.
Context == [allocated : Nat, budget : Nat, bandwidth : Nat \ {0}]

\* A node to be placed: output elements, bytes of the inputs that would have
\* to be sent, bytes of the outputs, and whether no input has to be.
Demand == [elems : Nat, in : Nat, out : Nat, on_gpu : BOOLEAN]

CpuCost(p, d, c) == p.cpu_ns_per_elem * d.elems * p.gpu_speedup * c.bandwidth

Sent(d) == IF d.on_gpu THEN 0 ELSE d.in

GpuCost(p, d, c) ==
  (Sent(d) + d.out) * p.gpu_speedup
    + LaunchNs * p.gpu_speedup * c.bandwidth
    + p.cpu_ns_per_elem * d.elems * c.bandwidth

FitsVram(d, c) == c.allocated + d.out + Sent(d) <= c.budget

Decide(p, d, c) ==
  IF /\ p.known
     /\ p.cuda_supported
     /\ FitsVram(d, c)
     /\ GpuCost(p, d, c) < CpuCost(p, d, c)
  THEN "CUDA" ELSE "CPU"
=============================================================================
