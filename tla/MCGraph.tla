------------------------------ MODULE MCGraph ------------------------------
(* Small graphs for Graph and GraphOptimizer: see the .cfg file.            *)
EXTENDS GraphOptimizer, TLC

CONSTANTS s, t     \* shapes

\* "add" takes two values of one shape, "pool" makes one of a shape
\* that neither takes.
Inference(op, in) ==
  CASE op = "add" /\ in = <<s, s>> -> s
    [] op = "pool" /\ in = <<s>> -> t
    [] OTHER -> NoShape
=============================================================================
