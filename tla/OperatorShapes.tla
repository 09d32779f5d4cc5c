--------------------------- MODULE OperatorShapes ---------------------------
(***************************************************************************)
(* inferOutputShapes() of the operators that an imported graph is made of  *)
(* (include/forgert/operator/*.h).  An operator is a record of its name    *)
(* and parameters, a shape a sequence of dimensions.  Dimensions are       *)
(* size_t: their arithmetic is modulo Wide.                                *)
(***************************************************************************)
EXTENDS Integers, Sequences, FiniteSets

CONSTANT Wide    \* 2^64: size_t and u64 are 0 .. Wide - 1

ASSUME WideAssumption == Wide \in Nat /\ Wide > 1 /\ Wide % 2 = 0

Throws == <<>>   \* no TensorShape has no dimensions

\* numElements()
Elements(dims) ==
  LET p[i \in 0 .. Len(dims)] == IF i = 0 THEN 1 ELSE (p[i - 1] * dims[i]) % Wide
  IN p[Len(dims)]

\* Mutant: a window that sticks out at the end counts too.
WindowsCeil(in, pad, k, stride) ==
  (((in + 2 * pad - k + stride - 1) % Wide) \div stride + 1) % Wide

\* The positions of a window of k along an axis of in, padded on both sides.
\* Nothing checks that the window fits: the difference wraps around.
Windows(in, pad, k, stride) ==
  (((in + 2 * pad - k) % Wide) \div stride + 1) % Wide

Spatial(w, in) ==
  <<Windows(in[3], w.pad[1], w.kernel[1], w.stride[1]),
    Windows(in[4], w.pad[2], w.kernel[2], w.stride[2])>>

Pooled(op, in) ==
  IF Len(in) = 1 /\ Len(in[1]) = 4
  THEN <<in[1][1], in[1][2]>> \o Spatial(op.window, in[1])
  ELSE Throws

Convolved(op, in) ==
  IF /\ Len(in) \in {2, 3}
     /\ Len(in[1]) = 4 /\ Len(in[2]) = 4
     /\ in[1][2] = in[2][2]
     /\ op.window.kernel = <<in[2][3], in[2][4]>>
     /\ Len(in) = 3 => in[3] = <<in[2][1]>>
  THEN <<in[1][1], in[2][1]>> \o Spatial(op.window, in[1])
  ELSE Throws

\* axis counts from 0.
Concatenated(op, in) ==
  LET d == op.axis + 1
      total[i \in DOMAIN in] == IF i = 1 THEN in[1][d] ELSE (total[i - 1] + in[i][d]) % Wide
  IN
  IF /\ Len(in) >= 2
     /\ \A i \in DOMAIN in : Len(in[i]) = Len(in[1])
     /\ d \in 1 .. Len(in[1])
     /\ \A i \in DOMAIN in : \A k \in DOMAIN in[i] : k # d => in[i][k] = in[1][k]
  THEN [in[1] EXCEPT ![d] = total[Len(in)]]
  ELSE Throws

\* Mutant: what -1 stands for need not divide the elements evenly.
ResolvedRounding(in, target) ==
  LET open == {i \in DOMAIN target : target[i] = -1}
      known == [i \in DOMAIN target |->
                  IF target[i] = 0 THEN in[i] ELSE IF target[i] = -1 THEN 1 ELSE target[i]] IN
  IF \/ \E i \in DOMAIN target : target[i] = 0 /\ i > Len(in)
     \/ Cardinality(open) > 1
     \/ open = {} /\ Elements(known) # Elements(in)
     \/ open # {} /\ Elements(known) = 0
  THEN Throws
  ELSE [i \in DOMAIN target |->
          IF i \in open THEN Elements(in) \div Elements(known) ELSE known[i]]

\* resolveShape(): 0 copies a dimension, one -1 stands for what is left over.
Resolved(in, target) ==
  LET open == {i \in DOMAIN target : target[i] = -1}
      known == [i \in DOMAIN target |->
                  IF target[i] = 0 THEN in[i] ELSE IF target[i] = -1 THEN 1 ELSE target[i]] IN
  IF \/ \E i \in DOMAIN target : target[i] = 0 /\ i > Len(in)
     \/ Cardinality(open) > 1
     \/ open = {} /\ Elements(known) # Elements(in)
     \/ open # {} /\ (Elements(known) = 0 \/ Elements(in) % Elements(known) # 0)
  THEN Throws
  ELSE [i \in DOMAIN target |->
          IF i \in open THEN Elements(in) \div Elements(known) ELSE known[i]]

\* broadcastShapes(): aligned at the last dimension, a dimension of 1 fits any.
Broadcasted(a, b) ==
  LET rank == IF Len(a) > Len(b) THEN Len(a) ELSE Len(b)
      dim(s, d) == IF d + Len(s) > rank THEN s[d + Len(s) - rank] ELSE 1 IN
  IF \A d \in 1 .. rank : dim(a, d) = dim(b, d) \/ 1 \in {dim(a, d), dim(b, d)}
  THEN [d \in 1 .. rank |-> IF dim(a, d) = 1 THEN dim(b, d) ELSE dim(a, d)]
  ELSE Throws

Multiplied(a, b) ==
  IF Len(a) = 2 /\ Len(b) = 2 /\ a[2] = b[1] THEN <<a[1], b[2]>> ELSE Throws

InferOutputShape(op, in) ==
  CASE op.name = "Conv2D" -> Convolved(op, in)
    [] op.name \in {"MaxPool2D", "AveragePool2D"} -> Pooled(op, in)
    [] op.name = "Concat" -> Concatenated(op, in)
    [] op.name = "Reshape" -> IF Len(in) = 1 THEN Resolved(in[1], op.target) ELSE Throws
    [] op.name = "Add" -> IF Len(in) = 2 THEN Broadcasted(in[1], in[2]) ELSE Throws
    [] op.name = "MatMul" -> IF Len(in) = 2 THEN Multiplied(in[1], in[2]) ELSE Throws
    [] OTHER -> IF Len(in) = 1 THEN in[1] ELSE Throws
=============================================================================
