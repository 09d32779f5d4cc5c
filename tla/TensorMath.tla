----------------------------- MODULE TensorMath -----------------------------
(***************************************************************************)
(* What each operator means, element by element, whatever the memory       *)
(* layout of a backend: the reference for CpuKernels and CudaKernels.      *)
(*                                                                         *)
(* Tensors hold integers, so that sums and products are exact.  Quotients  *)
(* are kept unreduced (Over), the exponential is a growing positive        *)
(* function, and the mean and the deviation of a row are scaled by powers  *)
(* of its length, which is the same for all that is compared.              *)
(***************************************************************************)
EXTENDS OperatorShapes, FiniteSetsExt

CONSTANT Exp(_)     \* expf(), of what is at most 0

\* a / b; b stays below Base in the instances.
Base == 20000
Over(a, b) == a * Base + b

\* A tensor is its shape and its data in row-major order from index 0.
\* Positions of a shape are sequences of indices from 0.
Positions(shape) ==
  {p \in [DOMAIN shape -> 0 .. Max({0} \cup {shape[d] - 1 : d \in DOMAIN shape})] :
     \A d \in DOMAIN shape : p[d] < shape[d]}

RowMajor(shape, p) ==
  LET at[d \in 0 .. Len(shape)] == IF d = 0 THEN 0 ELSE at[d - 1] * shape[d] + p[d]
  IN at[Len(shape)]

Element(t, p) == t.data[RowMajor(t.shape, p)]

\* Where the broadcast of t reads for position p of the result: shapes are
\* aligned at their last dimension, a dimension of 1 is repeated.
Broadcast(t, p) ==
  Element(t, [d \in DOMAIN t.shape |->
                IF t.shape[d] = 1 THEN 0 ELSE p[Len(p) - Len(t.shape) + d]])

\* The last dimension of a tensor is a row.
InRow(t, p) == {[p EXCEPT ![Len(p)] = j] : j \in 0 .. t.shape[Len(p)] - 1}
RowMax(t, p) == Max({Element(t, q) : q \in InRow(t, p)})
RowSum(t, p) == MapThenSumSet(LAMBDA q : Element(t, q), InRow(t, p))
Deviation(t, p) == t.shape[Len(p)] * Element(t, p) - RowSum(t, p)
Variance(t, p) == MapThenSumSet(LAMBDA q : Deviation(t, q) * Deviation(t, q), InRow(t, p))
ExpSum(t, p) == MapThenSumSet(LAMBDA q : Exp(Element(t, q) - RowMax(t, p)), InRow(t, p))

\* The part of the window at output position p that lies in the input.
Window(w, shape, p) ==
  {k \in (0 .. w.kernel[1] - 1) \X (0 .. w.kernel[2] - 1) :
     \A d \in {1, 2} : p[d + 2] * w.stride[d] - w.pad[d] + k[d] \in 0 .. shape[d + 2] - 1}
Under(w, p, c, k) ==
  <<p[1], c, p[3] * w.stride[1] - w.pad[1] + k[1], p[4] * w.stride[2] - w.pad[2] + k[2]>>

Convolution(w, in, p) ==
  LET taps == (0 .. in[1].shape[2] - 1) \X Window(w, in[1].shape, p)
  IN MapThenSumSet(LAMBDA a : Element(in[1], Under(w, p, a[1], a[2]))
                                * Element(in[2], <<p[2], a[1]>> \o a[2]), taps)
       + IF Len(in) = 3 THEN Element(in[3], <<p[2]>>) ELSE 0

Pooling(op, t, p) ==
  LET w == op.window
      ks == Window(w, t.shape, p) IN
  IF op.name = "MaxPool2D"
  THEN Max({Element(t, Under(w, p, p[2], k)) : k \in ks})
  ELSE Over(MapThenSumSet(LAMBDA k : Element(t, Under(w, p, p[2], k)), ks),
            IF op.count_include_pad THEN w.kernel[1] * w.kernel[2] ELSE Cardinality(ks))

\* Which input of a concatenation covers index j of its axis, and from where.
Begins(in, d, i) == MapThenSumSet(LAMBDA h : in[h].shape[d], 1 .. i - 1)
Piece(in, d, p) ==
  LET i == Max({h \in DOMAIN in : Begins(in, d, h) <= p[d] /\ in[h].shape[d] > 0})
  IN Element(in[i], [p EXCEPT ![d] = @ - Begins(in, d, i)])

\* Element p of the operator's result, given the shape of the result.
Meaning(op, in, shape, p) ==
  CASE op.name = "Add" -> Broadcast(in[1], p) + Broadcast(in[2], p)
    [] op.name = "MatMul" ->
         MapThenSumSet(LAMBDA k : Element(in[1], <<p[1], k>>) * Element(in[2], <<k, p[2]>>),
                       0 .. in[1].shape[2] - 1)
    [] op.name = "ReLU" -> Max({0, Element(in[1], p)})
    [] op.name = "Softmax" ->
         Over(Exp(Element(in[1], p) - RowMax(in[1], p)), ExpSum(in[1], p))
    [] op.name = "LayerNorm" -> Over(Deviation(in[1], p), Variance(in[1], p))
    [] op.name = "Conv2D" -> Convolution(op.window, in, p)
    [] op.name \in {"MaxPool2D", "AveragePool2D"} -> Pooling(op, in[1], p)
    [] op.name = "Concat" -> Piece(in, op.axis + 1, p)
    [] OTHER -> in[1].data[RowMajor(shape, p)]     \* Reshape, Dropout: the same data

\* data is what op makes of in, in the given shape.
Means(op, in, shape, data) ==
  /\ DOMAIN data = 0 .. Elements(shape) - 1
  /\ \A p \in Positions(shape) :
       data[RowMajor(shape, p)] = Meaning(op, in, shape, p)
=============================================================================
