----------------------------- MODULE CpuKernels -----------------------------
(***************************************************************************)
(* executeCPU() of every operator: what its loops store at which flat      *)
(* index.  A loop nest is the set of its iterations, each of which stores  *)
(* one value; the order of the iterations does not matter since no index   *)
(* is stored to twice by different iterations.                             *)
(***************************************************************************)
EXTENDS TensorMath

\* What the stores <<index, value>> leave in the output.
Stored(stores) ==
  [i \in {s[1] : s \in stores} |-> (CHOOSE s \in stores : s[1] = i)[2]]

Below(n) == 0 .. n - 1

-----------------------------------------------------------------------------
(* AddOp *)

\* computeStrides(), row-major
Strides(dims) ==
  LET st[d \in 1 .. Len(dims)] ==
        IF d = Len(dims) THEN 1 ELSE (st[d + 1] * dims[d + 1]) % Wide
  IN st

FlatIndex(dims, idx) ==
  MapThenSumSet(LAMBDA d : idx[d] * Strides(dims)[d], DOMAIN dims) % Wide

LinearToMultiDim(linear, dims) ==
  LET rest[d \in 1 .. Len(dims)] ==
        IF d = Len(dims) THEN linear ELSE rest[d + 1] \div dims[d + 1]
  IN [d \in DOMAIN dims |-> rest[d] % dims[d]]

BroadcastIndex(idx, dims) ==
  [d \in DOMAIN dims |-> IF dims[d] = 1 THEN 0 ELSE idx[Len(idx) - Len(dims) + d]]

AddBroadcast(a, b, shape) ==
  [i \in Below(Elements(shape)) |->
     LET idx == LinearToMultiDim(i, shape) IN
     a.data[FlatIndex(a.shape, BroadcastIndex(idx, a.shape))]
       + b.data[FlatIndex(b.shape, BroadcastIndex(idx, b.shape))]]

AddCpu(a, b, shape) ==
  IF Elements(a.shape) = Elements(b.shape) /\ Elements(a.shape) = Elements(shape)
  THEN [i \in Below(Elements(shape)) |-> a.data[i] + b.data[i]]
  ELSE AddBroadcast(a, b, shape)

-----------------------------------------------------------------------------
(* MatMulOp, ReLUOp *)

\* The zeros stored first are all overwritten.
MatMulCpu(a, b) ==
  LET K == a.shape[2]
      N == b.shape[2] IN
  Stored({<<i * N + j,
            MapThenSumSet(LAMBDA k : a.data[i * K + k] * b.data[k * N + j], Below(K))>> :
          i \in Below(a.shape[1]), j \in Below(N)})

ReLUCpu(x) == [i \in Below(Elements(x.shape)) |-> IF x.data[i] > 0 THEN x.data[i] ELSE 0]

-----------------------------------------------------------------------------
(* SoftmaxOp and LayerNormOp work on the rows of the last dimension, one    *)
(* after the other.                                                         *)

Inner(x) == x.shape[Len(x.shape)]
Outer(x) == IF Len(x.shape) = 1 THEN 1 ELSE Elements(x.shape) \div Inner(x)

\* applySoftmax1D() of the row that starts at o
SoftmaxRow(x, o, n) ==
  LET max == Max({x.data[o + i] : i \in Below(n)})
      e(i) == Exp(x.data[o + i] - max)
      sum == MapThenSumSet(e, Below(n)) IN
  {<<o + i, IF sum > 0 THEN Over(e(i), sum) ELSE Over(1, n)>> : i \in Below(n)}

\* applyLayerNorm1D(); sum stands for the mean.
LayerNormRow(x, o, n) ==
  LET sum == MapThenSumSet(LAMBDA i : x.data[o + i], Below(n))
      diff(i) == n * x.data[o + i] - sum
      squares == MapThenSumSet(LAMBDA i : diff(i) * diff(i), Below(n)) IN
  {<<o + i, Over(diff(i), squares)>> : i \in Below(n)}

RowsCpu(name, x) ==
  LET n == Inner(x) IN
  Stored(UNION {IF name = "Softmax" THEN SoftmaxRow(x, r * n, n) ELSE LayerNormRow(x, r * n, n) :
                r \in Below(Outer(x))})

-----------------------------------------------------------------------------
(* Conv2DOp and the two pools *)

\* The number of positions of the window, in int arithmetic.
OutSize(w, x, d) == (x.shape[d + 2] + 2 * w.pad[d] - w.kernel[d]) \div w.stride[d] + 1

\* <<kh, kw>> of the window at <<oh, ow>> that the loops do not skip.
Taken(w, x, oh, ow) ==
  {k \in Below(w.kernel[1]) \X Below(w.kernel[2]) :
     LET ih == oh * w.stride[1] - w.pad[1] + k[1]
         iw == ow * w.stride[2] - w.pad[2] + k[2]
     IN ih >= 0 /\ ih < x.shape[3] /\ iw >= 0 /\ iw < x.shape[4]}

\* Index of the input element under <<kh, kw>> in plane nc = n * C + c.
InputAt(w, x, nc, oh, ow, k) ==
  (nc * x.shape[3] + oh * w.stride[1] - w.pad[1] + k[1]) * x.shape[4]
    + ow * w.stride[2] - w.pad[2] + k[2]

Conv2DCpu(w, in) ==
  LET x == in[1]
      C == x.shape[2]
      Cout == in[2].shape[1]
      Ho == OutSize(w, x, 1)
      Wo == OutSize(w, x, 2)
      Sum(n, co, oh, ow) ==
        MapThenSumSet(LAMBDA a : x.data[InputAt(w, x, n * C + a[1], oh, ow, a[2])]
                        * in[2].data[((co * C + a[1]) * w.kernel[1] + a[2][1]) * w.kernel[2] + a[2][2]],
                      Below(C) \X Taken(w, x, oh, ow)) IN
  Stored({<<((n * Cout + co) * Ho + oh) * Wo + ow,
            Sum(n, co, oh, ow) + IF Len(in) = 3 THEN in[3].data[co] ELSE 0>> :
          n \in Below(x.shape[1]), co \in Below(Cout), oh \in Below(Ho), ow \in Below(Wo)})

\* One element of a pool.
PooledValue(op, x, nc, oh, ow) ==
  LET w == op.window
      ks == Taken(w, x, oh, ow)
      sum == MapThenSumSet(LAMBDA k : x.data[InputAt(w, x, nc, oh, ow, k)], ks) IN
  IF op.name = "MaxPool2D"
  THEN Max({x.data[InputAt(w, x, nc, oh, ow, k)] : k \in ks})
  ELSE IF op.count_include_pad THEN Over(sum, w.kernel[1] * w.kernel[2])
       ELSE IF ks # {} THEN Over(sum, Cardinality(ks)) ELSE 0

PoolCpu(op, x, shape) ==
  Stored({<<(nc * shape[3] + oh) * shape[4] + ow, PooledValue(op, x, nc, oh, ow)>> :
          nc \in Below(x.shape[1] * x.shape[2]), oh \in Below(shape[3]), ow \in Below(shape[4])})

-----------------------------------------------------------------------------
(* ConcatOp copies one slice of every input per outer slice; ReshapeOp and *)
(* DropoutOp copy the data.                                                *)

ConcatCpu(op, in) ==
  LET d == op.axis + 1
      dims == in[1].shape
      outer == Elements(SubSeq(dims, 1, d - 1))
      inner == Elements(SubSeq(dims, d + 1, Len(dims)))
      slice == [i \in DOMAIN in |-> in[i].shape[d] * inner]
      before(i) == MapThenSumSet(LAMBDA h : slice[h], 1 .. i - 1)
      whole == before(Len(in) + 1) IN
  Stored(UNION {{<<o * whole + before(i) + e, in[i].data[o * slice[i] + e]>> : e \in Below(slice[i])} :
                o \in Below(outer), i \in DOMAIN in})

ExecuteCpu(op, in, shape) ==
  CASE op.name = "Add" -> AddCpu(in[1], in[2], shape)
    [] op.name = "MatMul" -> MatMulCpu(in[1], in[2])
    [] op.name = "ReLU" -> ReLUCpu(in[1])
    [] op.name \in {"Softmax", "LayerNorm"} -> RowsCpu(op.name, in[1])
    [] op.name = "Conv2D" -> Conv2DCpu(op.window, in)
    [] op.name \in {"MaxPool2D", "AveragePool2D"} -> PoolCpu(op, in[1], shape)
    [] op.name = "Concat" -> ConcatCpu(op, in)
    [] OTHER -> in[1].data
=============================================================================
