---------------------------- MODULE CudaKernels ----------------------------
(***************************************************************************)
(* The kernels of src/cuda/kernels: for every launch its grid and blocks,  *)
(* and for every thread of a block what it reads and stores between two    *)
(* barriers.                                                               *)
(*                                                                         *)
(* A *segment* is the code of a thread from one __syncthreads() to the     *)
(* next; in every kernel a segment reads first and stores last.  r is what *)
(* the thread keeps in a register between segments (the mean, the          *)
(* accumulator), m the memory it reads: a function on cells.  A cell is    *)
(* the name of an array or variable with an index.  The inputs of the      *)
(* operator are read-only and not cells.                                   *)
(*                                                                         *)
(* The lanes of a warp run in step and exchange registers by shuffles, so  *)
(* in the softmax kernels a "thread" is a warp.                            *)
(***************************************************************************)
EXTENDS CpuKernels

CONSTANTS
  Block,         \* threads of a block (256), 2^Levels
  Levels,
  SoftmaxBlock,  \* the same of softmax_kernel.cu (256)
  Warp,          \* lanes of a warp (32)
  Tile,          \* TILE_SIZE, TILE (16)
  MaxBlocks,     \* the cap on the grid of add (65535)
  MaxDims,       \* MAX_DIMS (8)
  Lowest,        \* -FLT_MAX
  Junk           \* what uninitialised memory holds

ASSUME KernelAssumption ==
  /\ Levels \in Nat /\ Block = 2 ^ Levels /\ Block \in Nat \ {0}
  /\ \A l \in 0 .. Levels : Block \div 2 ^ l \in Nat \ {0}
  /\ Warp \in Nat \ {0} /\ SoftmaxBlock \in Nat \ {0}
  /\ SoftmaxBlock % Warp = 0 /\ SoftmaxBlock \div Warp <= Warp
  /\ Tile \in Nat \ {0} /\ MaxBlocks \in Nat \ {0} /\ MaxDims \in Nat
  /\ Lowest \in Int /\ Junk \in Int

\* Arrays and variables declared __shared__, of which each block has its own.
SharedNames == {"shared", "mean_shared", "inv_std_shared", "tile_A", "tile_B"}
Shared(x) == x[1] \in SharedNames

\* What memory m holds in cell x.
Held(m, x) == IF x \in DOMAIN m THEN m[x] ELSE Junk

CeilDiv(n, d) == (n + d - 1) \div d

\* The elements below n that thread i of a stride visits.
Strided(i, stride, n) == {e \in Below(n) : e % stride = i}

-----------------------------------------------------------------------------
(* A launch: c is the call of the operator, k the name of the kernel. *)

Elementwise == {"add_elementwise", "add_broadcast", "relu", "im2col", "add_bias"}
Products == {"matmul", "sgemm"}
Reductions == {"find_max", "exp_sum"}
Softmaxes == Reductions \cup {"normalize"}
Rowwise == Softmaxes \cup {"layernorm"}
Kernels == Elementwise \cup Products \cup Rowwise

\* Rows and columns of the column matrix of a convolution.
HOut(c) == OutSize(c.op.window, c.in[1], 1)
WOut(c) == OutSize(c.op.window, c.in[1], 2)
KCols(c) == c.in[1].shape[2] * c.op.window.kernel[1] * c.op.window.kernel[2]
P(c) == c.in[1].shape[1] * HOut(c) * WOut(c)

\* The matrices of a product: M x K times K x N.
Dims(c, k) ==
  IF k = "matmul" THEN <<c.in[1].shape[1], c.in[1].shape[2], c.in[2].shape[2]>>
  ELSE <<c.in[2].shape[1], KCols(c), P(c)>>

\* The elements of an elementwise launch.
Count(c, k) ==
  CASE k = "im2col" -> KCols(c) * P(c)
    [] k = "add_bias" -> c.in[2].shape[1] * P(c)
    [] OTHER -> Elements(c.out)

Grid(c, k) ==
  LET needed == CeilDiv(Count(c, k), Block) IN
  IF k \in {"add_elementwise", "add_broadcast"} /\ needed > MaxBlocks THEN MaxBlocks ELSE needed

Blocks(c, k) ==
  CASE k \in Elementwise -> Below(Grid(c, k))
    [] k \in Products -> Below(CeilDiv(Dims(c, k)[1], Tile)) \X Below(CeilDiv(Dims(c, k)[3], Tile))
    [] OTHER -> Below(Outer(c.in[1]))

Threads(k) ==
  CASE k \in Products -> Below(Tile) \X Below(Tile)
    [] k \in Softmaxes -> Below(SoftmaxBlock \div Warp)
    [] OTHER -> Below(Block)

\* LayerNorm's two reductions take Levels + 2 segments each.
Segments(c, k) ==
  CASE k \in Products -> 2 * CeilDiv(Dims(c, k)[2], Tile) + 1
    [] k \in Reductions -> 2
    [] k = "layernorm" -> 2 * (Levels + 2) + 1
    [] OTHER -> 1

\* Mutant: no barrier between thread 0 storing the mean and the others reading it.
SyncsUnlessBroadcast(c, k, s) ==
  s + 1 < Segments(c, k) /\ ~ (k = "layernorm" /\ s = Levels + 1)

\* __syncthreads() stands between any two segments.
Syncs(c, k, s) == s + 1 < Segments(c, k)

\* Mutant: threads outside the product return before its barriers.
ReturnsOutside(c, k, b, t) ==
  k = "matmul" /\ b[1] * Tile + t[1] >= Dims(c, k)[1]

\* Whether a thread finds at once that there is nothing for it.
Returns(c, k, b, t) ==
  \/ k \in {"im2col", "add_bias"} /\ b * Block + t >= Count(c, k)
  \/ k \in Rowwise /\ b >= Outer(c.in[1])

-----------------------------------------------------------------------------
(* add_elementwise_kernel, add_broadcast_kernel, relu_kernel, im2col_kernel *)
(* and add_bias_kernel: each thread has elements of its own.                *)

Visited(c, k, b, t) == Strided(b * Block + t, Grid(c, k) * Block, Count(c, k))

\* Shapes are padded on the left to MAX_DIMS.
Padded(dims) == [d \in 1 .. MaxDims - Len(dims) |-> 1] \o dims

\* The flat index in a tensor of dims for the index idx of the output.
Folded(dims, idx) ==
  LET stride[d \in 1 .. Len(dims)] == IF d = Len(dims) THEN 1 ELSE stride[d + 1] * dims[d + 1]
  IN MapThenSumSet(LAMBDA d : IF dims[d] = 1 THEN 0 ELSE idx[d] * stride[d], DOMAIN dims)

BroadcastSum(c, i) ==
  LET idx == LinearToMultiDim(i, Padded(c.out)) IN
  c.in[1].data[Folded(Padded(c.in[1].shape), idx)]
    + c.in[2].data[Folded(Padded(c.in[2].shape), idx)]

\* Element i of the column matrix: patch element i \div P at position i % P.
Patch(c, i) ==
  LET w == c.op.window
      x == c.in[1]
      k == i \div P(c)
      rem == k % (w.kernel[1] * w.kernel[2])
      p == i % P(c)
      sp == p % (HOut(c) * WOut(c))
      n == p \div (HOut(c) * WOut(c))
      ci == k \div (w.kernel[1] * w.kernel[2])
      ih == (sp \div WOut(c)) * w.stride[1] - w.pad[1] + (rem \div w.kernel[2])
      iw == (sp % WOut(c)) * w.stride[2] - w.pad[2] + (rem % w.kernel[2]) IN
  IF ih >= 0 /\ ih < x.shape[3] /\ iw >= 0 /\ iw < x.shape[4]
  THEN x.data[((n * x.shape[2] + ci) * x.shape[3] + ih) * x.shape[4] + iw]
  ELSE 0

ElementwiseValue(c, k, m, i) ==
  CASE k = "add_elementwise" -> c.in[1].data[i] + c.in[2].data[i]
    [] k = "add_broadcast" -> BroadcastSum(c, i)
    [] k = "relu" -> IF c.in[1].data[i] > 0 THEN c.in[1].data[i] ELSE 0
    [] k = "im2col" -> Patch(c, i)
    [] k = "add_bias" -> Held(m, <<"out", i>>) + c.in[3].data[i \div P(c)]

-----------------------------------------------------------------------------
(* matmul_kernel and tiled_sgemm.  Thread <<ty, tx>> of block <<by, bx>>    *)
(* loads one element of each tile, then adds up the tile's products.        *)

Row(b, t) == b[1] * Tile + t[1]
Col(b, t) == b[2] * Tile + t[2]

\* The element of A and of B that the thread loads in segment s = 2 * tile.
TileA(c, k, b, t, s) ==
  LET d == Dims(c, k)
      col == (s \div 2) * Tile + t[2]
      i == Row(b, t) * d[2] + col IN
  IF Row(b, t) < d[1] /\ col < d[2]
  THEN IF k = "matmul" THEN c.in[1].data[i] ELSE c.in[2].data[i]
  ELSE 0

TileB(c, k, b, t, s, m) ==
  LET d == Dims(c, k)
      row == (s \div 2) * Tile + t[1]
      i == row * d[3] + Col(b, t) IN
  IF row < d[2] /\ Col(b, t) < d[3]
  THEN IF k = "matmul" THEN c.in[2].data[i] ELSE Held(m, <<"col", i>>)
  ELSE 0

Accumulated(t, r, m) ==
  r + MapThenSumSet(LAMBDA i : Held(m, <<"tile_A", <<t[1], i>>>>) * Held(m, <<"tile_B", <<i, t[2]>>>>),
                    Below(Tile))

\* The last segment stores; before it, loads and sums alternate.
Loads(c, k, s) == s % 2 = 0 /\ s + 1 < Segments(c, k)

ProductReads(t, s) ==
  IF s % 2 = 1 THEN {<<"tile_A", <<t[1], i>>>> : i \in Below(Tile)}
                      \cup {<<"tile_B", <<i, t[2]>>>> : i \in Below(Tile)}
  ELSE {}

ProductWrites(c, k, b, t, s) ==
  LET d == Dims(c, k) IN
  IF Loads(c, k, s) THEN {<<"tile_A", t>>, <<"tile_B", t>>}
  ELSE IF s % 2 = 0 /\ Row(b, t) < d[1] /\ Col(b, t) < d[3]
       THEN {<<"out", Row(b, t) * d[3] + Col(b, t)>>}
       ELSE {}

-----------------------------------------------------------------------------
(* The softmax kernels: one block per row, a warp w at a time. *)

\* warpReduceMax() and warpReduceSum() of the lanes' values v: what lane 0
\* gets.  A shuffle from beyond the warp returns the lane's own value.
Combined(k, a, b) == IF k = "find_max" THEN Max({a, b}) ELSE a + b

WarpReduced(k, v) ==
  LET after[o \in 1 .. Warp] ==    \* registers after the shuffle by o
        LET u == IF 2 * o >= Warp THEN v ELSE after[2 * o]
        IN [l \in Below(Warp) |-> Combined(k, u[l], IF l + o < Warp THEN u[l + o] ELSE u[l])]
  IN after[1][0]

RowAt(c, b, i) == c.in[1].data[b * Inner(c.in[1]) + i]

\* The elements of its row that lane l of warp w visits.
LaneVisits(c, w, l) == Strided(w * Warp + l, SoftmaxBlock, Inner(c.in[1]))
WarpVisits(c, w) == UNION {LaneVisits(c, w, l) : l \in Below(Warp)}

\* What a lane has before the reduction; top is max_vals[row].
LaneValue(c, k, b, w, l, top) ==
  IF k = "find_max"
  THEN Max({Lowest} \cup {RowAt(c, b, i) : i \in LaneVisits(c, w, l)})
  ELSE MapThenSumSet(LAMBDA i : Exp(RowAt(c, b, i) - top), LaneVisits(c, w, l))

\* Second half of blockReduce: the first lanes of the block take the results
\* of the warps, the others the neutral element.
SharedValue(k, m, l) ==
  IF l < SoftmaxBlock \div Warp THEN Held(m, <<"shared", l>>)
  ELSE IF k = "find_max" THEN Lowest ELSE 0

RowOut(c, b, S) == {<<"out", b * Inner(c.in[1]) + i>> : i \in S}

SoftmaxReads(c, k, b, w, s) ==
  CASE k = "exp_sum" /\ s = 0 -> {<<"max", b>>}
    [] k = "normalize" -> {<<"sum", b>>} \cup RowOut(c, b, WarpVisits(c, w))
    [] s = 1 /\ w = 0 -> {<<"shared", l>> : l \in Below(SoftmaxBlock \div Warp)}
    [] OTHER -> {}

SoftmaxWrites(c, k, b, w, s) ==
  CASE k = "normalize" -> RowOut(c, b, WarpVisits(c, w))
    [] k \in Reductions /\ s = 0 ->
         {<<"shared", w>>} \cup IF k = "exp_sum" THEN RowOut(c, b, WarpVisits(c, w)) ELSE {}
    [] OTHER -> IF w = 0 THEN {<<IF k = "find_max" THEN "max" ELSE "sum", b>>} ELSE {}

SoftmaxValue(c, k, b, w, s, m, x) ==
  LET n == Inner(c.in[1])
      top == Held(m, <<"max", b>>)
      sum == Held(m, <<"sum", b>>) IN
  CASE k = "normalize" -> IF sum <= 0 THEN Over(1, n) ELSE Over(Held(m, x), sum)
    [] k = "exp_sum" /\ x[1] = "out" -> Exp(c.in[1].data[x[2]] - top)
    [] x[1] = "shared" -> WarpReduced(k, [l \in Below(Warp) |-> LaneValue(c, k, b, w, l, top)])
    [] OTHER -> WarpReduced(k, [l \in Below(Warp) |-> SharedValue(k, m, l)])

-----------------------------------------------------------------------------
(* layernorm_kernel: one block per row.  Pass 0 sums up the row, pass 1 the *)
(* squares; in each, step 0 stores the thread's sum, steps 1 to Levels are  *)
(* the tree of block_reduce_sum(), and in the last one thread 0 broadcasts. *)
(* Segment 0 of "pass 2" normalises.                                        *)

Pass(s) == s \div (Levels + 2)
Step(s) == s % (Levels + 2)

\* Mutant: the tree stops one level early.
HalfTwice(q) == IF q = Levels THEN 2 ELSE Block \div 2 ^ q

\* The distance of the partners in step q of the tree.
Half(q) == Block \div 2 ^ q

LayerNormReads(t, s) ==
  CASE Step(s) = 0 -> (CASE Pass(s) = 0 -> {}
                         [] Pass(s) = 1 -> {<<"mean_shared", 0>>}
                         [] OTHER -> {<<"inv_std_shared", 0>>})
    [] Step(s) \in 1 .. Levels ->
         IF t < Half(Step(s)) THEN {<<"shared", t>>, <<"shared", t + Half(Step(s))>>} ELSE {}
    [] OTHER -> {<<"shared", 0>>}

LayerNormWrites(c, b, t, s) ==
  CASE Step(s) = 0 -> IF Pass(s) < 2 THEN {<<"shared", t>>}
                      ELSE RowOut(c, b, Strided(t, Block, Inner(c.in[1])))
    [] Step(s) \in 1 .. Levels -> IF t < Half(Step(s)) THEN {<<"shared", t>>} ELSE {}
    [] OTHER -> IF t # 0 THEN {}
                ELSE {<<IF Pass(s) = 0 THEN "mean_shared" ELSE "inv_std_shared", 0>>}

\* The mean stands for the sum, the deviations are scaled by the length.
LayerNormValue(c, b, t, s, r, m, x) ==
  LET n == Inner(c.in[1])
      mine == Strided(t, Block, n)
      diff(i, mean) == n * RowAt(c, b, i) - mean
      mean1 == Held(m, <<"mean_shared", 0>>) IN
  CASE Step(s) = 0 /\ Pass(s) = 0 -> MapThenSumSet(LAMBDA i : RowAt(c, b, i), mine)
    [] Step(s) = 0 /\ Pass(s) = 1 -> MapThenSumSet(LAMBDA i : diff(i, mean1) * diff(i, mean1), mine)
    [] Step(s) = 0 -> Over(n * c.in[1].data[x[2]] - r, Held(m, <<"inv_std_shared", 0>>))
    [] Step(s) \in 1 .. Levels -> Held(m, x) + Held(m, <<"shared", t + Half(Step(s))>>)
    [] OTHER -> Held(m, <<"shared", 0>>)

-----------------------------------------------------------------------------
(* Any kernel. *)

\* The cells that thread t of block b reads and stores in segment s.
Reads(c, k, b, t, s) ==
  CASE k = "add_bias" -> {<<"out", i>> : i \in Visited(c, k, b, t)}
    [] k \in Products -> ProductReads(t, s)
    [] k \in Softmaxes -> SoftmaxReads(c, k, b, t, s)
    [] k = "layernorm" -> LayerNormReads(t, s)
    [] OTHER -> {}

Writes(c, k, b, t, s) ==
  CASE k \in Elementwise ->
         {<<IF k = "im2col" THEN "col" ELSE "out", i>> : i \in Visited(c, k, b, t)}
    [] k \in Products -> ProductWrites(c, k, b, t, s)
    [] k \in Softmaxes -> SoftmaxWrites(c, k, b, t, s)
    [] OTHER -> LayerNormWrites(c, b, t, s)

\* What it stores in cell x of these.
Value(c, k, b, t, s, r, m, x) ==
  CASE k \in Elementwise -> ElementwiseValue(c, k, m, x[2])
    [] k \in Products -> (CASE x[1] = "tile_A" -> TileA(c, k, b, t, s)
                            [] x[1] = "tile_B" -> TileB(c, k, b, t, s, m)
                            [] OTHER -> r)
    [] k \in Softmaxes -> SoftmaxValue(c, k, b, t, s, m, x)
    [] OTHER -> LayerNormValue(c, b, t, s, r, m, x)

\* Its register after segment s.
Register(k, t, s, r, m) ==
  CASE k \in Products /\ s % 2 = 1 -> Accumulated(t, r, m)
    [] k = "layernorm" /\ Step(s) = 0 /\ Pass(s) = 1 -> Held(m, <<"mean_shared", 0>>)
    [] OTHER -> r
=============================================================================
