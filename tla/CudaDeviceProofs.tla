-------------------------- MODULE CudaDeviceProofs --------------------------
(***************************************************************************)
(* Theorems about CudaDevice, for every operator call, block, tile and     *)
(* warp size.                                                              *)
(***************************************************************************)
EXTENDS CudaDevice, TLAPS

-----------------------------------------------------------------------------
(* Indices *)

\* A quotient and a remainder are told from their number.
LEMMA Digits ==
  ASSUME NEW n \in Nat \ {0}, NEW q \in Int, NEW r \in 0 .. n - 1,
         NEW p \in Int, NEW s \in 0 .. n - 1,
         q * n + r = p * n + s
  PROVE  q = p /\ r = s
<1>1. ~ q < p
  <2> SUFFICES ASSUME q < p PROVE FALSE
    OBVIOUS
  <2>1. (p - q - 1) * n >= 0
    OBVIOUS
  <2>2. (p - q - 1) * n = p * n - q * n - n
    OBVIOUS
  <2> QED BY <2>1, <2>2
<1>2. ~ p < q
  <2> SUFFICES ASSUME p < q PROVE FALSE
    OBVIOUS
  <2>1. (q - p - 1) * n >= 0
    OBVIOUS
  <2>2. (q - p - 1) * n = q * n - p * n - n
    OBVIOUS
  <2> QED BY <2>1, <2>2
<1> QED BY <1>1, <1>2

LEMMA Sizes ==
  /\ Block \in Nat \ {0} /\ Tile \in Nat \ {0} /\ Warp \in Nat \ {0}
  /\ SoftmaxBlock \in Nat \ {0}
  /\ \A q \in 0 .. Levels : Half(q) \in Nat \ {0}
<1>1. \A q \in 0 .. Levels : Half(q) \in Nat \ {0}
  BY KernelAssumption DEF Half
<1>2. Block \in Nat \ {0}
  BY KernelAssumption
<1> QED BY <1>1, <1>2, KernelAssumption

-----------------------------------------------------------------------------
(* Accesses of the threads of a launch *)

\* The cells that thread t of block b reads or stores to in segment s.
Footprint(c, k, b, t, s) == Reads(c, k, b, t, s) \cup Writes(c, k, b, t, s)

\* The assumption on a kernel, and where its threads are.
Known(c, k) ==
  /\ k \in Elementwise => Count(c, k) \in Nat
  /\ k \in Products => Dims(c, k) \in Nat \X Nat \X Nat
  /\ k \in Rowwise => Inner(c.in[1]) \in Nat /\ Outer(c.in[1]) \in Nat

\* No two threads of a launch have a cell of device memory of which one
\* stores to it.
DeviceDisjoint(c, k) ==
  \A b, d \in Blocks(c, k) : \A t, u \in Threads(k) :
    \A s, r \in 0 .. Segments(c, k) - 1 :
      \A x \in Writes(c, k, b, t, s) \cap Footprint(c, k, d, u, r) :
        ~ Shared(x) => b = d /\ t = u

\* No two threads of a block have a cell of shared memory in the same segment
\* of which one stores to it.
SharedDisjoint(c, k) ==
  \A b \in Blocks(c, k) : \A t, u \in Threads(k) :
    \A s \in 0 .. Segments(c, k) - 1 :
      \A x \in Writes(c, k, b, t, s) \cap Footprint(c, k, b, u, s) :
        Shared(x) => t = u

LEMMA CeilDivInt ==
  ASSUME NEW n \in Nat, NEW d \in Nat \ {0}
  PROVE  CeilDiv(n, d) \in Nat
<1>1. n + d - 1 \in Nat
  OBVIOUS
<1> QED BY <1>1 DEF CeilDiv

LEMMA GridInt ==
  ASSUME NEW c, NEW k \in Elementwise, Known(c, k)
  PROVE  Grid(c, k) \in Int
BY CeilDivInt, Sizes, KernelAssumption DEF Grid, Known

LEMMA ElementwiseDisjoint ==
  ASSUME NEW c, NEW k \in Elementwise, Known(c, k)
  PROVE  DeviceDisjoint(c, k) /\ SharedDisjoint(c, k)
<1> USE DEF Elementwise
<1>1. ASSUME NEW b, NEW t, NEW s, NEW x \in Footprint(c, k, b, t, s)
      PROVE  x[1] \in {"col", "out"} /\ x[2] \in Visited(c, k, b, t)
  BY DEF Footprint, Reads, Writes, Products, Softmaxes, Reductions
<1>2. ASSUME NEW b \in Blocks(c, k), NEW d \in Blocks(c, k), NEW t \in Threads(k), NEW u \in Threads(k),
             NEW e \in Visited(c, k, b, t), e \in Visited(c, k, d, u)
      PROVE  b = d /\ t = u
  <2>1. b * Block + t = d * Block + u
    BY <1>2 DEF Visited, Strided
  <2>2. b \in Int /\ d \in Int
    <3>1. Blocks(c, k) = 0 .. Grid(c, k) - 1
      BY DEF Blocks, Below, Products
    <3>2. Grid(c, k) \in Int
      BY GridInt
    <3> QED BY <3>1, <3>2
  <2>3. t \in 0 .. Block - 1 /\ u \in 0 .. Block - 1
    BY DEF Threads, Below, Products, Softmaxes, Reductions
  <2> QED BY <2>1, <2>2, <2>3, Digits, Sizes
<1>3. SharedDisjoint(c, k)
  BY <1>1 DEF SharedDisjoint, Footprint, Shared, SharedNames
<1>4. DeviceDisjoint(c, k)
  <2> SUFFICES ASSUME NEW b \in Blocks(c, k), NEW d \in Blocks(c, k),
                      NEW t \in Threads(k), NEW u \in Threads(k),
                      NEW s \in 0 .. Segments(c, k) - 1, NEW r \in 0 .. Segments(c, k) - 1,
                      NEW x \in Footprint(c, k, b, t, s), x \in Footprint(c, k, d, u, r)
               PROVE  b = d /\ t = u
    BY DEF DeviceDisjoint, Footprint
  <2>1. x[2] \in Visited(c, k, b, t) /\ x[2] \in Visited(c, k, d, u)
    BY <1>1
  <2> QED BY <2>1, <1>2
<1> QED BY <1>3, <1>4

LEMMA ProductBlocks ==
  ASSUME NEW c, NEW k \in Products, Known(c, k), NEW b \in Blocks(c, k)
  PROVE  b[1] \in Nat /\ b[2] \in Nat /\ b = <<b[1], b[2]>>
<1>1. Dims(c, k)[1] \in Nat /\ Dims(c, k)[3] \in Nat
  BY DEF Known
<1>2. CeilDiv(Dims(c, k)[1], Tile) \in Int /\ CeilDiv(Dims(c, k)[3], Tile) \in Int
  BY <1>1, CeilDivInt, Sizes
<1>3. Blocks(c, k) = (0 .. CeilDiv(Dims(c, k)[1], Tile) - 1) \X (0 .. CeilDiv(Dims(c, k)[3], Tile) - 1)
  BY DEF Blocks, Below, Elementwise, Products
<1> QED BY <1>2, <1>3

\* The element of the product that is a thread's.
OutCell(c, k, b, t) == <<"out", Row(b, t) * Dims(c, k)[3] + Col(b, t)>>

\* A segment of a product either reads tiles or stores, and stores its own
\* tile elements or its element of the product.
LEMMA ProductFootprint ==
  ASSUME NEW c, NEW k \in Products, NEW b, NEW t, NEW s \in Int
  PROVE  /\ s % 2 \in {0, 1}
         /\ s % 2 = 1 => Writes(c, k, b, t, s) = {}
         /\ s % 2 = 0 => Footprint(c, k, b, t, s) = Writes(c, k, b, t, s)
         /\ \A x \in Footprint(c, k, b, t, s) : s % 2 = 1 => x[1] \in {"tile_A", "tile_B"}
         /\ \A x \in Writes(c, k, b, t, s) :
              \/ x \in {<<"tile_A", t>>, <<"tile_B", t>>}
              \/ x = OutCell(c, k, b, t) /\ Col(b, t) < Dims(c, k)[3]
<1>1. /\ Reads(c, k, b, t, s) = ProductReads(t, s)
      /\ Writes(c, k, b, t, s) = ProductWrites(c, k, b, t, s)
  BY DEF Reads, Writes, Elementwise, Products, Softmaxes, Reductions
<1>2. s % 2 \in {0, 1}
  OBVIOUS
<1>3. s % 2 = 1 => Writes(c, k, b, t, s) = {}
  BY <1>1 DEF ProductWrites, Loads
<1>4. s % 2 = 0 => Reads(c, k, b, t, s) = {}
  BY <1>1 DEF ProductReads
<1>5. \A x \in Reads(c, k, b, t, s) : x[1] \in {"tile_A", "tile_B"}
  BY <1>1 DEF ProductReads
<1>6. \A x \in Writes(c, k, b, t, s) :
        \/ x \in {<<"tile_A", t>>, <<"tile_B", t>>}
        \/ x = OutCell(c, k, b, t) /\ Col(b, t) < Dims(c, k)[3]
  BY <1>1 DEF ProductWrites, OutCell
<1> QED BY <1>2, <1>3, <1>4, <1>5, <1>6 DEF Footprint

LEMMA ProductsDisjoint ==
  ASSUME NEW c, NEW k \in Products, Known(c, k)
  PROVE  DeviceDisjoint(c, k) /\ SharedDisjoint(c, k)
<1>1. Dims(c, k) \in Nat \X Nat \X Nat
  BY DEF Known
<1>2. SharedDisjoint(c, k)
  <2> SUFFICES ASSUME NEW b \in Blocks(c, k), NEW t \in Threads(k), NEW u \in Threads(k),
                      NEW s \in 0 .. Segments(c, k) - 1,
                      NEW x \in Writes(c, k, b, t, s), x \in Footprint(c, k, b, u, s), Shared(x)
               PROVE  t = u
    BY DEF SharedDisjoint
  <2>1. s \in Int /\ x \in Footprint(c, k, b, t, s)
    BY DEF Footprint
  <2>2. s % 2 = 0
    BY <2>1, ProductFootprint
  <2>3. x \in Writes(c, k, b, u, s)
    BY <2>1, <2>2, ProductFootprint
  <2>4. x # OutCell(c, k, b, t) /\ x # OutCell(c, k, b, u)
    BY DEF OutCell, Shared, SharedNames
  <2>5. x \in {<<"tile_A", t>>, <<"tile_B", t>>}
    BY <2>1, <2>4, ProductFootprint
  <2>6. x \in {<<"tile_A", u>>, <<"tile_B", u>>}
    BY <2>1, <2>3, <2>4, ProductFootprint
  <2> QED BY <2>5, <2>6
<1>3. DeviceDisjoint(c, k)
  <2> SUFFICES ASSUME NEW b \in Blocks(c, k), NEW d \in Blocks(c, k),
                      NEW t \in Threads(k), NEW u \in Threads(k),
                      NEW s \in 0 .. Segments(c, k) - 1, NEW r \in 0 .. Segments(c, k) - 1,
                      NEW x \in Writes(c, k, b, t, s) \cap Footprint(c, k, d, u, r), ~ Shared(x)
               PROVE  b = d /\ t = u
    BY DEF DeviceDisjoint
  <2> DEFINE n == Dims(c, k)[3]
  <2>0. ASSUME NEW e, NEW v, NEW q \in Int, x \in Footprint(c, k, e, v, q)
        PROVE  x = OutCell(c, k, e, v) /\ Col(e, v) < n
    <3>1. x[1] \notin {"tile_A", "tile_B"}
      BY DEF Shared, SharedNames
    <3>2. q % 2 = 0
      BY <2>0, <3>1, ProductFootprint
    <3>3. x \in Writes(c, k, e, v, q)
      BY <2>0, <3>2, ProductFootprint
    <3>4. x \notin {<<"tile_A", v>>, <<"tile_B", v>>}
      BY <3>1
    <3> QED BY <3>3, <3>4, ProductFootprint
  <2>1. /\ x = OutCell(c, k, b, t) /\ Col(b, t) < n
        /\ x = OutCell(c, k, d, u) /\ Col(d, u) < n
    BY <2>0 DEF Footprint
  <2>2. n \in Nat
    BY <1>1
  <2>3. /\ b[1] \in Nat /\ b[2] \in Nat /\ b = <<b[1], b[2]>>
        /\ d[1] \in Nat /\ d[2] \in Nat /\ d = <<d[1], d[2]>>
    BY ProductBlocks
  <2>4. /\ t[1] \in 0 .. Tile - 1 /\ t[2] \in 0 .. Tile - 1 /\ t = <<t[1], t[2]>>
        /\ u[1] \in 0 .. Tile - 1 /\ u[2] \in 0 .. Tile - 1 /\ u = <<u[1], u[2]>>
    BY DEF Threads, Products, Softmaxes, Reductions, Below
  <2>5. /\ Row(b, t) \in Nat /\ Col(b, t) \in Nat
        /\ Row(d, u) \in Nat /\ Col(d, u) \in Nat
    BY <2>3, <2>4, Sizes DEF Row, Col
  <2>6. Row(b, t) * n + Col(b, t) = Row(d, u) * n + Col(d, u)
    BY <2>1 DEF OutCell
  <2> HIDE DEF n
  <2>7. Row(b, t) = Row(d, u) /\ Col(b, t) = Col(d, u)
    <3>1. /\ n \in Nat \ {0} /\ Row(b, t) \in Int /\ Row(d, u) \in Int
          /\ Col(b, t) \in 0 .. n - 1 /\ Col(d, u) \in 0 .. n - 1
      BY <2>1, <2>2, <2>5
    <3> QED BY <3>1, <2>6, Digits
  <2>8. b[1] * Tile + t[1] = d[1] * Tile + u[1] /\ b[2] * Tile + t[2] = d[2] * Tile + u[2]
    BY <2>7 DEF Row, Col
  <2>9. b[1] = d[1] /\ t[1] = u[1]
    BY <2>3, <2>4, <2>8, Digits, Sizes
  <2>10. b[2] = d[2] /\ t[2] = u[2]
    BY <2>3, <2>4, <2>8, Digits, Sizes
  <2> QED BY <2>3, <2>4, <2>9, <2>10
<1> QED BY <1>2, <1>3

\* The elements of two rows are told from each other.
LEMMA RowsApart ==
  ASSUME NEW c, Inner(c.in[1]) \in Nat, NEW b \in Int, NEW d \in Int,
         NEW S, NEW R, S \subseteq Below(Inner(c.in[1])), R \subseteq Below(Inner(c.in[1])),
         NEW x \in RowOut(c, b, S), x \in RowOut(c, d, R)
  PROVE  b = d /\ S \cap R # {}
<1> DEFINE n == Inner(c.in[1])
<1>1. PICK i \in S : x = <<"out", b * n + i>>
  BY DEF RowOut
<1>2. PICK j \in R : x = <<"out", d * n + j>>
  BY DEF RowOut
<1>3. i \in 0 .. n - 1 /\ j \in 0 .. n - 1 /\ n \in Nat
  BY DEF Below
<1>4. b * n + i = d * n + j
  BY <1>1, <1>2
<1> HIDE DEF n
<1>5. n \in Nat \ {0}
  BY <1>3
<1>6. b = d /\ i = j
  BY <1>3, <1>4, <1>5, Digits
<1> QED BY <1>6

LEMMA WarpsApart ==
  ASSUME NEW c, NEW w \in Int, NEW v \in Int, WarpVisits(c, w) \cap WarpVisits(c, v) # {}
  PROVE  w = v
<1>1. PICK i : i \in WarpVisits(c, w) /\ i \in WarpVisits(c, v)
  OBVIOUS
<1>2. PICK l \in Below(Warp) : i % SoftmaxBlock = w * Warp + l
  BY <1>1 DEF WarpVisits, LaneVisits, Strided
<1>3. PICK m \in Below(Warp) : i % SoftmaxBlock = v * Warp + m
  BY <1>1 DEF WarpVisits, LaneVisits, Strided
<1>4. w * Warp + l = v * Warp + m
  BY <1>2, <1>3
<1> QED BY <1>4, Digits, Sizes DEF Below

\* A warp stores its elements of the row, its slot of shared[], and warp 0 the
\* result of the row; only warp 0 reads shared[], after the barrier.
LEMMA SoftmaxFootprint ==
  ASSUME NEW c, NEW k \in Softmaxes, NEW b, NEW w, NEW s \in 0 .. Segments(c, k) - 1
  PROVE  /\ \A x \in Writes(c, k, b, w, s) :
              \/ x \in RowOut(c, b, WarpVisits(c, w))
              \/ x = <<"shared", w>> /\ s = 0
              \/ x = <<"max", b>> /\ w = 0 /\ k = "find_max"
              \/ x = <<"sum", b>> /\ w = 0 /\ k = "exp_sum"
         /\ \A x \in Reads(c, k, b, w, s) :
              \/ x \in RowOut(c, b, WarpVisits(c, w))
              \/ x[1] = "shared" /\ s = 1
              \/ x = <<"max", b>> /\ k = "exp_sum"
              \/ x = <<"sum", b>> /\ k = "normalize"
<1>1. /\ Reads(c, k, b, w, s) = SoftmaxReads(c, k, b, w, s)
      /\ Writes(c, k, b, w, s) = SoftmaxWrites(c, k, b, w, s)
  BY DEF Reads, Writes, Elementwise, Products, Softmaxes, Reductions
<1>2. /\ k = "normalize" => s = 0
      /\ s \in {0, 1}
  BY DEF Segments, Products, Softmaxes, Reductions
<1>3. \A x \in SoftmaxWrites(c, k, b, w, s) :
        \/ x \in RowOut(c, b, WarpVisits(c, w))
        \/ x = <<"shared", w>> /\ s = 0
        \/ x = <<"max", b>> /\ w = 0 /\ k = "find_max"
        \/ x = <<"sum", b>> /\ w = 0 /\ k = "exp_sum"
  BY <1>2 DEF SoftmaxWrites, Softmaxes, Reductions
<1>4. \A x \in SoftmaxReads(c, k, b, w, s) :
        \/ x \in RowOut(c, b, WarpVisits(c, w))
        \/ x[1] = "shared" /\ s = 1
        \/ x = <<"max", b>> /\ k = "exp_sum"
        \/ x = <<"sum", b>> /\ k = "normalize"
  BY <1>2 DEF SoftmaxReads, Softmaxes, Reductions
<1> QED BY <1>1, <1>3, <1>4

LEMMA SoftmaxDisjoint ==
  ASSUME NEW c, NEW k \in Softmaxes, Known(c, k)
  PROVE  DeviceDisjoint(c, k) /\ SharedDisjoint(c, k)
<1>1. Inner(c.in[1]) \in Nat /\ Outer(c.in[1]) \in Nat
  BY DEF Known, Rowwise
<1>2. Blocks(c, k) \subseteq Int /\ Threads(k) \subseteq Int
  <2>1. Blocks(c, k) = 0 .. Outer(c.in[1]) - 1
    BY DEF Blocks, Below, Elementwise, Products, Softmaxes, Reductions
  <2>2. Threads(k) = 0 .. (SoftmaxBlock \div Warp) - 1
    BY DEF Threads, Below, Products, Softmaxes, Reductions
  <2> QED BY <2>1, <2>2, <1>1, Sizes
<1>3. \A w : WarpVisits(c, w) \subseteq Below(Inner(c.in[1]))
  BY DEF WarpVisits, LaneVisits, Strided
<1>4. \A b, S : \A x \in RowOut(c, b, S) : x[1] = "out"
  BY DEF RowOut
<1>5. SharedDisjoint(c, k)
  <2> SUFFICES ASSUME NEW b \in Blocks(c, k), NEW t \in Threads(k), NEW u \in Threads(k),
                      NEW s \in 0 .. Segments(c, k) - 1,
                      NEW x \in Writes(c, k, b, t, s) \cap Footprint(c, k, b, u, s), Shared(x)
               PROVE  t = u
    BY DEF SharedDisjoint
  <2>1. x[1] \notin {"out", "max", "sum"}
    BY DEF Shared, SharedNames
  <2>2. x = <<"shared", t>> /\ s = 0
    BY <1>4, <2>1, SoftmaxFootprint
  <2>3. x = <<"shared", u>>
    BY <1>4, <2>1, <2>2, SoftmaxFootprint DEF Footprint
  <2> QED BY <2>2, <2>3
<1>6. DeviceDisjoint(c, k)
  <2> SUFFICES ASSUME NEW b \in Blocks(c, k), NEW d \in Blocks(c, k),
                      NEW t \in Threads(k), NEW u \in Threads(k),
                      NEW s \in 0 .. Segments(c, k) - 1, NEW r \in 0 .. Segments(c, k) - 1,
                      NEW x \in Writes(c, k, b, t, s) \cap Footprint(c, k, d, u, r), ~ Shared(x)
               PROVE  b = d /\ t = u
    BY DEF DeviceDisjoint
  <2>1. x[1] # "shared"
    BY DEF Shared, SharedNames
  <2>2. \/ x \in RowOut(c, b, WarpVisits(c, t))
        \/ x = <<"max", b>> /\ t = 0 /\ k = "find_max"
        \/ x = <<"sum", b>> /\ t = 0 /\ k = "exp_sum"
    BY <2>1, SoftmaxFootprint
  <2>3. \/ x \in RowOut(c, d, WarpVisits(c, u))
        \/ x = <<"max", d>> /\ (u = 0 \/ k = "exp_sum")
        \/ x = <<"sum", d>> /\ (u = 0 \/ k = "normalize")
    BY <2>1, SoftmaxFootprint DEF Footprint
  <2>4. CASE x[1] = "out"
    <3>1. x \in RowOut(c, b, WarpVisits(c, t)) /\ x \in RowOut(c, d, WarpVisits(c, u))
      BY <2>2, <2>3, <2>4
    <3>2. b = d /\ WarpVisits(c, t) \cap WarpVisits(c, u) # {}
      BY <3>1, <1>1, <1>2, <1>3, RowsApart
    <3> QED BY <3>2, <1>2, WarpsApart
  <2>5. CASE x[1] # "out"
    BY <1>4, <2>2, <2>3, <2>5
  <2> QED BY <2>4, <2>5
<1> QED BY <1>5, <1>6

\* The slot that a thread adds to its own.
Partner(t, s) == <<"shared", t + Half(Step(s))>>

\* A step of a reduction stores to a thread's own slot of shared[], and what it
\* reads of others lies in the half that no thread stores to in this step.
LEMMA LayerNormStep ==
  ASSUME NEW s \in Nat
  PROVE  Step(s) \in 0 .. Levels + 1 /\ Levels \in Nat
<1>1. Levels \in Nat
  BY KernelAssumption
<1> QED BY <1>1 DEF Step

LEMMA LayerNormStores ==
  ASSUME NEW c, NEW b, NEW t \in Nat, NEW s \in Nat, NEW x \in LayerNormWrites(c, b, t, s)
  PROVE  \/ Step(s) = 0 /\ x = <<"shared", t>>
         \/ Step(s) = 0 /\ x \in RowOut(c, b, Strided(t, Block, Inner(c.in[1])))
         \/ Step(s) \in 1 .. Levels /\ t < Half(Step(s)) /\ x = <<"shared", t>>
         \/ Step(s) = Levels + 1 /\ t = 0 /\ x[1] \in {"mean_shared", "inv_std_shared"}
<1>1. CASE Step(s) = 0
  BY <1>1, LayerNormStep DEF LayerNormWrites
<1>2. CASE Step(s) \in 1 .. Levels
  BY <1>2, LayerNormStep DEF LayerNormWrites
<1>3. CASE Step(s) = Levels + 1
  BY <1>3, LayerNormStep DEF LayerNormWrites
<1> QED BY <1>1, <1>2, <1>3, LayerNormStep

LEMMA LayerNormLoads ==
  ASSUME NEW t \in Nat, NEW s \in Nat, NEW x \in LayerNormReads(t, s)
  PROVE  \/ Step(s) = 0 /\ x[1] \in {"mean_shared", "inv_std_shared"}
         \/ Step(s) \in 1 .. Levels /\ x = <<"shared", t>>
         \/ Step(s) \in 1 .. Levels /\ x = Partner(t, s)
         \/ Step(s) = Levels + 1 /\ x = <<"shared", 0>>
<1>1. CASE Step(s) = 0
  <2>1. Pass(s) = 0 \/ Pass(s) = 1 \/ Pass(s) \notin {0, 1}
    OBVIOUS
  <2> QED BY <1>1, <2>1, LayerNormStep DEF LayerNormReads
<1>2. CASE Step(s) \in 1 .. Levels
  BY <1>2, LayerNormStep DEF LayerNormReads, Partner
<1>3. CASE Step(s) = Levels + 1
  BY <1>3, LayerNormStep DEF LayerNormReads
<1> QED BY <1>1, <1>2, <1>3, LayerNormStep

LEMMA LayerNormDisjoint ==
  ASSUME NEW c, NEW k, k = "layernorm", Known(c, k)
  PROVE  DeviceDisjoint(c, k) /\ SharedDisjoint(c, k)
<1>1. Inner(c.in[1]) \in Nat /\ Outer(c.in[1]) \in Nat
  BY DEF Known, Rowwise
<1>2. Blocks(c, k) \subseteq Int /\ Threads(k) = 0 .. Block - 1
  <2>1. Blocks(c, k) = 0 .. Outer(c.in[1]) - 1
    BY DEF Blocks, Below, Elementwise, Products
  <2> QED BY <2>1, <1>1 DEF Threads, Below, Products, Softmaxes, Reductions
<1>3. \A b, t, s : /\ Writes(c, k, b, t, s) = LayerNormWrites(c, b, t, s)
                   /\ Footprint(c, k, b, t, s) =
                        LayerNormReads(t, s) \cup LayerNormWrites(c, b, t, s)
  BY DEF Footprint, Reads, Writes, Elementwise, Products, Softmaxes, Reductions
<1>4. \A b, S : \A x \in RowOut(c, b, S) : x[1] = "out"
  BY DEF RowOut
<1>5. SharedDisjoint(c, k)
  <2> SUFFICES ASSUME NEW b \in Blocks(c, k), NEW t \in Threads(k), NEW u \in Threads(k),
                      NEW s \in 0 .. Segments(c, k) - 1,
                      NEW x \in Writes(c, k, b, t, s) \cap Footprint(c, k, b, u, s), Shared(x)
               PROVE  t = u
    BY DEF SharedDisjoint
  <2>1. s \in Nat /\ t \in Nat /\ u \in Nat
    BY <1>2, Sizes
  <2>2. x[1] # "out"
    BY DEF Shared, SharedNames
  <2>3. x \in LayerNormWrites(c, b, t, s) /\ x \in LayerNormReads(u, s) \cup LayerNormWrites(c, b, u, s)
    BY <1>3
  <2>4. Step(s) \in 0 .. Levels + 1 /\ Levels \in Nat
    BY <2>1, LayerNormStep
  <2>5. \/ Step(s) = 0 /\ x = <<"shared", t>>
        \/ Step(s) \in 1 .. Levels /\ t < Half(Step(s)) /\ x = <<"shared", t>>
        \/ Step(s) = Levels + 1 /\ t = 0 /\ x[1] \in {"mean_shared", "inv_std_shared"}
    <3>1. x \notin RowOut(c, b, Strided(t, Block, Inner(c.in[1])))
      BY <1>4, <2>2
    <3> QED BY <2>1, <2>3, <3>1, LayerNormStores
  <2>6. \/ Step(s) = 0 /\ x = <<"shared", u>>
        \/ Step(s) = 0 /\ x[1] \in {"mean_shared", "inv_std_shared"}
        \/ Step(s) \in 1 .. Levels /\ x = <<"shared", u>>
        \/ Step(s) \in 1 .. Levels /\ x = Partner(u, s)
        \/ Step(s) = Levels + 1 /\ (u = 0 \/ x[1] = "shared")
    <3>1. x \notin RowOut(c, b, Strided(u, Block, Inner(c.in[1])))
      BY <1>4, <2>2
    <3>2. CASE x \in LayerNormWrites(c, b, u, s)
      BY <2>1, <3>1, <3>2, LayerNormStores
    <3>3. CASE x \in LayerNormReads(u, s)
      BY <2>1, <3>3, LayerNormLoads
    <3> QED BY <2>3, <3>2, <3>3
  <2>7. Step(s) \in 1 .. Levels => Half(Step(s)) \in Nat
    BY <2>4, Sizes
  <2> HIDE DEF Half, Step
  <2> QED BY <2>1, <2>4, <2>5, <2>6, <2>7 DEF Partner
<1>6. DeviceDisjoint(c, k)
  <2> SUFFICES ASSUME NEW b \in Blocks(c, k), NEW d \in Blocks(c, k),
                      NEW t \in Threads(k), NEW u \in Threads(k),
                      NEW s \in 0 .. Segments(c, k) - 1, NEW r \in 0 .. Segments(c, k) - 1,
                      NEW x \in Writes(c, k, b, t, s) \cap Footprint(c, k, d, u, r), ~ Shared(x)
               PROVE  b = d /\ t = u
    BY DEF DeviceDisjoint
  <2> DEFINE n == Inner(c.in[1])
  <2>1. s \in Nat /\ r \in Nat /\ t \in Nat /\ u \in Nat /\ b \in Int /\ d \in Int
    BY <1>2, Sizes
  <2>2. x[1] \notin {"shared", "mean_shared", "inv_std_shared"}
    BY DEF Shared, SharedNames
  <2>3. x \in RowOut(c, b, Strided(t, Block, n))
    BY <1>3, <2>1, <2>2, LayerNormStores
  <2>4. x \in RowOut(c, d, Strided(u, Block, n))
    <3>1. x \notin LayerNormReads(u, r)
      BY <2>1, <2>2, LayerNormLoads DEF Partner
    <3>2. x \in LayerNormWrites(c, d, u, r)
      BY <1>3, <3>1
    <3> QED BY <2>1, <2>2, <3>2, LayerNormStores
  <2>5. Strided(t, Block, n) \subseteq Below(n) /\ Strided(u, Block, n) \subseteq Below(n)
    BY DEF Strided
  <2>6. b = d /\ Strided(t, Block, n) \cap Strided(u, Block, n) # {}
    BY <1>1, <2>1, <2>3, <2>4, <2>5, RowsApart
  <2>7. t = u
    BY <2>6 DEF Strided
  <2> QED BY <2>6, <2>7
<1> QED BY <1>5, <1>6

\* Of every kernel.
LEMMA Disjoint ==
  ASSUME NEW c, NEW k \in Kernels, Known(c, k)
  PROVE  DeviceDisjoint(c, k) /\ SharedDisjoint(c, k)
BY ElementwiseDisjoint, ProductsDisjoint, SoftmaxDisjoint, LayerNormDisjoint DEF Kernels, Rowwise

-----------------------------------------------------------------------------
(* Launchers *)

TemporaryNames == {"max", "sum", "col"}

StepSet ==
  {Malloc(t) : t \in TemporaryNames} \cup {Launch(k) : k \in Kernels}
    \cup {Synchronize} \cup {Free(t) : t \in TemporaryNames}

LEMMA StepsTyped ==
  ASSUME NEW c
  PROVE  Steps(c) \in Seq(StepSet)
<1> DEFINE L(k) == <<Launch(k), Synchronize>>
<1>1. \A k \in Kernels : Launch(k) \in StepSet
  BY DEF StepSet
<1>2. /\ Synchronize \in StepSet
      /\ \A t \in TemporaryNames : Malloc(t) \in StepSet /\ Free(t) \in StepSet
  BY DEF StepSet
<1>3. {"add_elementwise", "add_broadcast", "relu", "matmul", "layernorm", "find_max", "exp_sum",
       "normalize", "im2col", "sgemm", "add_bias"} \subseteq Kernels
  BY DEF Kernels, Elementwise, Products, Rowwise, Softmaxes, Reductions
<1> HIDE DEF L
<1>4. \A k \in Kernels : L(k) \in Seq(StepSet)
  BY <1>1, <1>2 DEF L
<1>5. SoftmaxSteps(c) \in Seq(StepSet)
  BY <1>1, <1>2, <1>3 DEF SoftmaxSteps, TemporaryNames
<1>6. ConvSteps(c) \in Seq(StepSet)
  BY <1>1, <1>2, <1>3 DEF ConvSteps, TemporaryNames
<1>7. <<>> \in Seq(StepSet)
  OBVIOUS
<1>8. Steps(c) \in {<<>>, SoftmaxSteps(c), ConvSteps(c)} \cup {L(k) : k \in Kernels}
  BY <1>3 DEF Steps, L, Alone, AddSteps, ReLUSteps, MatMulSteps, LayerNormSteps
<1> QED BY <1>4, <1>5, <1>6, <1>7, <1>8

\* What a launcher's next step may be.
LEMMA StepKinds ==
  ASSUME NEW c, NEW i \in DOMAIN Steps(c)
  PROVE  /\ Len(Steps(c)) \in Nat /\ i \in 1 .. Len(Steps(c))
         /\ Steps(c)[i].do = "malloc" => Steps(c)[i].what \in TemporaryNames
         /\ Steps(c)[i].do = "launch" => Steps(c)[i].what \in Kernels \cap Launched(c)
<1>1. Steps(c) \in Seq(StepSet)
  BY StepsTyped
<1>2. Len(Steps(c)) \in Nat /\ i \in 1 .. Len(Steps(c)) /\ Steps(c)[i] \in StepSet
  BY <1>1
<1>3. Steps(c)[i].do = "launch" => Steps(c)[i].what \in Launched(c)
  BY DEF Launched
<1>4. \A x \in StepSet : /\ x.do = "malloc" => x.what \in TemporaryNames
                         /\ x.do = "launch" => x.what \in Kernels
  BY DEF StepSet, Malloc, Launch, Synchronize, Free
<1> QED BY <1>2, <1>3, <1>4

LEMMA LaunchedKnown ==
  ASSUME NEW c \in OnDevice, NEW k \in Launched(c)
  PROVE  /\ k \in Kernels /\ Known(c, k)
         /\ Segments(c, k) \in Nat \ {0}
         /\ \A b \in Blocks(c, k) : \A t \in Threads(k) : Returns(c, k, b, t) => Segments(c, k) = 1
<1>1. k \in Kernels
  <2>1. PICK i \in DOMAIN Steps(c) : Steps(c)[i].do = "launch" /\ k = Steps(c)[i].what
    BY DEF Launched
  <2> QED BY <2>1, StepKinds
<1>2. Known(c, k)
  BY CallsAssumption DEF Known
<1>3. CASE k \in Elementwise
  BY <1>1, <1>2, <1>3 DEF Segments, Elementwise, Products, Reductions
<1>4. CASE k \in Products
  <2>1. Dims(c, k)[2] \in Nat
    BY <1>2, <1>4 DEF Known
  <2>2. CeilDiv(Dims(c, k)[2], Tile) \in Nat
    BY <2>1, CeilDivInt, Sizes
  <2>3. Segments(c, k) = 2 * CeilDiv(Dims(c, k)[2], Tile) + 1
    BY <1>4 DEF Segments, Products, Reductions
  <2>4. \A b, t : ~ Returns(c, k, b, t)
    BY <1>4 DEF Returns, Products, Rowwise, Softmaxes, Reductions
  <2> QED BY <1>1, <1>2, <2>2, <2>3, <2>4
<1>5. CASE k \in Rowwise
  <2>1. Outer(c.in[1]) \in Nat
    BY <1>2, <1>5 DEF Known
  <2>2. Blocks(c, k) = 0 .. Outer(c.in[1]) - 1
    BY <1>5 DEF Blocks, Below, Elementwise, Products, Rowwise, Softmaxes, Reductions
  <2>3. \A b \in Blocks(c, k) : \A t : ~ Returns(c, k, b, t)
    BY <1>5, <2>1, <2>2 DEF Returns, Rowwise, Softmaxes, Reductions
  <2>4. Segments(c, k) \in Nat \ {0}
    BY <1>5, KernelAssumption DEF Segments, Products, Rowwise, Softmaxes, Reductions
  <2> QED BY <1>1, <1>2, <2>3, <2>4
<1> QED BY <1>1, <1>3, <1>4, <1>5 DEF Kernels

-----------------------------------------------------------------------------
(* The inductive invariant *)

\* The segment a thread is in; the last one when it is through.
Now(t) == IF at[t] = Segments(call, launch) THEN at[t] - 1 ELSE at[t]

\* Only kernels of a call on the device are queued or run.
LaunchesInv ==
  /\ call \in Operations
  /\ queue \in Seq(Launched(call))
  /\ launch \in Launched(call) \cup {None}
  /\ queue # <<>> \/ launch # None => call \in OnDevice
  /\ launch # None => todo \subseteq Blocks(call, launch)

\* The threads of a block are in one segment of the kernel.
ThreadsInv ==
  block # None =>
    /\ launch # None /\ block \in Blocks(call, launch)
    /\ at \in [Threads(launch) -> 0 .. Segments(call, launch)]
    /\ stage \in [Threads(launch) -> {"read", "store", "wait"}]
    /\ DOMAIN pending = Threads(launch) /\ pending = [t \in DOMAIN pending |-> pending[t]]
    /\ \A t \in Threads(launch) :
         /\ stage[t] = "store" =>
              /\ at[t] < Segments(call, launch)
              /\ DOMAIN pending[t] = Writes(call, launch, block, t, at[t])
         /\ stage[t] = "wait" => at[t] + 1 < Segments(call, launch)
    /\ \A t, u \in Threads(launch) : Now(t) = Now(u)

\* An access is one of a thread of the launch; to shared memory, one of the
\* block in its present segment.
Explained(a) ==
  /\ launch # None
  /\ \E b \in Blocks(call, launch), t \in Threads(launch), s \in 0 .. Segments(call, launch) - 1 :
       /\ a.by = <<b, t>> /\ a.cell \in Footprint(call, launch, b, t, s)
       /\ a.mode \in {"read", "write"}
       /\ a.mode = "write" => a.cell \in Writes(call, launch, b, t, s)
       /\ Shared(a.cell) => block # None /\ b = block /\ s = Now(t)

TouchedInv == \A a \in touched : Explained(a)

DeviceInv == LaunchesInv /\ ThreadsInv /\ TouchedInv

\* What DeviceInv is for.
LEMMA InvRaceFree ==
  ASSUME DeviceInv
  PROVE  RaceFree
<1> SUFFICES ASSUME NEW a \in touched, NEW b \in touched,
                    a.cell = b.cell, a.by # b.by, a.mode = "write"
             PROVE  FALSE
  BY DEF RaceFree, DeviceInv, TouchedInv, Explained
<1>1. launch # None
  BY DEF DeviceInv, TouchedInv, Explained
<1>2. PICK c \in Blocks(call, launch), t \in Threads(launch), s \in 0 .. Segments(call, launch) - 1 :
        /\ a.by = <<c, t>>
        /\ a.cell \in Writes(call, launch, c, t, s)
        /\ Shared(a.cell) => block # None /\ c = block /\ s = Now(t)
  BY DEF DeviceInv, TouchedInv, Explained
<1>3. PICK d \in Blocks(call, launch), u \in Threads(launch), r \in 0 .. Segments(call, launch) - 1 :
        /\ b.by = <<d, u>>
        /\ b.cell \in Footprint(call, launch, d, u, r)
        /\ Shared(b.cell) => block # None /\ d = block /\ r = Now(u)
  BY DEF DeviceInv, TouchedInv, Explained
<1>4. DeviceDisjoint(call, launch) /\ SharedDisjoint(call, launch)
  BY <1>1, LaunchedKnown, Disjoint DEF DeviceInv, LaunchesInv
<1>5. CASE ~ Shared(a.cell)
  BY <1>2, <1>3, <1>4, <1>5 DEF DeviceDisjoint
<1>6. CASE Shared(a.cell)
  <2>1. c = d /\ s = r
    BY <1>2, <1>3, <1>6 DEF DeviceInv, ThreadsInv
  <2> QED BY <1>2, <1>3, <1>4, <1>6, <2>1 DEF SharedDisjoint
<1> QED BY <1>5, <1>6

LEMMA InvInit == Init => DeviceInv
BY DEF Init, Quiet, DeviceInv, LaunchesInv, ThreadsInv, TouchedInv

\* A step of the host that leaves the device alone.
LEMMA InvHost ==
  ASSUME DeviceInv, UNCHANGED <<call, deviceVars>>
  PROVE  DeviceInv'
<1> USE DEF DeviceInv, deviceVars, threadVars
<1>1. LaunchesInv'
  BY DEF LaunchesInv
<1>2. ThreadsInv'
  BY DEF ThreadsInv, Now
<1>3. TouchedInv'
  BY DEF TouchedInv, Explained, Now
<1> QED BY <1>1, <1>2, <1>3

LEMMA InvEnqueue ==
  ASSUME DeviceInv, Enqueue
  PROVE  DeviceInv'
<1>1. NextStep.what \in Launched(call) /\ call \in OnDevice
  BY StepKinds DEF Enqueue, AtStep, OnCuda, Running, NextStep, OnDevice, DeviceInv, LaunchesInv
<1>2. LaunchesInv'
  BY <1>1 DEF Enqueue, DeviceInv, LaunchesInv
<1>3. ThreadsInv'
  BY DEF Enqueue, threadVars, DeviceInv, ThreadsInv, Now
<1>4. TouchedInv'
  BY DEF Enqueue, threadVars, DeviceInv, TouchedInv, Explained, Now
<1> QED BY <1>2, <1>3, <1>4 DEF DeviceInv

LEMMA InvBegin ==
  ASSUME DeviceInv, Begin
  PROVE  DeviceInv'
<1>1. touched = {} /\ block = None
  BY DEF Begin, DeviceInv, ThreadsInv, TouchedInv, Explained
<1>2. LaunchesInv'
  BY DEF Begin, hostVars, DeviceInv, LaunchesInv
<1>3. ThreadsInv' /\ TouchedInv'
  BY <1>1 DEF Begin, threadVars, ThreadsInv, TouchedInv
<1> QED BY <1>2, <1>3 DEF DeviceInv

LEMMA InvBeginBlock ==
  ASSUME DeviceInv, BeginBlock
  PROVE  DeviceInv'
<1>1. PICK b \in todo : block' = b /\ todo' = todo \ {b}
  BY DEF BeginBlock
<1>2. call' = call /\ launch' = launch /\ queue' = queue /\ touched' = touched
  BY DEF BeginBlock, hostVars
<1>3. launch # None /\ block = None /\ call \in OnDevice /\ launch \in Launched(call)
      /\ b \in Blocks(call, launch)
  BY <1>1 DEF BeginBlock, DeviceInv, LaunchesInv
<1>4. LaunchesInv'
  BY <1>1, <1>2 DEF DeviceInv, LaunchesInv
<1>5. ThreadsInv'
  <2>1. Segments(call, launch) \in Nat \ {0}
    BY <1>3, LaunchedKnown
  <2>2. \A t \in Threads(launch) : Returns(call, launch, b, t) => Segments(call, launch) = 1
    BY <1>3, LaunchedKnown
  <2>3. at' = [t \in Threads(launch) |->
                 IF Returns(call, launch, b, t) THEN Segments(call, launch) ELSE 0]
    BY <1>1 DEF BeginBlock
  <2>4. stage' = [t \in Threads(launch) |-> "read"] /\ pending' = [t \in Threads(launch) |-> <<>>]
    BY DEF BeginBlock
  <2>5. \A t \in Threads(launch) : Now(t)' = 0
    BY <1>2, <2>1, <2>2, <2>3 DEF Now
  <2>6. at' \in [Threads(launch) -> 0 .. Segments(call, launch)]
    BY <2>1, <2>3
  <2> QED BY <1>1, <1>2, <1>3, <2>4, <2>5, <2>6 DEF ThreadsInv
<1>6. TouchedInv'
  BY <1>2, <1>3 DEF DeviceInv, TouchedInv, Explained
<1> QED BY <1>4, <1>5, <1>6 DEF DeviceInv

\* What the steps of a thread have in common.
LEMMA ActiveThread ==
  ASSUME DeviceInv, NEW t \in Threads(launch), NEW g, Active(t, g)
  PROVE  /\ block # None /\ launch # None /\ block \in Blocks(call, launch)
         /\ call \in OnDevice /\ launch \in Launched(call)
         /\ Segments(call, launch) \in Nat \ {0}
         /\ at[t] \in 0 .. Segments(call, launch) - 1 /\ at[t] = Now(t) /\ stage[t] = g
<1>1. block # None /\ launch # None /\ block \in Blocks(call, launch) /\ stage[t] = g
      /\ at[t] \in 0 .. Segments(call, launch) /\ at[t] < Segments(call, launch)
  BY DEF Active, DeviceInv, ThreadsInv
<1>2. call \in OnDevice /\ launch \in Launched(call)
  BY <1>1 DEF DeviceInv, LaunchesInv
<1>3. Segments(call, launch) \in Nat \ {0}
  BY <1>2, LaunchedKnown
<1> QED BY <1>1, <1>2, <1>3 DEF Now

\* Accesses of a thread that is in segment s are explained.
LEMMA InvRead ==
  ASSUME DeviceInv, NEW t \in Threads(launch), ReadStep(t)
  PROVE  DeviceInv'
<1>1. UNCHANGED <<call, queue, launch, todo, block, at>>
  BY DEF ReadStep, hostVars
<1>2. /\ block # None /\ launch # None /\ block \in Blocks(call, launch)
      /\ Segments(call, launch) \in Nat \ {0}
      /\ at[t] \in 0 .. Segments(call, launch) - 1 /\ at[t] = Now(t) /\ stage[t] = "read"
  BY ActiveThread DEF ReadStep
<1>3. LaunchesInv'
  BY <1>1 DEF DeviceInv, LaunchesInv
<1>4. \A u \in Threads(launch) : Now(u)' = Now(u)
  BY <1>1 DEF Now
<1>5. ThreadsInv'
  <2>1. stage' = [stage EXCEPT ![t] = "store"]
    BY DEF ReadStep
  <2>2. stage' \in [Threads(launch) -> {"read", "store", "wait"}]
    BY <1>2, <2>1 DEF DeviceInv, ThreadsInv
  <2>3. PICK f : /\ DOMAIN f = Writes(call, launch, block, t, at[t])
                 /\ pending' = [pending EXCEPT ![t] = f]
    BY DEF ReadStep
  <2>4. DOMAIN pending' = Threads(launch) /\ pending' = [u \in DOMAIN pending' |-> pending'[u]]
    BY <1>2, <2>3 DEF DeviceInv, ThreadsInv
  <2>5. \A u \in Threads(launch) :
          /\ stage'[u] = "store" =>
               /\ at[u] < Segments(call, launch)
               /\ DOMAIN pending'[u] = Writes(call, launch, block, u, at[u])
          /\ stage'[u] = "wait" => at[u] + 1 < Segments(call, launch)
    <3> SUFFICES ASSUME NEW u \in Threads(launch)
                 PROVE  /\ stage'[u] = "store" =>
                             /\ at[u] < Segments(call, launch)
                             /\ DOMAIN pending'[u] = Writes(call, launch, block, u, at[u])
                        /\ stage'[u] = "wait" => at[u] + 1 < Segments(call, launch)
      OBVIOUS
    <3>1. CASE u = t
      BY <1>2, <2>1, <2>3, <3>1 DEF DeviceInv, ThreadsInv
    <3>2. CASE u # t
      <4>1. stage'[u] = stage[u] /\ pending'[u] = pending[u]
        BY <1>2, <2>1, <2>3, <3>2 DEF DeviceInv, ThreadsInv
      <4> QED BY <1>2, <4>1 DEF DeviceInv, ThreadsInv
    <3> QED BY <3>1, <3>2
  <2> QED BY <1>1, <1>2, <1>4, <2>2, <2>4, <2>5 DEF DeviceInv, ThreadsInv
<1>6. TouchedInv'
  <2> SUFFICES ASSUME NEW a \in touched' PROVE Explained(a)'
    BY DEF TouchedInv
  <2>1. CASE a \in touched
    BY <1>1, <1>4, <2>1 DEF DeviceInv, TouchedInv, Explained
  <2>2. CASE a \in Accesses(t, Reads(call, launch, block, t, at[t]), "read")
    <3>1. /\ a.by = <<block, t>> /\ a.cell \in Reads(call, launch, block, t, at[t])
          /\ a.mode = "read"
      BY <2>2 DEF Accesses
    <3>2. a.cell \in Footprint(call, launch, block, t, at[t])
      BY <3>1 DEF Footprint
    <3> QED BY <1>1, <1>2, <1>4, <3>1, <3>2 DEF Explained
  <2> QED BY <2>1, <2>2 DEF ReadStep
<1> QED BY <1>3, <1>5, <1>6 DEF DeviceInv

LEMMA InvStore ==
  ASSUME DeviceInv, NEW t \in Threads(launch), StoreStep(t)
  PROVE  DeviceInv'
<1>1. UNCHANGED <<call, queue, launch, todo, block>>
  BY DEF StoreStep, hostVars
<1>2. /\ block # None /\ launch # None /\ block \in Blocks(call, launch)
      /\ Segments(call, launch) \in Nat \ {0}
      /\ at[t] \in 0 .. Segments(call, launch) - 1 /\ at[t] = Now(t) /\ stage[t] = "store"
  BY ActiveThread DEF StoreStep
<1>3. LaunchesInv'
  BY <1>1 DEF DeviceInv, LaunchesInv
<1>4. /\ at \in [Threads(launch) -> 0 .. Segments(call, launch)]
      /\ stage \in [Threads(launch) -> {"read", "store", "wait"}]
      /\ DOMAIN pending = Threads(launch) /\ pending = [u \in DOMAIN pending |-> pending[u]]
      /\ DOMAIN pending[t] = Writes(call, launch, block, t, at[t])
  BY <1>2 DEF DeviceInv, ThreadsInv
<1>5. \/ /\ at[t] + 1 < Segments(call, launch)
         /\ stage' = [stage EXCEPT ![t] = "wait"] /\ at' = at
      \/ /\ at[t] + 1 = Segments(call, launch)
         /\ stage' = [stage EXCEPT ![t] = "read"] /\ at' = [at EXCEPT ![t] = @ + 1]
  BY <1>2 DEF StoreStep, Syncs
<1>6. pending' = [pending EXCEPT ![t] = <<>>]
  BY DEF StoreStep
<1>7. \A u \in Threads(launch) : Now(u)' = Now(u)
  <2> SUFFICES ASSUME NEW u \in Threads(launch) PROVE Now(u)' = Now(u)
    OBVIOUS
  <2>1. at'[u] = at[u] \/ (u = t /\ at'[u] = at[u] + 1 /\ at[u] + 1 = Segments(call, launch))
    BY <1>4, <1>5
  <2>2. CASE at'[u] = at[u]
    BY <1>1, <2>2 DEF Now
  <2>3. CASE u = t /\ at'[u] = at[u] + 1 /\ at[u] + 1 = Segments(call, launch)
    BY <1>1, <1>2, <2>3 DEF Now
  <2> QED BY <2>1, <2>2, <2>3
<1>8. ThreadsInv'
  <2>1. at' \in [Threads(launch) -> 0 .. Segments(call, launch)]
    BY <1>2, <1>4, <1>5
  <2>2. stage' \in [Threads(launch) -> {"read", "store", "wait"}]
    BY <1>4, <1>5
  <2>3. DOMAIN pending' = Threads(launch) /\ pending' = [u \in DOMAIN pending' |-> pending'[u]]
    BY <1>4, <1>6
  <2>4. \A u \in Threads(launch) :
          /\ stage'[u] = "store" =>
               /\ at'[u] < Segments(call, launch)
               /\ DOMAIN pending'[u] = Writes(call, launch, block, u, at'[u])
          /\ stage'[u] = "wait" => at'[u] + 1 < Segments(call, launch)
    <3> SUFFICES ASSUME NEW u \in Threads(launch)
                 PROVE  /\ stage'[u] = "store" =>
                             /\ at'[u] < Segments(call, launch)
                             /\ DOMAIN pending'[u] = Writes(call, launch, block, u, at'[u])
                        /\ stage'[u] = "wait" => at'[u] + 1 < Segments(call, launch)
      OBVIOUS
    <3>1. CASE u = t
      BY <1>2, <1>4, <1>5, <3>1
    <3>2. CASE u # t
      <4>1. stage'[u] = stage[u] /\ pending'[u] = pending[u] /\ at'[u] = at[u]
        BY <1>4, <1>5, <1>6, <3>2
      <4> QED BY <1>2, <4>1 DEF DeviceInv, ThreadsInv
    <3> QED BY <3>1, <3>2
  <2> QED BY <1>1, <1>2, <1>7, <2>1, <2>2, <2>3, <2>4 DEF DeviceInv, ThreadsInv
<1>9. TouchedInv'
  <2> SUFFICES ASSUME NEW a \in touched' PROVE Explained(a)'
    BY DEF TouchedInv
  <2>1. CASE a \in touched
    BY <1>1, <1>7, <2>1 DEF DeviceInv, TouchedInv, Explained
  <2>2. CASE a \in Accesses(t, DOMAIN pending[t], "write")
    <3>1. /\ a.by = <<block, t>> /\ a.cell \in Writes(call, launch, block, t, at[t])
          /\ a.mode = "write"
      BY <1>4, <2>2 DEF Accesses
    <3>2. a.cell \in Footprint(call, launch, block, t, at[t])
      BY <3>1 DEF Footprint
    <3> QED BY <1>1, <1>2, <1>7, <3>1, <3>2 DEF Explained
  <2> QED BY <2>1, <2>2 DEF StoreStep
<1> QED BY <1>3, <1>8, <1>9 DEF DeviceInv

\* Past a barrier, or at the end of a block, no access to shared memory is
\* remembered.
LEMMA DeviceAccessesExplained ==
  ASSUME DeviceInv, UNCHANGED <<call, launch>>, touched' = DeviceAccesses
  PROVE  TouchedInv'
BY DEF DeviceAccesses, DeviceInv, TouchedInv, Explained

LEMMA InvBarrier ==
  ASSUME DeviceInv, Barrier
  PROVE  DeviceInv'
<1>1. UNCHANGED <<call, queue, launch, todo, block, pending>> /\ block # None
  BY DEF Barrier, hostVars
<1>2. LaunchesInv'
  BY <1>1 DEF DeviceInv, LaunchesInv
<1>3. TouchedInv'
  BY <1>1, DeviceAccessesExplained DEF Barrier
<1>4. ThreadsInv'
  <2>1. /\ launch # None /\ block \in Blocks(call, launch)
        /\ at \in [Threads(launch) -> 0 .. Segments(call, launch)]
        /\ DOMAIN pending = Threads(launch) /\ pending = [t \in DOMAIN pending |-> pending[t]]
        /\ \A t \in Threads(launch) : at[t] + 1 < Segments(call, launch)
        /\ \A t, u \in Threads(launch) : Now(t) = Now(u)
    BY <1>1 DEF Barrier, DeviceInv, ThreadsInv
  <2>2. Segments(call, launch) \in Nat \ {0}
    BY <2>1, LaunchedKnown DEF DeviceInv, LaunchesInv
  <2>3. at' = [t \in Threads(launch) |-> at[t] + 1] /\ stage' = [t \in Threads(launch) |-> "read"]
    BY DEF Barrier
  <2>4. at' \in [Threads(launch) -> 0 .. Segments(call, launch)]
    BY <2>1, <2>2, <2>3
  <2>5. \A t, u \in Threads(launch) : Now(t)' = Now(u)'
    <3>1. \A t \in Threads(launch) : Now(t) = at[t] /\ Now(t)' = at[t] + 1
      BY <1>1, <2>1, <2>2, <2>3 DEF Now
    <3> QED BY <2>1, <3>1
  <2> QED BY <1>1, <2>1, <2>3, <2>4, <2>5 DEF ThreadsInv
<1> QED BY <1>2, <1>3, <1>4 DEF DeviceInv

LEMMA InvEndBlock ==
  ASSUME DeviceInv, EndBlock
  PROVE  DeviceInv'
<1>1. UNCHANGED <<call, queue, launch, todo>> /\ block' = None
  BY DEF EndBlock, hostVars
<1>2. LaunchesInv' /\ ThreadsInv'
  BY <1>1 DEF DeviceInv, LaunchesInv, ThreadsInv
<1>3. TouchedInv'
  BY <1>1, DeviceAccessesExplained DEF EndBlock
<1> QED BY <1>2, <1>3 DEF DeviceInv

LEMMA InvEnd ==
  ASSUME DeviceInv, End
  PROVE  DeviceInv'
BY DEF End, hostVars, DeviceInv, LaunchesInv, ThreadsInv, TouchedInv

LEMMA InvNext ==
  ASSUME DeviceInv, [Next]_vars
  PROVE  DeviceInv'
<1>1. CASE UNCHANGED vars
  BY <1>1, InvHost DEF vars, hostVars
<1>2. CASE HostNext
  <2>1. Enqueue \/ UNCHANGED <<call, deviceVars>>
    BY <1>2 DEF HostNext, Refuse, ExecuteOnCpu, TooManyDims, Allocate, Synchronized, Deallocate,
                StepFails, CleanUp, Return
  <2> QED BY <2>1, InvEnqueue, InvHost
<1>3. CASE DeviceNext
  BY <1>3, InvBegin, InvBeginBlock, InvBarrier, InvEndBlock, InvEnd, InvRead, InvStore DEF DeviceNext
<1> QED BY <1>1, <1>2, <1>3 DEF Next

\* In every launch of every call, whatever the order in which threads run, no
\* two of them touch the same cell without a barrier between them when one of
\* them stores to it.
THEOREM RaceFreeSafe == Spec => []RaceFree
<1>1. Spec => []DeviceInv
  BY InvInit, InvNext, PTL DEF Spec
<1>2. DeviceInv => RaceFree
  BY InvRaceFree
<1> QED BY <1>1, <1>2, PTL

-----------------------------------------------------------------------------
(* Temporaries *)

\* The temporaries allocated when a launcher comes to step i.
Holding(c, i) ==
  CASE c.op.name = "Softmax" ->
         {t \in {"max", "sum"} : IF t = "max" THEN 2 <= i /\ i <= 7 ELSE 3 <= i /\ i <= 8}
    [] c.op.name = "Conv2D" -> {t \in {"col"} : 2 <= i /\ i <= Len(Steps(c))}
    [] OTHER -> {}

After(c, i) == Holding(c, i + 1)

\* What a step does to them, what its error path frees and what it uses.
StepHolds(c, step, i) ==
  /\ step.do = "malloc" => After(c, i) = Holding(c, i) \cup {step.what}
  /\ step.do = "free" => After(c, i) = Holding(c, i) \ {step.what}
  /\ step.do \in {"launch", "sync"} => After(c, i) = Holding(c, i)
  /\ step.do \in {"malloc", "launch", "sync"} => Released(c, i) = Holding(c, i)
  /\ step.do = "launch" => Temporaries(step.what) \subseteq Holding(c, i)

LEMMA Fields ==
  /\ \A t : /\ Malloc(t).do = "malloc" /\ Malloc(t).what = t
            /\ Launch(t).do = "launch" /\ Launch(t).what = t
            /\ Free(t).do = "free" /\ Free(t).what = t
  /\ Synchronize.do = "sync"
BY DEF Malloc, Launch, Free, Synchronize

LEMMA SoftmaxHolds ==
  ASSUME NEW c, c.op.name = "Softmax", NEW i \in 1 .. Len(Steps(c))
  PROVE  StepHolds(c, Steps(c)[i], i) /\ Holding(c, Len(Steps(c)) + 1) = {}
<1>1. Steps(c) = <<Malloc("max"), Malloc("sum"), Launch("find_max"), Launch("exp_sum"),
                   Launch("normalize"), Synchronize, Free("max"), Free("sum")>>
  <2>1. Steps(c) = SoftmaxSteps(c)
    BY DEF Steps
  <2> QED BY <2>1 DEF SoftmaxSteps
<1>2. Len(Steps(c)) = 8 /\ i \in 1 .. 8
  BY <1>1
<1>3. /\ Steps(c)[1] = Malloc("max") /\ Steps(c)[2] = Malloc("sum")
      /\ Steps(c)[3] = Launch("find_max") /\ Steps(c)[4] = Launch("exp_sum")
      /\ Steps(c)[5] = Launch("normalize") /\ Steps(c)[6] = Synchronize
      /\ Steps(c)[7] = Free("max") /\ Steps(c)[8] = Free("sum")
  BY <1>1
<1>4. /\ Holding(c, 1) = {} /\ Holding(c, 2) = {"max"}
      /\ \A n \in 3 .. 7 : Holding(c, n) = {"max", "sum"}
      /\ Holding(c, 8) = {"sum"} /\ Holding(c, 9) = {}
  BY DEF Holding
<1>5. /\ Released(c, 1) = {} /\ Released(c, 2) = {"max"}
      /\ \A n \in 3 .. 8 : Released(c, n) = {"max", "sum"}
  BY DEF Released
<1>6. /\ Temporaries("find_max") = {"max"} /\ Temporaries("exp_sum") = {"max", "sum"}
      /\ Temporaries("normalize") = {"sum"}
  BY DEF Temporaries
<1>7. StepHolds(c, Steps(c)[i], i)
  <2>1. /\ After(c, 1) = {"max"}
        /\ \A n \in 2 .. 6 : After(c, n) = {"max", "sum"}
        /\ After(c, 7) = {"sum"} /\ After(c, 8) = {}
    BY <1>4 DEF After
  <2>2. /\ Steps(c)[1].do = "malloc" /\ Steps(c)[1].what = "max"
        /\ Steps(c)[2].do = "malloc" /\ Steps(c)[2].what = "sum"
        /\ Steps(c)[3].do = "launch" /\ Steps(c)[3].what = "find_max"
        /\ Steps(c)[4].do = "launch" /\ Steps(c)[4].what = "exp_sum"
        /\ Steps(c)[5].do = "launch" /\ Steps(c)[5].what = "normalize"
        /\ Steps(c)[6].do = "sync"
        /\ Steps(c)[7].do = "free" /\ Steps(c)[7].what = "max"
        /\ Steps(c)[8].do = "free" /\ Steps(c)[8].what = "sum"
    BY <1>3, Fields
  <2>3. /\ After(c, 1) = Holding(c, 1) \cup {"max"} /\ Released(c, 1) = Holding(c, 1)
        /\ After(c, 2) = Holding(c, 2) \cup {"sum"} /\ Released(c, 2) = Holding(c, 2)
        /\ After(c, 7) = Holding(c, 7) \ {"max"} /\ After(c, 8) = Holding(c, 8) \ {"sum"}
    <3>1. After(c, 1) = Holding(c, 1) \cup {"max"} /\ Released(c, 1) = Holding(c, 1)
      BY <1>4, <1>5, <2>1
    <3>2. After(c, 2) = Holding(c, 2) \cup {"sum"} /\ Released(c, 2) = Holding(c, 2)
      BY <1>4, <1>5, <2>1
    <3>3. After(c, 7) = Holding(c, 7) \ {"max"}
      BY <1>4, <2>1
    <3>4. After(c, 8) = Holding(c, 8) \ {"sum"}
      BY <1>4, <2>1
    <3> QED BY <3>1, <3>2, <3>3, <3>4
  <2>4. \A n \in 3 .. 6 : After(c, n) = Holding(c, n) /\ Released(c, n) = Holding(c, n)
    <3>1. \A n \in 3 .. 6 : n \in 2 .. 6 /\ n \in 3 .. 7 /\ n \in 3 .. 8
      OBVIOUS
    <3> QED BY <1>4, <1>5, <2>1, <3>1
  <2>5. /\ Temporaries("find_max") \subseteq Holding(c, 3)
        /\ Temporaries("exp_sum") \subseteq Holding(c, 4)
        /\ Temporaries("normalize") \subseteq Holding(c, 5)
    BY <1>4, <1>6
  <2>6. CASE i \in {1, 2}
    BY <2>2, <2>3, <2>6 DEF StepHolds
  <2>7. CASE i \in {3, 4, 5}
    BY <2>2, <2>4, <2>5, <2>7 DEF StepHolds
  <2>8. CASE i \in {6, 7, 8}
    BY <2>2, <2>3, <2>4, <2>8 DEF StepHolds
  <2> QED BY <1>2, <2>6, <2>7, <2>8
<1> QED BY <1>2, <1>4, <1>7

LEMMA ConvHolds ==
  ASSUME NEW c, c.op.name = "Conv2D", NEW i \in 1 .. Len(Steps(c))
  PROVE  StepHolds(c, Steps(c)[i], i) /\ Holding(c, Len(Steps(c)) + 1) = {}
<1>1. Steps(c) = ConvSteps(c)
  BY DEF Steps
<1>2. \/ Steps(c) = <<Malloc("col"), Launch("im2col"), Launch("sgemm"), Synchronize, Free("col")>>
      \/ Steps(c) = <<Malloc("col"), Launch("im2col"), Launch("sgemm"), Launch("add_bias"),
                      Synchronize, Free("col")>>
  BY <1>1 DEF ConvSteps
<1> DEFINE N == Len(Steps(c))
<1>3. N \in {5, 6} /\ i \in 1 .. N
  BY <1>2
<1>4. /\ Steps(c)[1] = Malloc("col") /\ Steps(c)[N] = Free("col")
      /\ \A n \in 2 .. N - 1 :
           Steps(c)[n] \in {Launch("im2col"), Launch("sgemm"), Launch("add_bias"), Synchronize}
  <2>1. CASE N = 5
    <3>1. /\ Steps(c)[1] = Malloc("col") /\ Steps(c)[2] = Launch("im2col")
          /\ Steps(c)[3] = Launch("sgemm") /\ Steps(c)[4] = Synchronize
          /\ Steps(c)[5] = Free("col")
      BY <1>2, <2>1
    <3> QED BY <2>1, <3>1
  <2>2. CASE N = 6
    <3>1. /\ Steps(c)[1] = Malloc("col") /\ Steps(c)[2] = Launch("im2col")
          /\ Steps(c)[3] = Launch("sgemm") /\ Steps(c)[4] = Launch("add_bias")
          /\ Steps(c)[5] = Synchronize /\ Steps(c)[6] = Free("col")
      BY <1>2, <2>2
    <3> QED BY <2>2, <3>1
  <2> QED BY <1>3, <2>1, <2>2
<1> HIDE DEF N
<1>5. /\ \A n \in Int : Holding(c, n) = {t \in {"col"} : 2 <= n /\ n <= N}
      /\ \A n \in Int : After(c, n) = {t \in {"col"} : 2 <= n + 1 /\ n + 1 <= N}
      /\ \A n \in Int : Released(c, n) = IF n = 1 THEN {} ELSE {"col"}
  <2>1. \A n \in Int : Holding(c, n) = {t \in {"col"} : 2 <= n /\ n <= N}
    BY DEF Holding, N
  <2>2. \A n \in Int : Released(c, n) = IF n = 1 THEN {} ELSE {"col"}
    BY DEF Released
  <2> QED BY <2>1, <2>2 DEF After
<1>6. Holding(c, Len(Steps(c)) + 1) = {}
  BY <1>3, <1>5 DEF N
<1>7. CASE i = 1
  <2>1. Holding(c, 1) = {} /\ After(c, 1) = {"col"} /\ Released(c, 1) = {}
    BY <1>3, <1>5
  <2>2. After(c, 1) = Holding(c, 1) \cup {"col"}
    BY <2>1
  <2>3. Steps(c)[1].do = "malloc" /\ Steps(c)[1].what = "col"
    BY <1>4, Fields
  <2>4. StepHolds(c, Steps(c)[1], 1)
    BY <2>1, <2>2, <2>3 DEF StepHolds
  <2> QED BY <1>7, <1>6, <2>4
<1>8. CASE i \in 2 .. N - 1
  <2>1. Holding(c, i) = {"col"} /\ After(c, i) = {"col"} /\ Released(c, i) = {"col"}
    BY <1>3, <1>5, <1>8
  <2>2. \/ Steps(c)[i].do = "sync"
        \/ /\ Steps(c)[i].do = "launch"
           /\ Steps(c)[i].what \in {"im2col", "sgemm", "add_bias"}
    BY <1>4, <1>8, Fields
  <2>3. \A k \in {"im2col", "sgemm", "add_bias"} : Temporaries(k) \subseteq {"col"}
    BY DEF Temporaries
  <2> QED BY <1>6, <2>1, <2>2, <2>3 DEF StepHolds
<1>9. CASE i = N
  <2>1. Holding(c, N) = {"col"} /\ After(c, N) = {}
    BY <1>3, <1>5
  <2>2. After(c, N) = Holding(c, N) \ {"col"}
    BY <2>1
  <2>3. Steps(c)[N].do = "free" /\ Steps(c)[N].what = "col"
    BY <1>4, Fields
  <2>4. StepHolds(c, Steps(c)[N], N)
    BY <2>2, <2>3 DEF StepHolds
  <2> QED BY <1>9, <1>6, <2>4
<1> QED BY <1>3, <1>7, <1>8, <1>9

LEMMA OthersHold ==
  ASSUME NEW c, c.op.name \notin {"Softmax", "Conv2D"}, NEW i \in 1 .. Len(Steps(c))
  PROVE  StepHolds(c, Steps(c)[i], i) /\ Holding(c, Len(Steps(c)) + 1) = {}
<1> DEFINE Plain == {"add_elementwise", "add_broadcast", "relu", "matmul", "layernorm"}
<1>1. \A n : Holding(c, n) = {} /\ Released(c, n) = {} /\ After(c, n) = {}
  BY DEF Holding, Released, After
<1>2. \A k \in Plain : Temporaries(k) = {}
  BY DEF Temporaries
<1>3. \/ Steps(c) = <<>>
      \/ \E k \in Plain : Steps(c) = <<Launch(k), Synchronize>>
  BY DEF Steps, Alone, AddSteps, ReLUSteps, MatMulSteps, LayerNormSteps
<1>4. \/ Steps(c)[i] = Synchronize
      \/ \E k \in Plain : Steps(c)[i] = Launch(k)
  BY <1>3
<1>5. StepHolds(c, Steps(c)[i], i)
  <2>1. CASE Steps(c)[i] = Synchronize
    <3>1. Steps(c)[i].do = "sync"
      BY <2>1 DEF Synchronize
    <3> QED BY <1>1, <3>1 DEF StepHolds
  <2>2. ASSUME NEW k \in Plain, Steps(c)[i] = Launch(k)
        PROVE  StepHolds(c, Steps(c)[i], i)
    <3>1. Steps(c)[i].do = "launch" /\ Steps(c)[i].what = k
      BY <2>2 DEF Launch
    <3> QED BY <1>1, <1>2, <3>1 DEF StepHolds
  <2> QED BY <1>4, <2>1, <2>2
<1> QED BY <1>1, <1>5

LEMMA Holds ==
  ASSUME NEW c
  PROVE  /\ \A i \in DOMAIN Steps(c) : StepHolds(c, Steps(c)[i], i)
         /\ Holding(c, 1) = {} /\ Holding(c, Len(Steps(c)) + 1) = {}
         /\ \A i \in Int : Holding(c, i) \subseteq TemporaryNames
<1>1. Steps(c) \in Seq(StepSet)
  BY StepsTyped
<1>2. \A i \in DOMAIN Steps(c) : StepHolds(c, Steps(c)[i], i)
  BY <1>1, SoftmaxHolds, ConvHolds, OthersHold
<1>3. Holding(c, 1) = {}
  BY DEF Holding
<1>4. Holding(c, Len(Steps(c)) + 1) = {}
  <2>1. CASE Len(Steps(c)) = 0
    BY <1>3, <2>1
  <2>2. CASE Len(Steps(c)) # 0
    <3>1. 1 \in 1 .. Len(Steps(c))
      BY <1>1, <2>2
    <3> QED BY <3>1, SoftmaxHolds, ConvHolds, OthersHold
  <2> QED BY <2>1, <2>2
<1>5. \A i \in Int : Holding(c, i) \subseteq TemporaryNames
  BY DEF Holding, TemporaryNames
<1> QED BY <1>2, <1>3, <1>4, <1>5

\* What a launcher holds follows from the step it has come to.
HostInv ==
  /\ call \in Operations
  /\ outcome \in {None, "refused", "failing", "done", "failed"}
  /\ host \in 1 .. Len(Steps(call)) + 1
  /\ call \notin OnDevice => host = 1
  /\ outcome \in {None, "failing"} => live = Holding(call, host)
  /\ outcome = "failing" =>
       host \in DOMAIN Steps(call) /\ Steps(call)[host].do \in {"malloc", "launch", "sync"}
  /\ TemporariesHeld

LEMMA HostInit == Init => HostInv
<1> SUFFICES ASSUME Init PROVE HostInv
  OBVIOUS
<1>1. Holding(call, 1) = {}
  BY Holds
<1>2. Len(Steps(call)) \in Nat
  BY StepsTyped
<1>3. TemporariesHeld
  BY NoneAssumption DEF Init, Quiet, TemporariesHeld, Submitted
<1> QED BY <1>1, <1>2, <1>3, NoneAssumption DEF Init, HostInv

\* A step of the device takes launches from the queue, if anything.
LEMMA HostDevice ==
  ASSUME HostInv, UNCHANGED hostVars, Submitted' \subseteq Submitted
  PROVE  HostInv'
BY DEF HostInv, hostVars, TemporariesHeld

LEMMA DeviceSubmits ==
  ASSUME DeviceInv, DeviceNext \/ UNCHANGED vars
  PROVE  UNCHANGED hostVars /\ Submitted' \subseteq Submitted
<1>1. CASE Begin
  <2>1. queue \in Seq(Launched(call)) /\ queue # <<>>
    BY <1>1 DEF Begin, DeviceInv, LaunchesInv
  <2>2. \A i \in DOMAIN Tail(queue) : i + 1 \in DOMAIN queue /\ Tail(queue)[i] = queue[i + 1]
    BY <2>1
  <2>3. 1 \in DOMAIN queue /\ Head(queue) = queue[1]
    BY <2>1
  <2> QED BY <1>1, <2>2, <2>3 DEF Begin, Submitted
<1>2. CASE End
  BY <1>2 DEF End, Submitted
<1>3. CASE UNCHANGED <<hostVars, queue, launch>>
  BY <1>3 DEF Submitted
<1> QED BY <1>1, <1>2, <1>3 DEF DeviceNext, BeginBlock, ReadStep, StoreStep, Barrier, EndBlock,
                                vars, deviceVars

\* Where the launcher is, in a step of it.
LEMMA AtHost ==
  ASSUME HostInv, NEW do, AtStep(do)
  PROVE  /\ call \in OnDevice /\ host \in DOMAIN Steps(call) /\ host \in 1 .. Len(Steps(call))
         /\ host + 1 \in 1 .. Len(Steps(call)) + 1
         /\ NextStep.do = do /\ StepHolds(call, NextStep, host)
         /\ live = Holding(call, host) /\ outcome = None
<1>1. /\ call \in OnDevice /\ host \in DOMAIN Steps(call) /\ NextStep.do = do
      /\ live = Holding(call, host) /\ outcome = None
  BY DEF AtStep, OnCuda, Running, OnDevice, HostInv
<1>2. StepHolds(call, NextStep, host)
  BY <1>1, Holds DEF NextStep
<1>3. host \in 1 .. Len(Steps(call)) /\ host + 1 \in 1 .. Len(Steps(call)) + 1
  BY <1>1, StepKinds
<1> QED BY <1>1, <1>2, <1>3

\* With nothing submitted, it is enough to know what is live.
LEMMA NothingSubmitted ==
  Idle => Submitted = {}
BY DEF Idle, Submitted

LEMMA HostSteps ==
  ASSUME HostInv, HostNext
  PROVE  HostInv'
<1>1. CASE Refuse \/ ExecuteOnCpu \/ TooManyDims \/ Return
  <2>1. UNCHANGED <<call, host, live, queue, launch>> /\ outcome = None
        /\ outcome' \in {"refused", "done", "failed"}
    BY <1>1 DEF Refuse, ExecuteOnCpu, TooManyDims, Return, OnCuda, Running, deviceVars
  <2>2. host = 1 \/ host = Len(Steps(call)) + 1
    BY <1>1 DEF Refuse, ExecuteOnCpu, TooManyDims, Return, Running, OnDevice, HostInv
  <2>3. live = {}
    BY <2>1, <2>2, Holds DEF HostInv
  <2>4. TemporariesHeld'
    BY <2>1, <2>3 DEF HostInv, TemporariesHeld, Submitted
  <2> QED BY <2>1, <2>4, NoneAssumption DEF HostInv
<1>2. CASE Allocate
  <2>1. AtStep("malloc") /\ live' = live \cup {NextStep.what} /\ host' = host + 1
        /\ UNCHANGED <<call, outcome, queue, launch>>
    BY <1>2 DEF Allocate, deviceVars
  <2>2. live' = Holding(call, host + 1)
    BY <2>1, AtHost DEF StepHolds, After
  <2>3. TemporariesHeld'
    BY <2>1, AtHost, NoneAssumption DEF HostInv, TemporariesHeld, Submitted
  <2> QED BY <2>1, <2>2, <2>3, AtHost, NoneAssumption DEF HostInv
<1>3. CASE Enqueue
  <2>1. AtStep("launch") /\ queue' = Append(queue, NextStep.what) /\ host' = host + 1
        /\ UNCHANGED <<call, outcome, live, launch>>
    BY <1>3 DEF Enqueue
  <2>2. Submitted' \subseteq Submitted \cup {NextStep.what}
    BY <2>1 DEF Submitted
  <2>3. live = Holding(call, host + 1) /\ Temporaries(NextStep.what) \subseteq live
    BY <2>1, AtHost DEF StepHolds, After
  <2>4. TemporariesHeld'
    BY <2>1, <2>2, <2>3, AtHost, NoneAssumption DEF HostInv, TemporariesHeld
  <2> QED BY <2>1, <2>3, <2>4, AtHost, NoneAssumption DEF HostInv
<1>4. CASE Synchronized
  <2>1. AtStep("sync") /\ host' = host + 1 /\ UNCHANGED <<call, outcome, live, queue, launch>>
    BY <1>4 DEF Synchronized, deviceVars
  <2>2. live = Holding(call, host + 1)
    BY <2>1, AtHost DEF StepHolds, After
  <2>3. TemporariesHeld'
    BY <2>1 DEF HostInv, TemporariesHeld, Submitted
  <2> QED BY <2>1, <2>2, <2>3, AtHost, NoneAssumption DEF HostInv
<1>5. CASE Deallocate
  <2>1. AtStep("free") /\ Idle /\ live' = live \ {NextStep.what} /\ host' = host + 1
        /\ UNCHANGED <<call, outcome, queue, launch>>
    BY <1>5 DEF Deallocate, deviceVars
  <2>2. live' = Holding(call, host + 1)
    BY <2>1, AtHost DEF StepHolds, After
  <2>3. TemporariesHeld'
    BY <2>1, NothingSubmitted, AtHost, NoneAssumption DEF TemporariesHeld, Submitted
  <2> QED BY <2>1, <2>2, <2>3, AtHost, NoneAssumption DEF HostInv
<1>6. CASE StepFails
  <2>1. PICK do \in {"malloc", "launch", "sync"} : AtStep(do)
    BY <1>6 DEF StepFails
  <2>2. outcome' = "failing" /\ UNCHANGED <<call, host, live, queue, launch>>
    BY <1>6 DEF StepFails, deviceVars
  <2>3. TemporariesHeld'
    BY <2>2 DEF HostInv, TemporariesHeld, Submitted
  <2> QED BY <2>1, <2>2, <2>3, AtHost DEF HostInv, NextStep
<1>7. CASE CleanUp
  <2>1. /\ outcome = "failing" /\ outcome' = "failed" /\ live' = live \ Released(call, host)
        /\ Released(call, host) = {} \/ Idle
        /\ UNCHANGED <<call, host, queue, launch>>
    BY <1>7 DEF CleanUp, deviceVars
  <2>2. live = Holding(call, host) /\ Released(call, host) = live
    BY <2>1, Holds DEF HostInv, StepHolds
  <2>3. live' = {}
    BY <2>1, <2>2
  <2>4. \A k \in Submitted : Temporaries(k) \subseteq {}
    BY <2>1, <2>2, NothingSubmitted DEF HostInv, TemporariesHeld
  <2>5. TemporariesHeld'
    BY <2>1, <2>3, <2>4 DEF TemporariesHeld, Submitted
  <2> QED BY <2>1, <2>5, NoneAssumption DEF HostInv
<1> QED BY <1>1, <1>2, <1>3, <1>4, <1>5, <1>6, <1>7 DEF HostNext

LEMMA HostInvNext ==
  ASSUME DeviceInv, HostInv, [Next]_vars
  PROVE  HostInv'
BY HostSteps, DeviceSubmits, HostDevice DEF Next

\* A kernel never runs on a temporary its launcher has not allocated or has
\* freed, and every path out of execute() frees them all.
THEOREM TemporariesHeldSafe == Spec => []TemporariesHeld
<1>1. Spec => [](DeviceInv /\ HostInv)
  BY InvInit, InvNext, HostInit, HostInvNext, PTL DEF Spec
<1>2. HostInv => TemporariesHeld
  BY DEF HostInv
<1> QED BY <1>1, <1>2, PTL

LEMMA Typed ==
  ASSUME DeviceInv, HostInv
  PROVE  TypeOK
<1>1. queue \in Seq(Kernels) /\ launch \in Kernels \cup {None}
  BY LaunchedKnown DEF DeviceInv, LaunchesInv
<1>2. live \subseteq {"max", "sum", "col"}
  BY Holds DEF HostInv, TemporariesHeld, TemporaryNames
<1>3. block # None =>
        /\ launch # None
        /\ \A t \in Threads(launch) :
             /\ at[t] \in 0 .. Segments(call, launch)
             /\ stage[t] \in {"read", "store", "wait"}
  BY DEF DeviceInv, ThreadsInv
<1> QED BY <1>1, <1>2, <1>3 DEF TypeOK, HostInv

\* The state of a call keeps its type: threads stay within the segments of
\* their kernel, and only kernels of the call are queued.
THEOREM DeviceTypeOK == Spec => []TypeOK
<1>1. Spec => [](DeviceInv /\ HostInv)
  BY InvInit, InvNext, HostInit, HostInvNext, PTL DEF Spec
<1>2. DeviceInv /\ HostInv => TypeOK
  BY Typed
<1> QED BY <1>1, <1>2, PTL
=============================================================================
