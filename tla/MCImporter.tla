----------------------------- MODULE MCImporter -----------------------------
(* Small models for Importer, and the files that differ a little from what  *)
(* the converter writes for them: see the .cfg file.                        *)
EXTENDS Importer, TLC

CONSTANT Wild    \* what a cell is replaced by

SectionTags == <<61, 62, 63, 64, 65, 66>>

\* Of the cells from i to j, by halves.
Checksum(f) ==
  LET c[i \in 1 .. Len(f), j \in 0 .. Len(f)] ==
        IF j < i THEN 1
        ELSE IF i = j THEN f[i] % Wide
        ELSE LET k == (i + j) \div 2 IN (3 * c[i, k] + 5 * c[k + 1, j] + 1) % Wide
  IN IF f = <<>> THEN 1 ELSE c[1, Len(f)]

N(c) == <<c>>
x == N(16)
w == N(17)
b == N(18)
s == N(19)
y == N(20)
r == N(21)
m == N(22)
c == N(23)
a == N(24)
d == N(25)
o == N(26)

Conv == N(30)
Relu == N(31)
Concat == N(32)
MaxPool == N(33)
AveragePool == N(34)
Dropout == N(35)
Reshape == N(36)
Dilations == N(40)
Group == N(41)
Kernel == N(42)
Pads == N(43)
Strides == N(44)
CountPad == N(45)
Axis == N(46)
Ratio == N(47)

Spelling ==
  Conv :> "Conv" @@ Relu :> "Relu" @@ Concat :> "Concat" @@ MaxPool :> "MaxPool"
    @@ AveragePool :> "AveragePool" @@ Dropout :> "Dropout" @@ Reshape :> "Reshape"
    @@ Dilations :> "dilations" @@ Group :> "group" @@ Kernel :> "kernel_shape"
    @@ Pads :> "pads" @@ Strides :> "strides" @@ CountPad :> "count_include_pad"
    @@ Axis :> "axis" @@ Ratio :> "ratio"

Minus(k) == Wide - k

D(name, dims) == [name |-> name, dtype |-> Float32, dims |-> dims]
I(name, dtype, dims, data) == [desc |-> [name |-> name, dtype |-> dtype, dims |-> dims],
                               data |-> data]
A(name, kind, value) == [name |-> name, kind |-> kind, value |-> value]
Op(op, in, out, attrs) == [op |-> op, name |-> <<>>, in |-> in, out |-> <<out>>,
                           attrs |-> attrs]
M(inputs, outputs, inits, nodes, vinf) ==
  [meta |-> [ir |-> 3, opset |-> 7, producer |-> <<>>, sha256 |-> 9],
   inputs |-> inputs, outputs |-> outputs, inits |-> inits, nodes |-> nodes, vinf |-> vinf]

Pool == <<A(Kernel, AttrInts, <<2, 2>>), A(Strides, AttrInts, <<2, 2>>),
          A(Pads, AttrInts, <<0, 0, 0, 0>>)>>

\* The model of tests/test_importer.cpp, with every operator.
Tiny == M(
  <<D(x, <<1, 2, 4, 4>>)>>,
  <<D(o, <<1, 4>>)>>,
  <<I(w, Float32, <<2, 2, 1, 1>>, <<1, 0, 0, 1>>), I(b, Float32, <<2>>, <<5, 6>>),
    I(s, Int64, <<2>>, <<0, Minus(1)>>)>>,
  <<Op(Conv, <<x, w, b>>, y, <<A(Dilations, AttrInts, <<1, 1>>), A(Group, AttrInt, 1),
         A(Kernel, AttrInts, <<1, 1>>), A(Pads, AttrInts, <<0, 0, 0, 0>>),
         A(Strides, AttrInts, <<1, 1>>)>>),
    Op(Relu, <<y>>, r, <<>>),
    Op(MaxPool, <<r>>, m, Pool),
    Op(Concat, <<m, m>>, c, <<A(Axis, AttrInt, Minus(3))>>),
    Op(AveragePool, <<c>>, a, Pool),
    Op(Dropout, <<a>>, d, <<A(Ratio, AttrFloat, 5)>>),
    Op(Reshape, <<d, s>>, o, <<>>)>>,
  <<D(y, <<1, 2, 4, 4>>), D(r, <<1, 2, 4, 4>>), D(m, <<1, 2, 2, 2>>), D(c, <<1, 4, 2, 2>>),
    D(a, <<1, 4, 1, 1>>), D(d, <<1, 4, 1, 1>>)>>)

\* Two outputs, a node that neither needs, and a constant before the weight.
Dead == M(
  <<D(x, <<2, 3>>)>>,
  <<D(c, <<4, 3>>), D(r, <<2, 3>>)>>,
  <<I(s, Int64, <<2>>, <<3, Minus(1)>>), I(w, Float32, <<2, 3>>, <<1, 2, 3, 4, 5, 6>>)>>,
  <<Op(Concat, <<x, w>>, c, <<A(Axis, AttrInt, 0)>>),
    Op(Reshape, <<c, s>>, d, <<>>),
    Op(Relu, <<x>>, r, <<>>)>>,
  <<>>)

\* A window that leaves a rest, on a value whose shape is not declared.
Rest == M(
  <<D(x, <<1, 1, 5, 4>>)>>,
  <<D(r, <<1, 1, 2, 2>>)>>,
  <<>>,
  <<Op(AveragePool, <<x>>, a, <<A(Kernel, AttrInts, <<2, 2>>), A(Strides, AttrInts, <<2, 2>>),
         A(CountPad, AttrInt, 1)>>),
    Op(Relu, <<a>>, r, <<>>)>>,
  <<>>)

\* A weight with so many elements that one more dimension overflows.
Large == M(
  <<>>,
  <<D(y, <<4, 8, 1>>)>>,
  <<I(w, Float32, <<4, 8, 1>>, [i \in 1 .. 32 |-> i])>>,
  <<Op(Relu, <<w>>, y, <<>>)>>,
  <<>>)

Bases == {Tiny, Dead, Rest, Large}

SupportedBases == {m0 \in Bases : Computes(m0)}

Replaced(f, i, v) == [f EXCEPT ![i] = v]

\* What is written for a model; a header field, or a cell of the payload with
\* the header sealed again, replaced; cut off anywhere, or followed by more.
Variants(m0) ==
  LET f == Encode(m0)
      p == Payload(f) IN
  {f, Append(f, 0), Sealed(Append(p, 0))}
    \cup {Replaced(f, i, v) : i \in 1 .. HeaderSize + 1, v \in Wild}
    \cup {Sealed(Replaced(p, i, v)) : i \in DOMAIN p, v \in Wild}
    \cup {SubSeq(f, 1, n) : n \in {0, HeaderSize - 1, Len(f) - 1}}
    \cup {Sealed(SubSeq(p, 1, n)) : n \in 0 .. Len(p) - 1}

SmallFiles == UNION {Variants(m0) : m0 \in Bases}
=============================================================================
