---------------------------- MODULE MCOperators ----------------------------
(* Small models for CudaDevice: calls of every operator on both backends,  *)
(* with sizes that leave something over in the last block, tile and warp.  *)
EXTENDS CudaDevice

\* A growing positive function on -20 .. 0.
Powers(d) == 2 ^ ((d + 20) \div 2)

Least == -999

\* A tensor of mixed signs, different for each seed.
T(shape, seed) ==
  [shape |-> shape, data |-> [i \in Below(Elements(shape)) |-> ((7 * i * i + 3 * i + seed) % 11) - 5]]

Fill(shapes) == [i \in DOMAIN shapes |-> T(shapes[i], 2 * i)]

\* A call that allocates what execute() expects.
Fit(op, shapes, backend) ==
  [op |-> op, in |-> Fill(shapes), out |-> InferOutputShape(op, shapes), backend |-> backend]

Both(op, shapes) == {Fit(op, shapes, "CPU"), Fit(op, shapes, "CUDA")}

Named(name) == [name |-> name]
Win(k, s, p) == [kernel |-> k, stride |-> s, pad |-> p]
Conv(w) == [name |-> "Conv2D", window |-> w]
MaxPool(w) == [name |-> "MaxPool2D", window |-> w]
AvgPool(w, count) == [name |-> "AveragePool2D", window |-> w, count_include_pad |-> count]
Concat(axis) == [name |-> "Concat", axis |-> axis]
Reshape(target) == [name |-> "Reshape", target |-> target]

AddCalls ==
  UNION {Both(Named("Add"), s) :
    s \in {<<<<5>>, <<5>>>>, <<<<2, 3>>, <<3>>>>, <<<<2, 1>>, <<1, 3>>>>, <<<<2, 1, 2>>, <<2, 1>>>>,
           <<<<1, 4>>, <<4>>>>, <<<<1>>, <<3, 3>>>>, <<<<0>>, <<1>>>>, <<<<1, 1, 1, 2>>, <<2>>>>}}

MatMulCalls ==
  UNION {Both(Named("MatMul"), s) :
    s \in {<<<<1, 1>>, <<1, 1>>>>, <<<<2, 3>>, <<3, 2>>>>, <<<<3, 2>>, <<2, 1>>>>,
           <<<<1, 4>>, <<4, 3>>>>}}

RowCalls ==
  UNION {Both(Named(name), <<s>>) : name \in {"Softmax", "LayerNorm"},
                                    s \in {<<1>>, <<3>>, <<5>>, <<9>>, <<2, 3>>, <<2, 1, 4>>}}

ReLUCalls == UNION {Both(Named("ReLU"), <<s>>) : s \in {<<1>>, <<4>>, <<5>>, <<3, 3>>, <<2, 0>>}}

Single == <<<<1, 2, 2, 2>>, <<2, 2, 1, 2>>, <<2>>>>
Batch == <<<<2, 1, 2, 2>>, <<2, 1, 2, 1>>, <<2>>>>

ConvCalls ==
  Both(Conv(Win(<<1, 2>>, <<1, 1>>, <<0, 0>>)), Single)
    \cup Both(Conv(Win(<<2, 2>>, <<2, 1>>, <<1, 0>>)), <<<<1, 1, 3, 2>>, <<3, 1, 2, 2>>>>)
    \cup Both(Conv(Win(<<1, 2>>, <<1, 2>>, <<0, 1>>)), <<<<1, 2, 1, 3>>, <<1, 2, 1, 2>>, <<1>>>>)
    \cup {Fit(Conv(Win(<<2, 1>>, <<1, 1>>, <<0, 1>>)), Batch, "CPU")}
    \cup Both(Conv(Win(<<1, 1>>, <<1, 1>>, <<0, 0>>)), <<<<1, 0, 1, 1>>, <<1, 0, 1, 1>>>>)

PoolCalls ==
  {Fit(op, <<s>>, "CPU") :
     op \in UNION {{MaxPool(w), AvgPool(w, TRUE), AvgPool(w, FALSE)} :
                   w \in {Win(<<2, 2>>, <<1, 1>>, <<1, 0>>), Win(<<2, 3>>, <<2, 1>>, <<1, 1>>),
                          Win(<<3, 2>>, <<2, 2>>, <<0, 0>>)}},
     s \in {<<2, 2, 3, 4>>, <<1, 1, 4, 3>>}}

CopyCalls ==
  {Fit(Concat(d), <<<<2, 2, 2>>, <<2, 2, 2>>>>, "CPU") : d \in {0, 1, 2}}
    \cup {Fit(Concat(1), <<<<2, 1>>, <<2, 3>>, <<2, 2>>>>, "CPU"),
          Fit(Reshape(<<0, -1>>), <<<<2, 3, 2>>>>, "CPU"),
          Fit(Named("Dropout"), <<<<2, 2>>>>, "CPU")}

\* Calls that execute() refuses.
OddCalls ==
  {Fit(Named("Dropout"), <<<<2, 2>>>>, "CUDA"),
   Fit(Named("Add"), <<<<2>>, <<3>>>>, "CPU"),
   Fit(Named("MatMul"), <<<<2, 3>>, <<2, 3>>>>, "CUDA"),
   [Fit(Named("ReLU"), <<<<2, 2>>>>, "CUDA") EXCEPT !.out = <<3>>],
   [Fit(Reshape(<<4>>), <<<<2, 2>>>>, "CPU") EXCEPT !.out = <<2, 2>>]}

AllCalls ==
  AddCalls \cup MatMulCalls \cup RowCalls \cup ReLUCalls \cup ConvCalls
    \cup PoolCalls \cup CopyCalls \cup OddCalls

\* A convolution of two images on the device.
BatchCalls == {Fit(Conv(Win(<<2, 1>>, <<1, 1>>, <<0, 1>>)), Batch, "CUDA")}
=============================================================================
