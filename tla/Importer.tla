------------------------------- MODULE Importer -------------------------------
(***************************************************************************)
(* ImportedModel (include/forgert/import/importer.h,                       *)
(* src/import/importer.cpp): load() reads a file and builds a Graph from   *)
(* the model, entry by entry; run() executes the graph with the weights    *)
(* after the caller's inputs.  An exception on the way leaves no model.    *)
(* Warnings and the name of a node are left out.                           *)
(***************************************************************************)
EXTENDS FgxReader

CONSTANTS
  Words,     \* name -> the operator or attribute it spells
  Loadable   \* models of supported operators

INSTANCE GraphRecords WITH Infer <- InferOutputShape, NoShape <- Throws

VARIABLES
  gr,          \* graph_
  ids,         \* value name -> graph value id
  constants,   \* int64_inits: name -> numbers
  weights,     \* contents of weights_
  at,          \* entries of the list at hand that are imported
  results      \* contents of the tensors run() returned

importVars == <<gr, ids, constants, weights, at, results>>
vars == <<readerVars, importVars>>

Init ==
  /\ ReaderInit
  /\ gr = NoGraph
  /\ ids = [x \in {} |-> 0]
  /\ constants = [x \in {} |-> <<>>]
  /\ weights = <<>>
  /\ at = 0
  /\ results = <<>>

With(f, x, v) == [y \in DOMAIN f \cup {x} |-> IF y = x THEN v ELSE f[y]]

-----------------------------------------------------------------------------
(* Attributes                                                               *)

SupportedOpset == 7

Spelt(name) == IF name \in DOMAIN Words THEN Words[name] ELSE "unknown"

\* allowedAttrs()
AllowedAttrs == [
  Conv        |-> {"dilations", "group", "kernel_shape", "pads", "strides"},
  Relu        |-> {},
  Concat      |-> {"axis"},
  MaxPool     |-> {"kernel_shape", "pads", "strides"},
  AveragePool |-> {"count_include_pad", "kernel_shape", "pads", "strides"},
  Dropout     |-> {"ratio"},
  Reshape     |-> {}]

Supported(n) ==
  /\ Spelt(n.op) \in DOMAIN AllowedAttrs
  /\ \A i \in DOMAIN n.attrs : Spelt(n.attrs[i].name) \in AllowedAttrs[Spelt(n.op)]

Has(n, word) == \E i \in DOMAIN n.attrs : Spelt(n.attrs[i].name) = word

Attr(n, word) == n.attrs[CHOOSE i \in DOMAIN n.attrs : Spelt(n.attrs[i].name) = word]

\* The attribute is there if it must be, and of its kind.
Takes(n, word, kind, required) ==
  IF Has(n, word) THEN Attr(n, word).kind = kind ELSE ~required

TakesInts(n, word, len, required) ==
  /\ Takes(n, word, AttrInts, required)
  /\ Has(n, word) => Len(Attr(n, word).value) = len

Integer(n, word, default) ==
  IF Has(n, word) THEN Signed(Attr(n, word).value) ELSE default

Ints(n, word, default) ==
  IF Has(n, word)
  THEN [i \in DOMAIN Attr(n, word).value |-> Signed(Attr(n, word).value[i])]
  ELSE default

Real(n, word, default) == IF Has(n, word) THEN Attr(n, word).value ELSE default

\* 0.5f, as a value that no cell has.
Half == -1

\* checkedInt(); INT_MAX is kMaxDim.
InInt(v, lo) == v \in lo .. MaxDim

\* readWindow(): what it accepts, and what it reads.
WindowFine(n, kernelRequired, kernel) ==
  /\ TakesInts(n, "kernel_shape", 2, kernelRequired)
  /\ TakesInts(n, "strides", 2, FALSE)
  /\ TakesInts(n, "pads", 4, FALSE)
  /\ \A i \in 1 .. 2 :
       /\ InInt(Ints(n, "kernel_shape", kernel)[i], 1)
       /\ InInt(Ints(n, "strides", <<1, 1>>)[i], 1)
       /\ LET p == Ints(n, "pads", <<0, 0, 0, 0>>) IN p[i] = p[i + 2] /\ InInt(p[i], 0)

Window(n, kernel) ==
  [kernel |-> Ints(n, "kernel_shape", kernel),
   stride |-> Ints(n, "strides", <<1, 1>>),
   pad    |-> SubSeq(Ints(n, "pads", <<0, 0, 0, 0>>), 1, 2)]

-----------------------------------------------------------------------------
(* The operator of a node, sh being the shapes of its tensor inputs and     *)
(* held the constants                                                       *)

Arity(n, least, most) == Len(n.in) \in least .. most /\ Len(n.out) = 1

\* narrowInt64ToInt32() and the constructor of ReshapeOp accept the target.
TargetFine(target) == \A i \in DOMAIN target : target[i] \in -1 .. MaxDim

Buildable(n, sh, held) ==
  LET op == Spelt(n.op) IN
  CASE op = "Conv" ->
         /\ Arity(n, 2, 3)
         /\ Len(sh[2]) = 4
         /\ Takes(n, "group", AttrInt, FALSE) /\ Integer(n, "group", 1) = 1
         /\ TakesInts(n, "dilations", 2, FALSE) /\ Ints(n, "dilations", <<1, 1>>) = <<1, 1>>
         /\ WindowFine(n, FALSE, SubSeq(sh[2], 3, 4))
         /\ Window(n, SubSeq(sh[2], 3, 4)).kernel = SubSeq(sh[2], 3, 4)
    [] op = "Concat" ->
         /\ Arity(n, 2, Len(n.in))
         /\ Takes(n, "axis", AttrInt, TRUE)
         /\ Integer(n, "axis", 0) \in -Len(sh[1]) .. Len(sh[1]) - 1
    [] op \in {"MaxPool", "AveragePool"} ->
         /\ Arity(n, 1, 1)
         /\ WindowFine(n, TRUE, <<>>)
         /\ Takes(n, "count_include_pad", AttrInt, FALSE)
         /\ Integer(n, "count_include_pad", 0) \in {0, 1}
    [] op = "Dropout" -> Arity(n, 1, 1) /\ Takes(n, "ratio", AttrFloat, FALSE)
    [] op = "Relu" -> Arity(n, 1, 1)
    [] op = "Reshape" ->
         /\ Arity(n, 2, 2)
         /\ n.in[2] \in DOMAIN held
         /\ TargetFine(held[n.in[2]])

Built(n, sh, held) ==
  LET op == Spelt(n.op)
      axis == Integer(n, "axis", 0) IN
  CASE op = "Conv" -> [name |-> "Conv2D", window |-> Window(n, SubSeq(sh[2], 3, 4))]
    [] op = "Concat" ->
         [name |-> "Concat", axis |-> IF axis < 0 THEN axis + Len(sh[1]) ELSE axis]
    [] op = "MaxPool" -> [name |-> "MaxPool2D", window |-> Window(n, <<>>)]
    [] op = "AveragePool" ->
         [name |-> "AveragePool2D", window |-> Window(n, <<>>),
          count_include_pad |-> Integer(n, "count_include_pad", 0)]
    [] op = "Dropout" -> [name |-> "Dropout", ratio |-> Real(n, "ratio", Half)]
    [] op = "Relu" -> [name |-> "ReLU"]
    [] op = "Reshape" -> [name |-> "Reshape", target |-> held[n.in[2]]]

-----------------------------------------------------------------------------
(* fromFgx()                                                                *)

\* The next list of the model once all entries of this one are imported.
Done(here, list, next) ==
  /\ status = here
  /\ at = Len(list)
  /\ status' = next
  /\ at' = 0
  /\ UNCHANGED <<file, section, pos, end, model, gr, ids, constants, weights, results>>

\* An entry that is fine is imported; at another the import ends.
Entry(here, list, Fine(_), Effect(_)) ==
  /\ status = here
  /\ at < Len(list)
  /\ IF Fine(list[at + 1])
     THEN /\ Effect(list[at + 1])
          /\ at' = at + 1
          /\ UNCHANGED status
     ELSE /\ status' = "refused"
          /\ UNCHANGED <<gr, ids, constants, weights, at>>
  /\ UNCHANGED <<file, section, pos, end, model, results>>

CheckOpset ==
  /\ status = "parsed"
  /\ status' = IF model.meta.opset = SupportedOpset THEN "inputs" ELSE "refused"
  /\ UNCHANGED <<file, section, pos, end, model, importVars>>

InputFine(d) == d.dtype = Float32

AddInput(d) ==
  /\ gr' = WithInput(gr, d.dims)
  /\ ids' = With(ids, d.name, gr.next)
  /\ UNCHANGED <<constants, weights>>

ImportInput == Entry("inputs", model.inputs, InputFine, AddInput)

\* Mutant: negative numbers are taken for large ones.
DecodeUnsigned(i) == i.data

\* decodeInt64()
Decode(i) == [k \in DOMAIN i.data |-> Signed(i.data[k])]

InitFine(i) == i.desc.dtype = Int64 \/ Len(i.data) = Elements(i.desc.dims)

\* Mutant: the data of int64 initializers is kept among the weights too.
AddInitKeepingAll(i) ==
  /\ weights' = Append(weights, i.data)
  /\ IF i.desc.dtype = Int64
     THEN /\ constants' = With(constants, i.desc.name, Decode(i))
          /\ UNCHANGED <<gr, ids>>
     ELSE /\ gr' = WithInput(gr, i.desc.dims)
          /\ ids' = With(ids, i.desc.name, gr.next)
          /\ UNCHANGED constants

\* int64 is held for Reshape; float32 becomes one more input, and a frozen weight.
AddInit(i) ==
  IF i.desc.dtype = Int64
  THEN /\ constants' = With(constants, i.desc.name, Decode(i))
       /\ UNCHANGED <<gr, ids, weights>>
  ELSE /\ gr' = WithInput(gr, i.desc.dims)
       /\ ids' = With(ids, i.desc.name, gr.next)
       /\ weights' = Append(weights, i.data)
       /\ UNCHANGED constants

ImportInit == Entry("inits", model.inits, InitFine, AddInit)

\* The names of the tensors a node reads: not the shape that Reshape folds.
Tensors(n) ==
  IF Spelt(n.op) = "Reshape" /\ Len(n.in) >= 2
  THEN <<n.in[1]>> \o SubSeq(n.in, 3, Len(n.in))
  ELSE n.in

Resolvable(n) ==
  \A i \in DOMAIN Tensors(n) :
    Tensors(n)[i] \notin DOMAIN constants /\ Tensors(n)[i] \in DOMAIN ids

InIds(n) == [i \in DOMAIN Tensors(n) |-> ids[Tensors(n)[i]]]

OpOf(n) == Built(n, ShapesOf(gr, InIds(n)), constants)

\* Mutant: only the number of dimensions is compared.
SameRank(list, name, dims) ==
  \A i \in DOMAIN list :
    list[i].name = name => list[i].dtype = Float32 /\ Len(list[i].dims) = Len(dims)

\* The descriptor of name in list, if there is one, is of a float32 of dims.
Declared(list, name, dims) ==
  \A i \in DOMAIN list :
    list[i].name = name => list[i].dtype = Float32 /\ list[i].dims = dims

NodeFine(n) ==
  /\ Supported(n)
  /\ Resolvable(n)
  /\ Buildable(n, ShapesOf(gr, InIds(n)), constants)
  /\ Accepts(gr, OpOf(n), InIds(n))
  /\ Declared(model.vinf, n.out[1], InferOutputShape(OpOf(n), ShapesOf(gr, InIds(n))))

AddNode(n) ==
  /\ gr' = WithNode(gr, OpOf(n), InIds(n))
  /\ ids' = With(ids, n.out[1], gr.next)
  /\ UNCHANGED <<constants, weights>>

ImportNode == Entry("nodes", model.nodes, NodeFine, AddNode)

OutputFine(d) ==
  /\ d.dtype = Float32
  /\ d.name \in DOMAIN ids
  /\ gr.shape[ids[d.name]] = d.dims

MarkOutput(d) ==
  /\ gr' = WithOutput(gr, ids[d.name])
  /\ UNCHANGED <<ids, constants, weights>>

ImportOutput == Entry("outputs", model.outputs, OutputFine, MarkOutput)

\* validate() refuses a graph without outputs; cycles are dealt with in Graph.
Validate ==
  /\ status = "built"
  /\ status' = IF gr.outputs # <<>> THEN "imported" ELSE "refused"
  /\ UNCHANGED <<file, section, pos, end, model, importVars>>

FromFgx ==
  \/ CheckOpset
  \/ ImportInput  \/ Done("inputs", model.inputs, "inits")
  \/ ImportInit   \/ Done("inits", model.inits, "nodes")
  \/ ImportNode   \/ Done("nodes", model.nodes, "outputs")
  \/ ImportOutput \/ Done("outputs", model.outputs, "built")
  \/ Validate

-----------------------------------------------------------------------------
(* run()                                                                    *)

\* What the caller passes for an input of the model.
Passed(name) == <<"input", name>>

\* The caller's inputs, followed by the weights.
GraphInputs == [i \in DOMAIN model.inputs |-> Passed(model.inputs[i].name)] \o weights

\* Graph::execute() returns what its outputs denote: see Graph!ResultsDenoted.
\* A run that throws changes nothing and is no step.
Run ==
  /\ status = "imported"
  /\ \E q \in Ascending(Found(gr)) :
       results' = [k \in DOMAIN q |-> Denotation(gr, GraphInputs)[gr.outputs[q[k]]]]
  /\ status' = "ran"
  /\ UNCHANGED <<file, section, pos, end, model, gr, ids, constants, weights, at>>

Next ==
  \/ ReaderNext /\ UNCHANGED importVars
  \/ FromFgx
  \/ Run

Spec == Init /\ [][Next]_vars

-----------------------------------------------------------------------------
(***************************************************************************)
(* Properties                                                              *)
(***************************************************************************)

Imported == status \in {"imported", "ran"}

Sint == -(Wide \div 2) .. Wide \div 2 - 1

\* Every name that was imported is of a value of the graph or of a constant, not
\* of both, and constants are the numbers that were written.
TypeOK ==
  /\ status \in {"opened", "reading", "rejected", "parsed", "inputs", "inits", "nodes",
                 "outputs", "built", "refused", "imported", "ran"}
  /\ \A x \in DOMAIN ids : ids[x] \in Values(gr)
  /\ DOMAIN ids \cap DOMAIN constants = {}
  /\ \A x \in DOMAIN constants : \A i \in DOMAIN constants[x] : constants[x][i] \in Sint
  /\ Len(gr.inputs) = Len(weights) + (IF status = "inputs" THEN at
                                      ELSE Cardinality(Members(Names(model.inputs)) \cap DOMAIN ids))
  /\ WellFormed(gr)

\* The int64 initializers of a model.
HeldOf(m) ==
  LET held == {k \in DOMAIN m.inits : m.inits[k].desc.dtype = Int64} IN
  [x \in {m.inits[k].desc.name : k \in held} |->
     Decode(m.inits[CHOOSE k \in held : m.inits[k].desc.name = x])]

\* The names of its other values that are given, and their shapes.
GivenOf(m) ==
  LET given == Members(m.inputs)
                 \cup {d \in {m.inits[k].desc : k \in DOMAIN m.inits} : d.dtype = Float32}
  IN [x \in {d.name : d \in given} |-> (CHOOSE d \in given : d.name = x).dims]

\* The shapes of what node n reads, s being those of the values before it.
InShapes(n, s) == [i \in DOMAIN Tensors(n) |-> s[Tensors(n)[i]]]

OutShape(m, n, s) == InferOutputShape(Built(n, InShapes(n, s), HeldOf(m)), InShapes(n, s))

\* The shapes of the values given and of those that the first k nodes compute.
ShapesAfter(m, k) ==
  LET s[i \in 0 .. k] ==
        IF i = 0 THEN GivenOf(m)
        ELSE LET n == m.nodes[i] IN With(s[i - 1], n.out[1], OutShape(m, n, s[i - 1]))
  IN s[k]

\* Node k is of an operator that is supported, as its attributes and inputs are,
\* and the shape declared for its output, if one is, is the one it has.
Computable(m, k) ==
  LET n == m.nodes[k]
      s == ShapesAfter(m, k - 1) IN
  /\ Supported(n)
  /\ Members(Tensors(n)) \subseteq DOMAIN s
  /\ Buildable(n, InShapes(n, s), HeldOf(m))
  /\ OutShape(m, n, s) # Throws
  /\ Declared(m.vinf, n.out[1], OutShape(m, n, s))

\* Model m is of supported operators, and of the shapes that it declares.
Computes(m) ==
  LET s == ShapesAfter(m, Len(m.nodes)) IN
  /\ m.meta.opset = SupportedOpset
  /\ \A i \in DOMAIN m.inputs : m.inputs[i].dtype = Float32
  /\ \A k \in DOMAIN m.nodes : Computable(m, k)
  /\ m.outputs # <<>>
  /\ \A i \in DOMAIN m.outputs :
       /\ m.outputs[i].dtype = Float32
       /\ m.outputs[i].name \in DOMAIN s
       /\ m.outputs[i].dims = s[m.outputs[i].name]

ASSUME LoadableAssumption == \A m \in Loadable : m \in Models /\ Computes(m)

\* What the converter writes for models of supported operators: files that are
\* not too large.
Written == {f \in {Encode(m) : m \in Loadable} : Len(f) <= MaxFileSize}

\* A file that the converter writes for a well-formed model of supported
\* operators is loaded: no bound of the reader is too strict for it.
WrittenIsLoaded == status \in {"rejected", "refused"} => file \notin Written

\* What the reader lets through is defined where the importer looks it up: its
\* two "not defined" exceptions are only thrown for int64 constants.
NothingDangling ==
  /\ status = "nodes" /\ at < Len(model.nodes) =>
       Members(model.nodes[at + 1].in) \subseteq DOMAIN ids \cup DOMAIN constants
  /\ status = "outputs" =>
       Members(Names(model.outputs)) \subseteq DOMAIN ids \cup DOMAIN constants

\* What a name stands for in the model.
Meaning ==
  LET m[x \in DOMAIN ids] ==
        IF x \in Members(Names(model.inputs)) THEN Passed(x)
        ELSE IF x \in Members(InitNames(model))
        THEN LET i == CHOOSE k \in DOMAIN model.inits : InitNames(model)[k] = x IN
             model.inits[i].data
        ELSE LET k == CHOOSE j \in DOMAIN model.nodes : x \in Members(model.nodes[j].out)
                 n == model.nodes[k] IN
             <<OpOf(n), [i \in DOMAIN Tensors(n) |-> m[Tensors(n)[i]]]>>
  IN m

Computed(name) == \E k \in DOMAIN model.nodes : name \in Members(model.nodes[k].out)

\* run() "returns outputs in outputNames() order" (importer.h:103), each with
\* the contents its name stands for in the file, weights bound by name and not
\* by position, if all outputs are computed.
RunReturnsOutputs ==
  status = "ran" /\ (\A i \in DOMAIN model.outputs : Computed(model.outputs[i].name)) =>
    results = [i \in DOMAIN model.outputs |-> Meaning[model.outputs[i].name]]

Expected(name) ==
  {model.vinf[i].dims : i \in {k \in DOMAIN model.vinf : model.vinf[k].name = name}}
    \cup {model.outputs[i].dims : i \in {k \in DOMAIN model.outputs : model.outputs[k].name = name}}

\* Every computed value has the shape that the file gives for it, wherever the
\* file gives one.
ShapesDeclared ==
  Imported =>
    \A x \in DOMAIN ids : Computed(x) => Expected(x) \subseteq {gr.shape[ids[x]]}

\* An axis of a convolution or pooling has one output for every position of
\* the window on the padded input.  The unsigned arithmetic of a window that
\* does not fit gives other results, never one that a file could declare.
WindowsFit ==
  Imported =>
    \A k \in NodeIds(gr) :
      LET n == gr.nodes[k]
          in == gr.shape[n.in[1]] IN
      "window" \in DOMAIN n.op =>
        \A a \in 1 .. 2 :
          LET padded == in[a + 2] + 2 * n.op.window.pad[a]
              w == n.op.window IN
          /\ in[a + 2] \in 1 .. MaxDim
          /\ w.kernel[a] <= padded \/ \E x \in DOMAIN ids : ids[x] = n.out /\ Expected(x) # {}
          =>
          gr.shape[n.out][a + 2] =
            Cardinality({o \in 0 .. padded : o * w.stride[a] + w.kernel[a] <= padded})

\* Reshape copies all of its input and nothing else.
ReshapeKeepsElements ==
  Imported =>
    \A k \in NodeIds(gr) :
      gr.nodes[k].op.name = "Reshape" =>
        Elements(gr.shape[gr.nodes[k].out]) = Elements(gr.shape[gr.nodes[k].in[1]])
=============================================================================
