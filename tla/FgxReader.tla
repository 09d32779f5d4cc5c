------------------------------ MODULE FgxReader ------------------------------
(***************************************************************************)
(* fgx::parse() (src/import/fgx_reader.cpp): the header, the six sections  *)
(* of the file and the well-formedness of the graph, in this order.  Any   *)
(* exception leaves the file rejected; which one is not distinguished.     *)
(***************************************************************************)
EXTENDS FgxFormat

CONSTANTS
  Files,       \* what there is to read
  Models       \* well-formed models, for the properties

\* No field of the payload is wider than a u64, but the hash in its meta section,
\* which is not computed with: hashes are numbered.
ASSUME ReaderAssumption ==
  /\ Files \subseteq Seq(Nat)
  /\ \A f \in Files : \A i \in HeaderSize + 1 .. Len(f) : f[i] < Wide

VARIABLES
  file,
  status,      \* what becomes of the file, then of the model
  section,     \* sections read
  pos, end,    \* the cursor, and the end of its section
  model        \* what was read so far

readerVars == <<file, status, section, pos, end, model>>

EmptyModel == [meta |-> <<>>, inputs |-> <<>>, outputs |-> <<>>,
               inits |-> <<>>, nodes |-> <<>>, vinf |-> <<>>]

ReaderInit ==
  /\ file \in Files
  /\ status = "opened"
  /\ section = 0
  /\ pos = 0 /\ end = 0
  /\ model = EmptyModel

-----------------------------------------------------------------------------
(* Cursor: at cells were consumed, those up to end may be; v is what was    *)
(* read last, and ok is FALSE once a check has failed.                      *)

Cursor(from, to) == [at |-> from, end |-> to, ok |-> TRUE, v |-> 0]

Fail(c) == [c EXCEPT !.ok = FALSE]

\* Beyond the file there is no telling what would be read.
CellAt(i) == IF i \in DOMAIN file THEN file[i] ELSE 0

Take(c, n, value) == [c EXCEPT !.at = @ + n, !.v = value]

\* Mutant: the cursor is bounded by nothing.
UnboundedField(c) == IF c.ok THEN Take(c, 1, CellAt(c.at + 1)) ELSE c

\* u8(), u32(), u64(), i64() and f32().
Field(c) ==
  IF c.ok /\ 1 <= c.end - c.at THEN Take(c, 1, CellAt(c.at + 1)) ELSE Fail(c)

\* The value just read must be one of S.
Among(c, S) == IF c.ok /\ c.v \in S THEN c ELSE Fail(c)

\* str()
Str(c, allowEmpty) ==
  LET n == Field(c)
      s == [i \in 1 .. n.v |-> CellAt(n.at + i)] IN
  IF /\ n.ok
     /\ n.v <= MaxString
     /\ n.v <= n.end - n.at
     /\ \A i \in 1 .. n.v : s[i] \in Chars
     /\ n.v > 0 \/ allowEmpty
  THEN Take(n, n.v, s)
  ELSE Fail(n)

Name(c) == Str(c, FALSE)

\* e, with what was read last after what was read before.
Collect(done, e) ==
  IF done.ok /\ e.ok THEN [e EXCEPT !.v = Append(done.v, @)] ELSE Fail(e)

\* n times Read, the values in a sequence.
Times(c, n, Read(_)) ==
  LET r[i \in 0 .. n] ==
        IF i = 0 THEN [c EXCEPT !.v = <<>>]
        ELSE LET done == r[i - 1]
                 e == Read(done) IN Collect(done, e)
  IN r[n]

\* count(), and as many entries: a count that cannot fit is refused first.
List(c, least, Read(_)) ==
  LET n == Field(c) IN
  IF n.ok /\ n.v <= MaxCount /\ n.v * least <= n.end - n.at
  THEN Times(n, n.v, Read)
  ELSE Fail(n)

\* The least sizes of what lists hold.
MinTensorDesc == 4    \* name len + dtype + rank + one dim
MinInit == 5          \* tensor desc + byte_length
MinString == 1
MinAttr == 3          \* name len + kind + smallest payload

\* Mutant: two strings, three counts, an input and an output, all of them
\* with a name.
MinNodeNamed == 11

MinNode == 7          \* two strings, three counts, one output

-----------------------------------------------------------------------------
(* The sections                                                             *)

ReadMeta(c) ==
  LET ir == Field(c)
      opset == Field(ir)
      producer == Str(opset, TRUE)
      sha256 == Field(producer) IN
  IF sha256.ok
  THEN [sha256 EXCEPT !.v = [ir |-> ir.v, opset |-> opset.v,
                             producer |-> producer.v, sha256 |-> sha256.v]]
  ELSE sha256

\* v < 1 || v > kMaxDim, of a signed number.
ReadDim(c) == Among(Field(c), 1 .. MaxDim)

\* No prefix of the dimensions overflows.
Countable(dims) ==
  LET p[i \in 0 .. Len(dims)] ==
        IF i = 0 THEN 1
        ELSE LET before == p[i - 1] IN IF before < Wide THEN before * dims[i] ELSE Wide
  IN p[Len(dims)] < Wide

\* Mutant: the overflow of the number of elements is not looked for.
ReadDescWrapping(c) ==
  LET name == Name(c)
      dtype == Among(Field(name), {Float32, Int64})
      rank == Among(Field(dtype), 1 .. MaxRank) IN
  IF ~rank.ok THEN rank
  ELSE LET dims == Times(rank, rank.v, ReadDim) IN
       IF dims.ok
       THEN [dims EXCEPT !.v = [name |-> name.v, dtype |-> dtype.v, dims |-> dims.v]]
       ELSE Fail(dims)

ReadDesc(c) ==
  LET name == Name(c)
      dtype == Among(Field(name), {Float32, Int64})
      rank == Among(Field(dtype), 1 .. MaxRank) IN
  IF ~rank.ok THEN rank
  ELSE LET dims == Times(rank, rank.v, ReadDim) IN
       IF dims.ok /\ Countable(dims.v)
       THEN [dims EXCEPT !.v = [name |-> name.v, dtype |-> dtype.v, dims |-> dims.v]]
       ELSE Fail(dims)

\* byteSize() is Elements(): unsigned, unchecked.
ReadInit(c) ==
  LET desc == ReadDesc(c)
      length == Field(desc) IN
  IF length.ok /\ length.v = Elements(desc.v.dims) /\ length.v <= length.end - length.at
  THEN Take(length, length.v,
            [desc |-> desc.v, data |-> [i \in 1 .. length.v |-> CellAt(length.at + i)]])
  ELSE Fail(length)

ReadAttr(c) ==
  LET name == Name(c)
      kind == Among(Field(name), {AttrInt, AttrFloat, AttrInts}) IN
  IF ~kind.ok THEN kind
  ELSE LET value == IF kind.v = AttrInts THEN List(kind, 1, Field) ELSE Field(kind) IN
       IF value.ok
       THEN [value EXCEPT !.v = [name |-> name.v, kind |-> kind.v, value |-> value.v]]
       ELSE value

ReadNode(c) ==
  LET op == Name(c)
      name == Str(op, TRUE)
      in == List(name, MinString, Name)
      out == List(in, MinString, Name)
      attrs == List(out, MinAttr, ReadAttr) IN
  IF attrs.ok /\ out.v # <<>>
  THEN [attrs EXCEPT !.v = [op |-> op.v, name |-> name.v, in |-> in.v, out |-> out.v,
                            attrs |-> attrs.v]]
  ELSE Fail(attrs)

Content(s, c) ==
  CASE Fields[s] = "meta"  -> ReadMeta(c)
    [] Fields[s] = "inits" -> List(c, MinInit, ReadInit)
    [] Fields[s] = "nodes" -> List(c, MinNode, ReadNode)
    [] OTHER               -> List(c, MinTensorDesc, ReadDesc)

-----------------------------------------------------------------------------
(* validateGraph()                                                          *)

Distinct(seq) == \A i, j \in DOMAIN seq : i # j => seq[i] # seq[j]

Names(list) == [i \in DOMAIN list |-> list[i].name]

InitNames(m) == [i \in DOMAIN m.inits |-> m.inits[i].desc.name]

Members(seq) == {seq[i] : i \in DOMAIN seq}

\* The names defined before node k.
DefinedBefore(m, k) ==
  Members(Names(m.inputs)) \cup Members(InitNames(m))
    \cup UNION {Members(m.nodes[j].out) : j \in 1 .. k - 1}

\* Mutant: the outputs are inserted before the inputs are looked up.
ValidNodeReadingItself(m, k) ==
  LET n == m.nodes[k] IN
  /\ Members(n.in) \subseteq DefinedBefore(m, k + 1)
  /\ Distinct(Names(n.attrs))
  /\ Distinct(n.out)
  /\ Members(n.out) \cap DefinedBefore(m, k) = {}

ValidNode(m, k) ==
  LET n == m.nodes[k] IN
  /\ Members(n.in) \subseteq DefinedBefore(m, k)
  /\ Distinct(Names(n.attrs))
  /\ Distinct(n.out)
  /\ Members(n.out) \cap DefinedBefore(m, k) = {}

Valid(m) ==
  /\ Distinct(Names(m.inputs)) /\ Distinct(Names(m.outputs)) /\ Distinct(Names(m.vinf))
  /\ Distinct(InitNames(m))
  /\ Members(InitNames(m)) \cap Members(Names(m.inputs)) = {}
  /\ \A k \in DOMAIN m.nodes : ValidNode(m, k)
  /\ Members(Names(m.outputs)) \subseteq DefinedBefore(m, Len(m.nodes) + 1)

\* The descriptors of a model.
DescsOf(m) ==
  Members(m.inputs) \cup Members(m.outputs) \cup Members(m.vinf)
    \cup {m.inits[i].desc : i \in DOMAIN m.inits}

\* A well-formed model is one that the converter lets through, and check_model()
\* with it.  Products of dimensions are looked at by neither: docs/FGX_FORMAT.md
\* asks for them to fit.
ASSUME ModelsAssumption ==
  \A m \in Models :
    /\ m \in Convertible
    /\ Valid(m)
    /\ \A d \in DescsOf(m) : Countable(d.dims)

-----------------------------------------------------------------------------
(* parse()                                                                  *)

Payload(f) == SubSeq(f, HeaderSize + 1, Len(f))

ReadHeader ==
  /\ status = "opened"
  /\ IF /\ Len(file) \in HeaderSize .. MaxFileSize
        /\ SubSeq(file, 1, 5) = <<Magic>> \o Version \o <<0, Len(file)>>
        /\ file[6] = Crc(Payload(file))
     THEN status' = "reading" /\ pos' = HeaderSize /\ end' = HeaderSize
     ELSE status' = "rejected" /\ UNCHANGED <<pos, end>>
  /\ UNCHANGED <<file, section, model>>

\* A section has a header that is complete, with the right tag and a length
\* that fits.
SectionFits(s) ==
  /\ Len(file) - pos >= 2
  /\ file[pos + 1] = Tags[s]
  /\ file[pos + 2] <= Len(file) - pos - 2

\* Mutant: what is left of a section is skipped.
ReadSectionSkipping ==
  LET s == section + 1 IN
  /\ status = "reading"
  /\ s <= 6
  /\ IF SectionFits(s)
     THEN \E c \in {Content(s, Cursor(pos + 2, pos + 2 + file[pos + 2]))} :
          /\ end' = c.end
          /\ IF c.ok
             THEN /\ model' = [model EXCEPT ![Fields[s]] = c.v]
                  /\ pos' = c.end
                  /\ section' = s
                  /\ UNCHANGED status
             ELSE pos' = c.at /\ status' = "rejected" /\ UNCHANGED <<section, model>>
     ELSE status' = "rejected" /\ UNCHANGED <<section, pos, end, model>>
  /\ UNCHANGED file

\* The content of a section must use up its length.
ReadSection ==
  LET s == section + 1 IN
  /\ status = "reading"
  /\ s <= 6
  /\ IF SectionFits(s)
     THEN \E c \in {Content(s, Cursor(pos + 2, pos + 2 + file[pos + 2]))} :
          /\ end' = c.end
          /\ pos' = c.at
          /\ IF c.ok /\ c.at = c.end
             THEN /\ model' = [model EXCEPT ![Fields[s]] = c.v]
                  /\ section' = s
                  /\ UNCHANGED status
             ELSE status' = "rejected" /\ UNCHANGED <<section, model>>
     ELSE status' = "rejected" /\ UNCHANGED <<section, pos, end, model>>
  /\ UNCHANGED file

\* Nothing may follow the sections.
ValidateGraph ==
  /\ status = "reading"
  /\ section = 6
  /\ status' = IF pos = Len(file) /\ Valid(model) THEN "parsed" ELSE "rejected"
  /\ UNCHANGED <<file, section, pos, end, model>>

ReaderNext == ReadHeader \/ ReadSection \/ ValidateGraph

-----------------------------------------------------------------------------
(***************************************************************************)
(* Properties                                                              *)
(***************************************************************************)

\* Whatever the lengths and counts in a file say, a section is not read beyond
\* its end, which is not beyond that of the file.
InBounds == pos <= end /\ end <= Len(file)

Parsed == status \notin {"opened", "reading", "rejected"}

\* Reader and converter agree on the format: a file that is parsed is the one
\* the converter writes for the model returned.  No cell was skipped, read
\* twice or taken for another field.
ParsedIsWritten == Parsed => file = Encode(model)

\* An initializer has as much data as its dimensions say, although the number
\* is computed without looking for an overflow.
InitsComplete ==
  Parsed =>
    \A i \in DOMAIN model.inits :
      LET dims == model.inits[i].desc.dims
          p[k \in 0 .. Len(dims)] == IF k = 0 THEN 1 ELSE p[k - 1] * dims[k] IN
      Len(model.inits[i].data) = p[Len(dims)]
=============================================================================
