------------------------------ MODULE FgxFormat ------------------------------
(***************************************************************************)
(* The .fgx v1 format: what include/forgert/import/fgx.h fixes about it,   *)
(* and of the converter that writes it (tools/onnx_to_fgx.py) what it      *)
(* lets through, and encode().                                             *)
(*                                                                         *)
(* A file is a sequence of cells.  A cell is one field of the encoding, be *)
(* it of one byte or of eight, one character, the hash of the source, or   *)
(* one element of a tensor: what is a number of bytes in the code is a     *)
(* number of cells here.  A name is a sequence of characters.              *)
(***************************************************************************)
EXTENDS OperatorShapes

CONSTANTS
  MaxFileSize, MaxString, MaxCount, MaxRank,   \* kMaxFileSize, ...
  MaxDim,      \* kMaxDim, which is INT_MAX too
  Chars,       \* the characters that are valid UTF-8
  Magic,       \* "FGXM"
  Tags,        \* kSectionTags
  Crc(_)       \* crc32()

ASSUME FormatAssumption ==
  /\ {MaxFileSize, MaxString, MaxCount, MaxRank, MaxDim} \subseteq Nat
  /\ Chars \subseteq Nat
  /\ Tags \in [1 .. 6 -> Nat]
  /\ MaxDim * (MaxDim + 1) <= Wide /\ 3 * MaxDim < Wide

Version == <<1, 0>>
HeaderSize == 6
Float32 == 1
Int64 == 7
AttrInt == 1
AttrFloat == 2
AttrInts == 3

\* The sections, in the order of their tags.
Fields == <<"meta", "inputs", "outputs", "inits", "nodes", "vinf">>

\* A field that holds a signed number.
Signed(v) == IF v >= Wide \div 2 THEN v - Wide ELSE v

-----------------------------------------------------------------------------
(* What convert_model() lets through: it raises at anything else.           *)

\* _check_string(), without and with allow_empty; the text is valid UTF-8.
Strings == {s \in Seq(Chars) : Len(s) <= MaxString}
StringsNotEmpty == Strings \ {<<>>}

\* _check_count()
ListsOf(S) == {l \in Seq(S) : Len(l) <= MaxCount}

\* _check_dims()
DimLists == {d \in Seq(1 .. MaxDim) : Len(d) \in 1 .. MaxRank}

\* _value_desc()
Descs == [name : StringsNotEmpty, dtype : {Float32, Int64}, dims : DimLists]

Inits == {i \in [desc : Descs, data : Seq(Nat)] : Len(i.data) = Elements(i.desc.dims)}

Attrs ==
  [name : StringsNotEmpty, kind : {AttrInt, AttrFloat}, value : Nat]
    \cup [name : StringsNotEmpty, kind : {AttrInts}, value : ListsOf(Nat)]

\* That a node has outputs, and not too many attributes, is up to check_model().
Nodes ==
  [op : StringsNotEmpty, name : Strings, in : ListsOf(StringsNotEmpty),
   out : ListsOf(StringsNotEmpty) \ {<<>>}, attrs : ListsOf(Attrs)]

Convertible ==
  [meta : [ir : Nat, opset : Nat, producer : Strings, sha256 : Nat],
   inputs : ListsOf(Descs), outputs : ListsOf(Descs), inits : ListsOf(Inits),
   nodes : ListsOf(Nodes), vinf : ListsOf(Descs)]

-----------------------------------------------------------------------------
(* encode()                                                                 *)

Flat(seqs) ==
  LET f[i \in 0 .. Len(seqs)] == IF i = 0 THEN <<>> ELSE f[i - 1] \o seqs[i]
  IN f[Len(seqs)]

EncName(s) == <<Len(s)>> \o s

EncList(list, Enc(_)) == <<Len(list)>> \o Flat([i \in DOMAIN list |-> Enc(list[i])])

EncDesc(d) == EncName(d.name) \o <<d.dtype, Len(d.dims)>> \o d.dims

EncInit(i) == EncDesc(i.desc) \o <<Len(i.data)>> \o i.data

EncAttr(a) ==
  EncName(a.name) \o <<a.kind>>
    \o (IF a.kind = AttrInts THEN <<Len(a.value)>> \o a.value ELSE <<a.value>>)

EncNode(n) ==
  EncName(n.op) \o EncName(n.name)
    \o EncList(n.in, EncName) \o EncList(n.out, EncName) \o EncList(n.attrs, EncAttr)

EncMeta(m) == <<m.ir, m.opset>> \o EncName(m.producer) \o <<m.sha256>>

\* A header for a payload.
Sealed(payload) ==
  <<Magic>> \o Version \o <<0, HeaderSize + Len(payload), Crc(payload)>> \o payload

Encode(m) ==
  LET contents == <<EncMeta(m.meta), EncList(m.inputs, EncDesc), EncList(m.outputs, EncDesc),
                    EncList(m.inits, EncInit), EncList(m.nodes, EncNode),
                    EncList(m.vinf, EncDesc)>>
  IN Sealed(Flat([s \in 1 .. 6 |-> <<Tags[s], Len(contents[s])>> \o contents[s]]))
=============================================================================
