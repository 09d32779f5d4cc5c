---------------------------- MODULE ReaderProofs ----------------------------
(***************************************************************************)
(* Theorems about FgxReader, for every file.                               *)
(***************************************************************************)
EXTENDS Importer, SequenceTheorems, TLAPS

-----------------------------------------------------------------------------
(* Cells and cursors *)

\* The fields of the payload are no wider than a u64.
Narrow == \A i \in HeaderSize + 1 .. Len(file) : file[i] < Wide

\* A cursor, within its section and within the file, behind the header.
Sound(c) ==
  /\ c = [at |-> c.at, end |-> c.end, ok |-> c.ok, v |-> c.v]
  /\ c.at \in Nat /\ HeaderSize <= c.at /\ c.end \in Nat /\ c.ok \in BOOLEAN
  /\ c.at <= c.end /\ c.end <= Len(file)

\* cells are those of the file after the first from.
CellsAt(from, cells) ==
  /\ cells \in Seq(Nat)
  /\ from + Len(cells) <= Len(file)
  /\ \A i \in 1 .. Len(cells) : file[from + i] = cells[i]

\* The cursor d is c moved on over these cells, if all went well.
Reads(c, d, cells) ==
  /\ Sound(d)
  /\ d.end = c.end
  /\ d.ok => /\ c.ok
             /\ CellsAt(c.at, cells)
             /\ d.at = c.at + Len(cells)

\* Cells that follow each other.
LEMMA CellsJoin ==
  ASSUME NEW from \in Nat, NEW x, NEW y, CellsAt(from, x), CellsAt(from + Len(x), y)
  PROVE  CellsAt(from, x \o y) /\ Len(x \o y) = Len(x) + Len(y)
<1>1. /\ x \in Seq(Nat) /\ y \in Seq(Nat) /\ Len(x) \in Nat /\ Len(y) \in Nat
      /\ from + Len(x) + Len(y) <= Len(file)
      /\ \A i \in 1 .. Len(x) : file[from + i] = x[i]
      /\ \A i \in 1 .. Len(y) : file[from + Len(x) + i] = y[i]
  BY DEF CellsAt
<1>2. /\ x \o y \in Seq(Nat) /\ Len(x \o y) = Len(x) + Len(y)
      /\ \A i \in 1 .. Len(x) + Len(y) :
           (x \o y)[i] = IF i <= Len(x) THEN x[i] ELSE y[i - Len(x)]
  BY <1>1, ConcatProperties
<1>3. ASSUME NEW i \in 1 .. Len(x) + Len(y) PROVE file[from + i] = (x \o y)[i]
  <2>1. CASE i <= Len(x)
    BY <1>1, <1>2, <2>1
  <2>2. CASE i > Len(x)
    <3>1. i - Len(x) \in 1 .. Len(y) /\ from + Len(x) + (i - Len(x)) = from + i
      BY <1>1, <2>2
    <3> QED BY <1>1, <1>2, <2>2, <3>1
  <2> QED BY <1>1, <2>1, <2>2
<1> QED BY <1>1, <1>2, <1>3 DEF CellsAt

\* What is read in two steps is read in one.
LEMMA ReadsChain ==
  ASSUME NEW c, NEW d, NEW e, NEW x, NEW y, Sound(c), Reads(c, d, x), Reads(d, e, y)
  PROVE  Reads(c, e, x \o y)
<1> SUFFICES ASSUME e.ok
             PROVE  /\ c.ok
                    /\ CellsAt(c.at, x \o y)
                    /\ e.at = c.at + Len(x \o y)
  BY DEF Reads
<1>1. /\ c.ok /\ c.at \in Nat
      /\ CellsAt(c.at, x) /\ d.at = c.at + Len(x)
      /\ CellsAt(d.at, y) /\ e.at = d.at + Len(y)
  BY DEF Reads, Sound
<1>2. Len(x) \in Nat /\ Len(y) \in Nat
  BY <1>1 DEF CellsAt
<1>3. CellsAt(c.at, x \o y) /\ Len(x \o y) = Len(x) + Len(y)
  BY <1>1, CellsJoin
<1> QED BY <1>1, <1>2, <1>3

\* The changes of a cursor, field by field.
LEMMA CursorFields ==
  ASSUME NEW c, Sound(c)
  PROVE  /\ Fail(c) = [at |-> c.at, end |-> c.end, ok |-> FALSE, v |-> c.v]
         /\ \A value : [c EXCEPT !.v = value] = [at |-> c.at, end |-> c.end, ok |-> c.ok, v |-> value]
         /\ \A n \in Nat : \A value :
              Take(c, n, value) = [at |-> c.at + n, end |-> c.end, ok |-> c.ok, v |-> value]
<1> DEFINE a == c.at
           e == c.end
           o == c.ok
           w == c.v
<1>1. c = [at |-> a, end |-> e, ok |-> o, v |-> w] /\ a \in Nat
  BY DEF Sound
<1> HIDE DEF a, e, o, w
<1>2. ASSUME NEW x PROVE [c EXCEPT !.ok = x] = [at |-> a, end |-> e, ok |-> x, v |-> w]
  BY <1>1
<1>3. ASSUME NEW x PROVE [c EXCEPT !.v = x] = [at |-> a, end |-> e, ok |-> o, v |-> x]
  BY <1>1
<1>4. ASSUME NEW x, NEW y
      PROVE  [c EXCEPT !.at = x, !.v = y] = [at |-> x, end |-> e, ok |-> o, v |-> y]
  <2> DEFINE d == [c EXCEPT !.at = x]
  <2>1. d = [at |-> x, end |-> e, ok |-> o, v |-> w]
    BY <1>1
  <2>2. [c EXCEPT !.at = x, !.v = y] = [d EXCEPT !.v = y]
    OBVIOUS
  <2> HIDE DEF d
  <2> QED BY <2>1, <2>2
<1>5. Fail(c) = [at |-> a, end |-> e, ok |-> FALSE, v |-> w]
  BY <1>2, Zenon DEF Fail
<1>6. ASSUME NEW n \in Nat, NEW y
      PROVE  Take(c, n, y) = [at |-> a + n, end |-> e, ok |-> o, v |-> y]
  BY <1>1, <1>4, Zenon DEF Take
<1> QED BY <1>3, <1>5, <1>6 DEF a, e, o, w

\* A cursor that fails reads nothing, whatever it is said to read.
LEMMA FailReads ==
  ASSUME NEW c, NEW d, Sound(d), d.end = c.end, NEW x
  PROVE  Reads(c, Fail(d), x) /\ ~Fail(d).ok
<1>1. Fail(d) = [at |-> d.at, end |-> d.end, ok |-> FALSE, v |-> d.v]
  BY CursorFields
<1> QED BY <1>1 DEF Reads, Sound

\* A value that is put in the place of what was read last.
Becomes(c, value) == [c EXCEPT !.v = value]

\* It is still read from the same cells.
LEMMA BecomesReads ==
  ASSUME NEW c, NEW d, NEW x, Reads(c, d, x), NEW value
  PROVE  /\ Reads(c, Becomes(d, value), x)
         /\ Becomes(d, value).ok = d.ok
         /\ Becomes(d, value).v = value
<1>1. Becomes(d, value) = [at |-> d.at, end |-> d.end, ok |-> d.ok, v |-> value]
  BY CursorFields DEF Reads, Becomes
<1> QED BY <1>1 DEF Reads, Sound

\* Cells that are there can be taken.
LEMMA TakeReads ==
  ASSUME NEW c, Sound(c), c.ok, file \in Seq(Nat),
         NEW n \in Nat, n <= c.end - c.at, NEW value,
         NEW cells, cells = [i \in 1 .. n |-> CellAt(c.at + i)]
  PROVE  /\ Reads(c, Take(c, n, value), cells)
         /\ Take(c, n, value).ok /\ Take(c, n, value).v = value
         /\ Len(cells) = n
<1>1. Take(c, n, value) = [at |-> c.at + n, end |-> c.end, ok |-> c.ok, v |-> value]
  BY CursorFields
<1>2. \A i \in 1 .. n : c.at + i \in DOMAIN file /\ CellAt(c.at + i) = file[c.at + i]
                        /\ CellAt(c.at + i) \in Nat
  BY DEF CellAt, Sound
<1>3. cells \in Seq(Nat) /\ Len(cells) = n
  BY <1>2
<1>4. \A i \in 1 .. n : cells[i] = file[c.at + i]
  BY <1>2
<1>5. CellsAt(c.at, cells)
  BY <1>3, <1>4 DEF CellsAt, Sound
<1>6. Sound(Take(c, n, value))
  BY <1>1 DEF Sound, HeaderSize
<1> QED BY <1>1, <1>3, <1>5, <1>6 DEF Reads, Sound

-----------------------------------------------------------------------------
(* Fields and strings *)

\* Cursor::need() and the copy after it: a field is the next cell.
LEMMA FieldReads ==
  ASSUME NEW c, Sound(c), file \in Seq(Nat)
  PROVE  Reads(c, Field(c), <<Field(c).v>>)
<1>1. CASE c.ok /\ 1 <= c.end - c.at
  <2> DEFINE value == CellAt(c.at + 1)
             cells == [i \in 1 .. 1 |-> CellAt(c.at + i)]
  <2>1. Field(c) = Take(c, 1, value)
    BY <1>1 DEF Field
  <2>2. cells = <<value>>
    OBVIOUS
  <2>3. /\ Reads(c, Take(c, 1, value), cells)
        /\ Take(c, 1, value).v = value
    <3>1. 1 \in Nat /\ c.ok /\ 1 <= c.end - c.at
      BY <1>1
    <3>2. \A x : Reads(c, Take(c, 1, x), cells) /\ Take(c, 1, x).v = x
      BY <3>1, TakeReads, Zenon
    <3> QED BY <3>2
  <2> HIDE DEF value, cells
  <2> QED BY <2>1, <2>2, <2>3
<1>2. CASE ~(c.ok /\ 1 <= c.end - c.at)
  <2>1. Field(c) = Fail(c)
    BY <1>2 DEF Field
  <2> QED BY <2>1, FailReads
<1> QED BY <1>1, <1>2

\* A value that is refused outside a set leaves the cursor failed where it is.
LEMMA AmongReads ==
  ASSUME NEW c, NEW d, NEW x, NEW S, Reads(c, d, x)
  PROVE  /\ Reads(c, Among(d, S), x)
         /\ Among(d, S).v = d.v
         /\ Among(d, S).ok => d.v \in S
<1>1. CASE d.ok /\ d.v \in S
  BY <1>1 DEF Among
<1>2. CASE ~(d.ok /\ d.v \in S)
  <2>1. Among(d, S) = Fail(d)
    BY <1>2 DEF Among
  <2>2. Fail(d).v = d.v /\ ~Fail(d).ok /\ Reads(c, Fail(d), x)
    BY CursorFields, FailReads DEF Reads
  <2> QED BY <2>1, <2>2
<1> QED BY <1>1, <1>2

\* Cursor::str() reads the cells of the string it returns.
LEMMA StrReads ==
  ASSUME NEW c, Sound(c), file \in Seq(Nat), NEW allowEmpty
  PROVE  Reads(c, Str(c, allowEmpty), EncName(Str(c, allowEmpty).v))
<1> DEFINE n == Field(c)
           s == [i \in 1 .. n.v |-> CellAt(n.at + i)]
           fine == /\ n.ok
                   /\ n.v <= MaxString
                   /\ n.v <= n.end - n.at
                   /\ \A i \in 1 .. n.v : s[i] \in Chars
                   /\ n.v > 0 \/ allowEmpty
<1>1. Str(c, allowEmpty) = IF fine THEN Take(n, n.v, s) ELSE Fail(n)
  BY DEF Str
<1>2. Reads(c, n, <<n.v>>)
  BY FieldReads
<1> HIDE DEF n
<1>3. CASE fine
  <2>1. n.v \in Nat /\ n.ok /\ Sound(n) /\ n.v <= n.end - n.at
    <3>1. n.ok
      BY <1>3
    <3>2. <<n.v>> \in Seq(Nat)
      BY <1>2, <3>1 DEF Reads, CellsAt
    <3> QED BY <1>2, <1>3, <3>2 DEF Reads
  <2> HIDE DEF fine
  <2>2. /\ Reads(n, Take(n, n.v, s), s)
        /\ Take(n, n.v, s).v = s
        /\ Len(s) = n.v
    BY <2>1, TakeReads
  <2> HIDE DEF s
  <2>3. Reads(c, Take(n, n.v, s), <<n.v>> \o s)
    BY <1>2, <2>2, ReadsChain
  <2> QED BY <1>1, <1>3, <2>2, <2>3 DEF EncName
<1>4. CASE ~fine
  <2> HIDE DEF fine
  <2>1. Sound(n) /\ n.end = c.end
    BY <1>2 DEF Reads
  <2> QED BY <1>1, <1>4, <2>1, FailReads
<1> QED BY <1>3, <1>4

-----------------------------------------------------------------------------
(* Lists *)

FlatStep(seqs, i, flat) == flat \o seqs[i]

Flattening == INSTANCE Repetition WITH Step <- FlatStep

\* Flat joins one sequence per step.
LEMMA FlatUnfolds ==
  ASSUME NEW seqs
  PROVE  Flat(seqs) = Flattening!Repeated(seqs, <<>>, Len(seqs))
BY DEF Flat, Flattening!Repeated, FlatStep

\* No sequences make the empty one.
LEMMA FlatEmpty == Flat(<<>>) = <<>>
<1>1. Len(<<>>) = 0
  OBVIOUS
<1> QED BY <1>1, FlatUnfolds, Flattening!RepeatedUnfolds

\* What is appended to a list comes after all that is in it.
LEMMA FlatAppend ==
  ASSUME NEW S, NEW s \in Seq(S), NEW x \in S
  PROVE  Flat(Append(s, x)) = Flat(s) \o x
<1> DEFINE t == Append(s, x)
           At(q, k) == Flattening!Repeated(q, <<>>, k)
           K == {k \in Nat : k <= Len(s) => At(t, k) = At(s, k)}
<1>1. /\ Len(s) \in Nat /\ Len(t) = Len(s) + 1
      /\ t[Len(s) + 1] = x
      /\ \A k \in 1 .. Len(s) : t[k] = s[k]
  OBVIOUS
<1> HIDE DEF t
<1>2. \A q : At(q, 0) = <<>> /\ \A k \in Nat : At(q, k + 1) = At(q, k) \o q[k + 1]
  BY Flattening!RepeatedUnfolds DEF FlatStep
<1> HIDE DEF At
<1>3. 0 \in K
  BY <1>2
<1>4. ASSUME NEW k \in Nat, k \in K PROVE k + 1 \in K
  <2> SUFFICES ASSUME k + 1 <= Len(s) PROVE At(t, k + 1) = At(s, k + 1)
    OBVIOUS
  <2>1. k + 1 \in 1 .. Len(s) /\ At(t, k) = At(s, k)
    BY <1>1, <1>4
  <2> QED BY <1>1, <1>2, <2>1
<1>5. At(t, Len(s)) = At(s, Len(s))
  <2> HIDE DEF K
  <2>1. Len(s) \in K
    BY <1>1, <1>3, <1>4, Flattening!SetInduction
  <2> QED BY <1>1, <2>1 DEF K
<1>6. Flat(t) = At(t, Len(s) + 1) /\ Flat(s) = At(s, Len(s))
  BY <1>1, FlatUnfolds DEF At
<1> QED BY <1>1, <1>2, <1>5, <1>6 DEF t

\* A list of single cells is written as it is.
LEMMA FlatSingles ==
  ASSUME NEW n \in Nat, NEW s \in Seq(Nat), Len(s) = n
  PROVE  Flat([i \in 1 .. n |-> <<s[i]>>]) = s
<1> DEFINE Singles(k) == [i \in 1 .. k |-> <<s[i]>>]
           P(k) == Flat(Singles(k)) = SubSeq(s, 1, k)
           K == {k \in Nat : k <= n => P(k)}
<1>1. P(0)
  <2>1. Singles(0) = <<>> /\ SubSeq(s, 1, 0) = <<>>
    OBVIOUS
  <2> QED BY <2>1, FlatEmpty
<1>2. ASSUME NEW k \in Nat, k + 1 <= n, P(k) PROVE P(k + 1)
  <2>1. Flat(Singles(k)) = SubSeq(s, 1, k)
    BY <1>2
  <2>2. /\ Singles(k) \in Seq(Seq(Nat)) /\ s[k + 1] \in Nat
        /\ Singles(k + 1) = Append(Singles(k), <<s[k + 1]>>)
    BY <1>2
  <2>3. Flat(Singles(k + 1)) = Flat(Singles(k)) \o <<s[k + 1]>>
    <3> HIDE DEF Singles
    <3>1. <<s[k + 1]>> \in Seq(Nat)
      BY <2>2
    <3> QED BY <2>2, <3>1, FlatAppend
  <2>4. SubSeq(s, 1, k + 1) = SubSeq(s, 1, k) \o <<s[k + 1]>>
    BY <1>2
  <2> QED BY <2>1, <2>3, <2>4
<1>3. P(n)
  <2> HIDE DEF P
  <2>1. 0 \in K /\ \A k \in Nat : k \in K => k + 1 \in K
    BY <1>1, <1>2
  <2> HIDE DEF K
  <2>2. n \in K
    BY <2>1, Flattening!SetInduction
  <2> QED BY <2>2 DEF K
<1>4. SubSeq(s, 1, n) = s
  OBVIOUS
<1> QED BY <1>3, <1>4

\* What is collected from a step was read after what was read before it.
LEMMA CollectReads ==
  ASSUME NEW c, NEW d, NEW e, NEW x, NEW y, Sound(c), Reads(c, d, x), Reads(d, e, y)
  PROVE  /\ Reads(c, Collect(d, e), x \o y)
         /\ Collect(d, e).ok => d.ok /\ e.ok /\ Collect(d, e).v = Append(d.v, e.v)
<1>1. Reads(c, e, x \o y) /\ e.end = c.end /\ Sound(e)
  BY ReadsChain DEF Reads
<1>2. CASE d.ok /\ e.ok
  <2>1. Collect(d, e) = [e EXCEPT !.v = Append(d.v, e.v)]
    BY <1>2 DEF Collect
  <2>2. /\ Reads(c, Collect(d, e), x \o y)
        /\ Collect(d, e).v = Append(d.v, e.v)
    <3> DEFINE both == Append(d.v, e.v)
    <3>1. Collect(d, e) = Becomes(e, both)
      BY <2>1 DEF Becomes
    <3> HIDE DEF both
    <3>2. Reads(c, Becomes(e, both), x \o y) /\ Becomes(e, both).v = both
      BY <1>1, BecomesReads
    <3> QED BY <3>1, <3>2 DEF both
  <2> QED BY <1>2, <2>2
<1>3. CASE ~(d.ok /\ e.ok)
  <2>1. Collect(d, e) = Fail(e)
    BY <1>3 DEF Collect
  <2> QED BY <1>1, <2>1, FailReads
<1> QED BY <1>2, <1>3

\* A sequence, of whatever it may be.
IsList(s) == Len(s) \in Nat /\ s = [i \in 1 .. Len(s) |-> s[i]]

\* The loop of Times: the cursors r, and the entries es read from them, whose
\* cells are ys.
Loop(c, n, r, es, ys) ==
  /\ r[0] = [c EXCEPT !.v = <<>>]
  /\ \A i \in 1 .. n :
       /\ r[i] = Collect(r[i - 1], es[i])
       /\ Sound(r[i - 1]) => Reads(r[i - 1], es[i], ys[i])

\* A loop that reads one entry per step reads the cells of its entries in order.
LEMMA LoopReads ==
  ASSUME NEW c, Sound(c), NEW n \in Nat, NEW r, NEW es, NEW ys, Loop(c, n, r, es, ys)
  PROVE  /\ Reads(c, r[n], Flat([i \in 1 .. n |-> ys[i]]))
         /\ r[n].ok => /\ r[n].v = [i \in 1 .. n |-> es[i].v]
                       /\ \A i \in 1 .. n : Sound(r[i - 1]) /\ es[i].ok
<1> DEFINE Cells(k) == [i \in 1 .. k |-> ys[i]]
           Read(k) == [i \in 1 .. k |-> es[i].v]
           P(k) == /\ Reads(c, r[k], Flat(Cells(k)))
                   /\ r[k].ok => /\ r[k].v = Read(k)
                                 /\ \A i \in 1 .. k : Sound(r[i - 1]) /\ es[i].ok
           K == {k \in Nat : k <= n => P(k)}
<1>1. 0 \in K
  <2>1. Cells(0) = <<>> /\ Read(0) = <<>>
    OBVIOUS
  <2>2. Reads(c, c, <<>>)
    <3>1. CellsAt(c.at, <<>>)
      BY DEF CellsAt, Sound
    <3> QED BY <3>1 DEF Reads, Sound
  <2>3. Reads(c, r[0], <<>>) /\ r[0].v = <<>>
    <3>1. r[0] = Becomes(c, <<>>)
      BY DEF Loop, Becomes
    <3> QED BY <2>2, <3>1, BecomesReads
  <2> HIDE DEF Cells, Read
  <2>4. P(0)
    BY <2>1, <2>3, FlatEmpty
  <2> HIDE DEF P
  <2> QED BY <2>4
<1>2. ASSUME NEW k \in Nat, k \in K PROVE k + 1 \in K
  <2> SUFFICES ASSUME k + 1 <= n PROVE P(k + 1)
    OBVIOUS
  <2> DEFINE d == r[k]
             e == es[k + 1]
  <2>1. P(k)
    BY <1>2
  <2>2. Sound(d) /\ Reads(c, d, Flat(Cells(k)))
    BY <2>1 DEF Reads
  <2>3. k + 1 \in 1 .. n /\ (k + 1) - 1 = k
    OBVIOUS
  <2>4. r[k + 1] = Collect(d, e) /\ Reads(d, e, ys[k + 1])
    BY <2>2, <2>3 DEF Loop
  <2>5. Flat(Cells(k + 1)) = Flat(Cells(k)) \o ys[k + 1]
    <3> DEFINE S == {ys[i] : i \in 1 .. k + 1}
    <3>1. Cells(k) \in Seq(S) /\ ys[k + 1] \in S /\ Cells(k + 1) = Append(Cells(k), ys[k + 1])
      OBVIOUS
    <3> HIDE DEF S, Cells
    <3> QED BY <3>1, FlatAppend
  <2>6. Append(Read(k), e.v) = Read(k + 1)
    OBVIOUS
  <2> HIDE DEF Cells, Read, d, e
  <2>7. /\ Reads(c, Collect(d, e), Flat(Cells(k)) \o ys[k + 1])
        /\ Collect(d, e).ok => d.ok /\ e.ok /\ Collect(d, e).v = Append(d.v, e.v)
    <3> DEFINE x == Flat(Cells(k))
               y == ys[k + 1]
    <3>1. Reads(c, d, x) /\ Reads(d, e, y)
      BY <2>2, <2>4
    <3> HIDE DEF x, y
    <3>2. /\ Reads(c, Collect(d, e), x \o y)
          /\ Collect(d, e).ok => d.ok /\ e.ok /\ Collect(d, e).v = Append(d.v, e.v)
      BY <3>1, CollectReads
    <3> QED BY <3>2 DEF x, y
  <2>8. r[k + 1].ok => \A i \in 1 .. k + 1 : Sound(r[i - 1]) /\ es[i].ok
    <3> SUFFICES ASSUME r[k + 1].ok, NEW i \in 1 .. k + 1
                 PROVE  Sound(r[i - 1]) /\ es[i].ok
      OBVIOUS
    <3>1. CASE i \in 1 .. k
      BY <2>1, <2>4, <2>7, <3>1 DEF d
    <3>2. CASE i = k + 1
      BY <2>2, <2>3, <2>4, <2>7, <3>2 DEF d, e
    <3> QED BY <3>1, <3>2
  <2>9. r[k + 1].ok => r[k + 1].v = Read(k + 1)
    BY <2>1, <2>4, <2>6, <2>7 DEF d
  <2> QED BY <2>4, <2>5, <2>7, <2>8, <2>9
<1>3. P(n)
  <2> HIDE DEF K
  <2>1. n \in K
    BY <1>1, <1>2, Flattening!SetInduction
  <2> HIDE DEF P
  <2> QED BY <2>1 DEF K
<1> QED BY <1>3

\* A count is followed by as many entries.
LEMMA CountedReads ==
  ASSUME NEW c, Sound(c), file \in Seq(Nat), NEW t, NEW x, Reads(Field(c), t, x),
         t.ok => Len(t.v) = Field(c).v
  PROVE  Reads(c, t, <<Len(t.v)>> \o x)
<1>1. Reads(c, t, <<Field(c).v>> \o x)
  BY FieldReads, ReadsChain
<1> QED BY <1>1 DEF Reads

\* A count that was read is a number.
LEMMA FieldInNat ==
  ASSUME NEW c, Sound(c), file \in Seq(Nat), Field(c).ok
  PROVE  Sound(Field(c)) /\ Field(c).v \in Nat
<1>1. Reads(c, Field(c), <<Field(c).v>>)
  BY FieldReads
<1>2. <<Field(c).v>> \in Seq(Nat) /\ Sound(Field(c))
  BY <1>1 DEF Reads, CellsAt
<1> QED BY <1>2

-----------------------------------------------------------------------------
(* Names, numbers and dimensions *)

\* The loop that reads names.
NameLoopStep(p, i, d) == Collect(d, Name(d))

NameLoop == INSTANCE Repetition WITH Step <- NameLoopStep

\* Times, one of the names at a time.
LEMMA NameTimes ==
  ASSUME NEW c
  PROVE  LET T(i) == Times(c, i, Name) IN
         T(0) = [c EXCEPT !.v = <<>>] /\ \A i \in Nat : T(i + 1) = Collect(T(i), Name(T(i)))
<1> DEFINE T(i) == Times(c, i, Name)
           start == [c EXCEPT !.v = <<>>]
<1>1. \A i : T(i) = NameLoop!Repeated(c, start, i)
  BY DEF Times, NameLoop!Repeated, NameLoopStep
<1> HIDE DEF start, T
<1>2. T(0) = start /\ \A i \in Nat : T(i + 1) = Collect(T(i), Name(T(i)))
  BY <1>1, NameLoop!RepeatedUnfolds DEF NameLoopStep
<1> QED BY <1>2 DEF start, T

\* The loop over the names of a node.
LEMMA NameLoopReads ==
  ASSUME NEW c, Sound(c), file \in Seq(Nat), NEW n \in Nat
  PROVE  LET t == Times(c, n, Name) IN
         /\ Reads(c, t, Flat([i \in DOMAIN t.v |-> EncName(t.v[i])]))
         /\ t.ok => Len(t.v) = n /\ IsList(t.v)
<1> DEFINE T(i) == Times(c, i, Name)
           r == [i \in 0 .. n |-> T(i)]
           es == [i \in 1 .. n |-> Name(T(i - 1))]
           ys == [i \in 1 .. n |-> EncName(es[i].v)]
<1>1. T(0) = [c EXCEPT !.v = <<>>] /\ \A i \in Nat : T(i + 1) = Collect(T(i), Name(T(i)))
  BY NameTimes
<1> HIDE DEF T
<1>2. Loop(c, n, r, es, ys)
  <2>1. r[0] = [c EXCEPT !.v = <<>>]
    BY <1>1
  <2>2. \A i \in 1 .. n : r[i] = Collect(r[i - 1], es[i])
    BY <1>1
  <2>3. ASSUME NEW i \in 1 .. n, Sound(r[i - 1])
        PROVE  Reads(r[i - 1], es[i], ys[i])
    BY <2>3, StrReads DEF Name
  <2> HIDE DEF r, es, ys
  <2> QED BY <2>1, <2>2, <2>3 DEF Loop
<1>3. /\ Reads(c, T(n), Flat([i \in 1 .. n |-> ys[i]]))
      /\ T(n).ok => T(n).v = [i \in 1 .. n |-> es[i].v]
  <2>1. r[n] = T(n) /\ \A i \in 1 .. n : r[i - 1] = T(i - 1)
    OBVIOUS
  <2> HIDE DEF r, es, ys
  <2> QED BY <1>2, <2>1, LoopReads
<1>4. T(n).ok => /\ Len(T(n).v) = n /\ IsList(T(n).v)
                 /\ [i \in DOMAIN T(n).v |-> EncName(T(n).v[i])] = [i \in 1 .. n |-> ys[i]]
  BY <1>3 DEF IsList
<1> HIDE DEF ys, es
<1> QED BY <1>3, <1>4 DEF Reads, T

\* A counted list of names is read from the cells that the encoder gives it.
LEMMA NameLoopListReads ==
  ASSUME NEW c, Sound(c), file \in Seq(Nat), NEW least
  PROVE  LET l == List(c, least, Name) IN
         /\ Reads(c, l, EncList(l.v, EncName))
         /\ l.ok => IsList(l.v)
<1> DEFINE l == List(c, least, Name)
           n == Field(c)
           t == Times(n, n.v, Name)
           x == Flat([i \in DOMAIN t.v |-> EncName(t.v[i])])
<1>1. \/ l = Fail(n)
      \/ l = t /\ n.ok /\ n.v <= MaxCount
  BY DEF List
<1>2. n.ok => Reads(n, t, x) /\ (t.ok => Len(t.v) = n.v /\ IsList(t.v))
  BY FieldInNat, NameLoopReads
<1>3. Sound(n) /\ n.end = c.end
  BY FieldReads DEF Reads
<1> HIDE DEF l, t, x, n
<1>4. CASE l = t /\ n.ok /\ n.v <= MaxCount
  <2>1. Reads(c, l, <<Len(l.v)>> \o x)
    BY <1>2, <1>4, CountedReads DEF n
  <2> QED BY <1>2, <1>4, <2>1 DEF EncList, l, t, x
<1>5. CASE l = Fail(n)
  BY <1>3, <1>5, FailReads DEF l
<1> QED BY <1>1, <1>4, <1>5

\* A number is one cell.
Cell(v) == <<v>>

Number(v) == v \in Nat

\* A field read without failure is a number.
LEMMA NumberReads ==
  ASSUME NEW c, Sound(c), file \in Seq(Nat)
  PROVE  /\ Reads(c, Field(c), Cell(Field(c).v))
         /\ Field(c).ok => Number(Field(c).v)
BY FieldReads, FieldInNat DEF Cell, Number

\* readDim() accepts numbers that an int holds, and not 0.
Dimension(v) == v \in 1 .. MaxDim

\* A dimension is a number, read from one cell.
LEMMA DimReads ==
  ASSUME NEW c, Sound(c), file \in Seq(Nat)
  PROVE  /\ Reads(c, ReadDim(c), Cell(ReadDim(c).v))
         /\ ReadDim(c).ok => Number(ReadDim(c).v) /\ Dimension(ReadDim(c).v)
<1>1. ReadDim(c) = Among(Field(c), 1 .. MaxDim)
  BY DEF ReadDim
<1>2. Reads(c, Field(c), <<Field(c).v>>)
  BY FieldReads
<1> DEFINE f == Field(c)
<1> HIDE DEF f
<1>3. /\ Reads(c, Among(f, 1 .. MaxDim), <<f.v>>)
      /\ Among(f, 1 .. MaxDim).v = f.v
      /\ Among(f, 1 .. MaxDim).ok => f.v \in 1 .. MaxDim
  BY <1>2, AmongReads DEF f
<1> QED BY <1>1, <1>3 DEF Cell, Number, Dimension, f

\* The loops that read numbers and dimensions.
NumberLoopStep(p, i, d) == Collect(d, Field(d))

NumberLoop == INSTANCE Repetition WITH Step <- NumberLoopStep

\* Times, one of the numbers at a time.
LEMMA NumberTimes ==
  ASSUME NEW c
  PROVE  LET T(i) == Times(c, i, Field) IN
         T(0) = [c EXCEPT !.v = <<>>] /\ \A i \in Nat : T(i + 1) = Collect(T(i), Field(T(i)))
<1> DEFINE T(i) == Times(c, i, Field)
           start == [c EXCEPT !.v = <<>>]
<1>1. \A i : T(i) = NumberLoop!Repeated(c, start, i)
  BY DEF Times, NumberLoop!Repeated, NumberLoopStep
<1> HIDE DEF start, T
<1>2. T(0) = start /\ \A i \in Nat : T(i + 1) = Collect(T(i), Field(T(i)))
  BY <1>1, NumberLoop!RepeatedUnfolds DEF NumberLoopStep
<1> QED BY <1>2 DEF start, T

\* The loop over the integers of an attribute.
LEMMA NumberLoopReads ==
  ASSUME NEW c, Sound(c), file \in Seq(Nat), NEW n \in Nat
  PROVE  LET t == Times(c, n, Field) IN
         /\ Reads(c, t, Flat([i \in DOMAIN t.v |-> Cell(t.v[i])]))
         /\ t.ok => Len(t.v) = n /\ t.v = [i \in 1 .. n |-> t.v[i]] /\ \A i \in 1 .. n : Number(t.v[i])
<1> DEFINE T(i) == Times(c, i, Field)
           r == [i \in 0 .. n |-> T(i)]
           es == [i \in 1 .. n |-> Field(T(i - 1))]
           ys == [i \in 1 .. n |-> Cell(es[i].v)]
<1>1. T(0) = [c EXCEPT !.v = <<>>] /\ \A i \in Nat : T(i + 1) = Collect(T(i), Field(T(i)))
  BY NumberTimes
<1> HIDE DEF T
<1>2. Loop(c, n, r, es, ys)
  <2>1. r[0] = [c EXCEPT !.v = <<>>]
    BY <1>1
  <2>2. \A i \in 1 .. n : r[i] = Collect(r[i - 1], es[i])
    BY <1>1
  <2>3. ASSUME NEW i \in 1 .. n, Sound(r[i - 1])
        PROVE  Reads(r[i - 1], es[i], ys[i])
    BY <2>3, NumberReads
  <2> HIDE DEF r, es, ys
  <2> QED BY <2>1, <2>2, <2>3 DEF Loop
<1>3. /\ Reads(c, T(n), Flat([i \in 1 .. n |-> ys[i]]))
      /\ T(n).ok => /\ T(n).v = [i \in 1 .. n |-> es[i].v]
                    /\ \A i \in 1 .. n : Sound(T(i - 1)) /\ es[i].ok
  <2>1. r[n] = T(n) /\ \A i \in 1 .. n : r[i - 1] = T(i - 1)
    OBVIOUS
  <2> HIDE DEF r, es, ys
  <2>2. /\ Reads(c, r[n], Flat([i \in 1 .. n |-> ys[i]]))
        /\ r[n].ok => /\ r[n].v = [i \in 1 .. n |-> es[i].v]
                      /\ \A i \in 1 .. n : Sound(r[i - 1]) /\ es[i].ok
    BY <1>2, LoopReads
  <2> QED BY <2>1, <2>2
<1>4. T(n).ok => /\ Len(T(n).v) = n
                 /\ [i \in DOMAIN T(n).v |-> Cell(T(n).v[i])] = [i \in 1 .. n |-> ys[i]]
  BY <1>3
<1>5. T(n).ok => \A i \in 1 .. n : Number(T(n).v[i])
  <2> SUFFICES ASSUME T(n).ok, NEW i \in 1 .. n PROVE Number(es[i].v)
    BY <1>3
  <2>1. Sound(T(i - 1)) /\ Field(T(i - 1)).ok
    BY <1>3
  <2> QED BY <2>1, NumberReads
<1> HIDE DEF ys, es
<1> QED BY <1>3, <1>4, <1>5 DEF Reads, T

DimLoopStep(p, i, d) == Collect(d, ReadDim(d))

DimLoop == INSTANCE Repetition WITH Step <- DimLoopStep

\* Times, one of the dimensions at a time.
LEMMA DimTimes ==
  ASSUME NEW c
  PROVE  LET T(i) == Times(c, i, ReadDim) IN
         T(0) = [c EXCEPT !.v = <<>>] /\ \A i \in Nat : T(i + 1) = Collect(T(i), ReadDim(T(i)))
<1> DEFINE T(i) == Times(c, i, ReadDim)
           start == [c EXCEPT !.v = <<>>]
<1>1. \A i : T(i) = DimLoop!Repeated(c, start, i)
  BY DEF Times, DimLoop!Repeated, DimLoopStep
<1> HIDE DEF start, T
<1>2. T(0) = start /\ \A i \in Nat : T(i + 1) = Collect(T(i), ReadDim(T(i)))
  BY <1>1, DimLoop!RepeatedUnfolds DEF DimLoopStep
<1> QED BY <1>2 DEF start, T

\* The loop over the dimensions of a tensor.
LEMMA DimLoopReads ==
  ASSUME NEW c, Sound(c), file \in Seq(Nat), NEW n \in Nat
  PROVE  LET t == Times(c, n, ReadDim) IN
         /\ Reads(c, t, Flat([i \in DOMAIN t.v |-> Cell(t.v[i])]))
         /\ t.ok => Len(t.v) = n /\ t.v = [i \in 1 .. n |-> t.v[i]] /\ \A i \in 1 .. n : Number(t.v[i]) /\ Dimension(t.v[i])
<1> DEFINE T(i) == Times(c, i, ReadDim)
           r == [i \in 0 .. n |-> T(i)]
           es == [i \in 1 .. n |-> ReadDim(T(i - 1))]
           ys == [i \in 1 .. n |-> Cell(es[i].v)]
<1>1. T(0) = [c EXCEPT !.v = <<>>] /\ \A i \in Nat : T(i + 1) = Collect(T(i), ReadDim(T(i)))
  BY DimTimes
<1> HIDE DEF T
<1>2. Loop(c, n, r, es, ys)
  <2>1. r[0] = [c EXCEPT !.v = <<>>]
    BY <1>1
  <2>2. \A i \in 1 .. n : r[i] = Collect(r[i - 1], es[i])
    BY <1>1
  <2>3. ASSUME NEW i \in 1 .. n, Sound(r[i - 1])
        PROVE  Reads(r[i - 1], es[i], ys[i])
    BY <2>3, DimReads
  <2> HIDE DEF r, es, ys
  <2> QED BY <2>1, <2>2, <2>3 DEF Loop
<1>3. /\ Reads(c, T(n), Flat([i \in 1 .. n |-> ys[i]]))
      /\ T(n).ok => /\ T(n).v = [i \in 1 .. n |-> es[i].v]
                    /\ \A i \in 1 .. n : Sound(T(i - 1)) /\ es[i].ok
  <2>1. r[n] = T(n) /\ \A i \in 1 .. n : r[i - 1] = T(i - 1)
    OBVIOUS
  <2> HIDE DEF r, es, ys
  <2>2. /\ Reads(c, r[n], Flat([i \in 1 .. n |-> ys[i]]))
        /\ r[n].ok => /\ r[n].v = [i \in 1 .. n |-> es[i].v]
                      /\ \A i \in 1 .. n : Sound(r[i - 1]) /\ es[i].ok
    BY <1>2, LoopReads
  <2> QED BY <2>1, <2>2
<1>4. T(n).ok => /\ Len(T(n).v) = n
                 /\ [i \in DOMAIN T(n).v |-> Cell(T(n).v[i])] = [i \in 1 .. n |-> ys[i]]
  BY <1>3
<1>5. T(n).ok => \A i \in 1 .. n : Number(T(n).v[i]) /\ Dimension(T(n).v[i])
  <2> SUFFICES ASSUME T(n).ok, NEW i \in 1 .. n PROVE Number(es[i].v) /\ Dimension(es[i].v)
    BY <1>3
  <2>1. Sound(T(i - 1)) /\ ReadDim(T(i - 1)).ok
    BY <1>3
  <2> QED BY <2>1, DimReads
<1> HIDE DEF ys, es
<1> QED BY <1>3, <1>4, <1>5 DEF Reads, T

\* Numbers are written one after the other.
LEMMA CellsFlat ==
  ASSUME NEW n \in Nat, NEW s, s = [i \in 1 .. n |-> s[i]], \A i \in 1 .. n : Number(s[i])
  PROVE  s \in Seq(Nat) /\ Len(s) = n /\ Flat([i \in DOMAIN s |-> Cell(s[i])]) = s
<1>1. s \in Seq(Nat) /\ Len(s) = n /\ DOMAIN s = 1 .. n
  BY DEF Number
<1>2. [i \in DOMAIN s |-> Cell(s[i])] = [i \in 1 .. n |-> <<s[i]>>]
  BY <1>1 DEF Cell
<1> QED BY <1>1, <1>2, FlatSingles

\* Dimensions are read from the cells that hold them.
LEMMA DimsRead ==
  ASSUME NEW c, Sound(c), file \in Seq(Nat), NEW n \in Nat
  PROVE  LET t == Times(c, n, ReadDim) IN
         /\ Reads(c, t, t.v)
         /\ t.ok => t.v \in Seq(Nat) /\ Len(t.v) = n /\ \A i \in 1 .. n : Dimension(t.v[i])
<1> DEFINE t == Times(c, n, ReadDim)
<1>1. /\ Reads(c, t, Flat([i \in DOMAIN t.v |-> Cell(t.v[i])]))
      /\ t.ok => /\ Len(t.v) = n /\ t.v = [i \in 1 .. n |-> t.v[i]]
                 /\ \A i \in 1 .. n : Number(t.v[i]) /\ Dimension(t.v[i])
  BY DimLoopReads
<1> HIDE DEF t
<1>2. t.ok => t.v \in Seq(Nat) /\ Flat([i \in DOMAIN t.v |-> Cell(t.v[i])]) = t.v
  BY <1>1, CellsFlat
<1> QED BY <1>1, <1>2 DEF Reads, t

\* A counted list of numbers is its count and the numbers.
LEMMA NumbersRead ==
  ASSUME NEW c, Sound(c), file \in Seq(Nat), NEW least
  PROVE  LET l == List(c, least, Field) IN Reads(c, l, <<Len(l.v)>> \o l.v)
<1> DEFINE l == List(c, least, Field)
           n == Field(c)
           t == Times(n, n.v, Field)
<1>1. \/ l = Fail(n)
      \/ l = t /\ n.ok /\ n.v <= MaxCount
  BY DEF List
<1>2. ASSUME n.ok
      PROVE  Reads(n, t, t.v) /\ (t.ok => Len(t.v) = n.v)
  <2>1. n.v \in Nat /\ Sound(n)
    BY <1>2, FieldInNat
  <2>2. /\ Reads(n, t, Flat([i \in DOMAIN t.v |-> Cell(t.v[i])]))
        /\ t.ok => /\ Len(t.v) = n.v /\ t.v = [i \in 1 .. n.v |-> t.v[i]]
                   /\ \A i \in 1 .. n.v : Number(t.v[i])
    BY <2>1, NumberLoopReads
  <2> HIDE DEF n, t
  <2>3. t.ok => Flat([i \in DOMAIN t.v |-> Cell(t.v[i])]) = t.v
    BY <2>1, <2>2, CellsFlat
  <2> QED BY <2>2, <2>3 DEF Reads
<1>3. Sound(n) /\ n.end = c.end
  BY FieldReads DEF Reads
<1> HIDE DEF l, t, n
<1>4. CASE l = t /\ n.ok /\ n.v <= MaxCount
  <2>1. Reads(c, l, <<Len(l.v)>> \o l.v)
    BY <1>2, <1>4, CountedReads DEF n
  <2> QED BY <2>1 DEF l
<1>5. CASE l = Fail(n)
  BY <1>3, <1>5, FailReads DEF l
<1> QED BY <1>1, <1>4, <1>5

-----------------------------------------------------------------------------
(* The entries of the lists, and the header fields                          *)

\* What was not read may be said to be anything.
LEMMA NotOkReads ==
  ASSUME NEW c, NEW d, NEW x, Reads(c, d, x), NEW y, d.ok => x = y
  PROVE  Reads(c, d, y)
BY DEF Reads

\* A cursor that was read with stays within its section.
LEMMA ReadsSound ==
  ASSUME NEW c, NEW d, NEW x, Reads(c, d, x)
  PROVE  Sound(d) /\ d.end = c.end
BY DEF Reads

\* Two cells, one after the other.
LEMMA PairOfCells ==
  ASSUME NEW x, NEW y
  PROVE  <<x>> \o <<y>> = <<x, y>>
<1> DEFINE S == {x, y}
<1>1. <<x>> \in Seq(S) /\ <<y>> \in Seq(S) /\ <<x, y>> \in Seq(S)
  OBVIOUS
<1> HIDE DEF S
<1>2. /\ Len(<<x>>) = 1 /\ Len(<<y>>) = 1 /\ Len(<<x, y>>) = 2
      /\ <<x>>[1] = x /\ <<y>>[1] = y /\ <<x, y>>[1] = x /\ <<x, y>>[2] = y
  OBVIOUS
<1>3. /\ <<x>> \o <<y>> \in Seq(S) /\ Len(<<x>> \o <<y>>) = 2
      /\ (<<x>> \o <<y>>)[1] = x /\ (<<x>> \o <<y>>)[2] = y
  BY <1>1, <1>2, ConcatProperties
<1> DEFINE l == <<x>> \o <<y>>
           r == <<x, y>>
<1>4. /\ l \in Seq(S) /\ r \in Seq(S) /\ Len(l) = Len(r)
      /\ \A i \in 1 .. Len(l) : l[i] = r[i]
  BY <1>1, <1>2, <1>3
<1> HIDE DEF l, r
<1>5. l = r
  BY <1>4, SeqEqual
<1> QED BY <1>5 DEF l, r

\* Three cells, one after the other.
LEMMA TripleOfCells ==
  ASSUME NEW x, NEW y, NEW z
  PROVE  <<x, y, z>> = <<x, y>> \o <<z>>
<1> DEFINE S == {x, y, z}
<1>1. <<x, y>> \in Seq(S) /\ <<z>> \in Seq(S) /\ <<x, y, z>> \in Seq(S)
  OBVIOUS
<1> HIDE DEF S
<1>2. /\ Len(<<x, y>>) = 2 /\ Len(<<z>>) = 1 /\ Len(<<x, y, z>>) = 3
      /\ <<x, y>>[1] = x /\ <<x, y>>[2] = y /\ <<z>>[1] = z
      /\ <<x, y, z>>[1] = x /\ <<x, y, z>>[2] = y /\ <<x, y, z>>[3] = z
  OBVIOUS
<1> DEFINE l == <<x, y, z>>
           r == <<x, y>> \o <<z>>
<1>3. r \in Seq(S) /\ Len(r) = 3 /\ r[1] = x /\ r[2] = y /\ r[3] = z
  BY <1>1, <1>2, ConcatProperties
<1>4. l \in Seq(S) /\ Len(l) = Len(r) /\ \A i \in 1 .. Len(l) : l[i] = r[i]
  BY <1>1, <1>2, <1>3
<1> HIDE DEF l, r
<1>5. l = r
  BY <1>3, <1>4, SeqEqual
<1> QED BY <1>5 DEF l, r

\* The dimensions of a tensor that was read: their product is a size_t.
DimsFine(desc) ==
  /\ desc.dims \in Seq(Nat) /\ Countable(desc.dims)
  /\ \A i \in 1 .. Len(desc.dims) : Dimension(desc.dims[i])

\* readDesc() reads what the encoder writes, and its dimensions do not overflow.
LEMMA DescReads ==
  ASSUME NEW c, Sound(c), file \in Seq(Nat)
  PROVE  /\ Reads(c, ReadDesc(c), EncDesc(ReadDesc(c).v))
         /\ ReadDesc(c).ok => DimsFine(ReadDesc(c).v)
<1> DEFINE name == Name(c)
           dtype == Among(Field(name), {Float32, Int64})
           rank == Among(Field(dtype), 1 .. MaxRank)
           dims == Times(rank, rank.v, ReadDim)
           value == [name |-> name.v, dtype |-> dtype.v, dims |-> dims.v]
           desc == ReadDesc(c)
<1>1. desc = IF ~rank.ok THEN rank
             ELSE IF dims.ok /\ Countable(dims.v) THEN [dims EXCEPT !.v = value]
             ELSE Fail(dims)
  BY DEF ReadDesc
<1>2. Reads(c, name, EncName(name.v)) /\ Sound(name)
  BY StrReads, ReadsSound DEF Name
<1>3. Reads(name, dtype, <<dtype.v>>) /\ Sound(dtype)
  <2> HIDE DEF name
  <2>1. Reads(name, Field(name), <<Field(name).v>>)
    BY <1>2, FieldReads
  <2> DEFINE field == Field(name)
  <2> HIDE DEF field
  <2>2. Reads(name, dtype, <<field.v>>) /\ dtype.v = field.v
    BY <2>1, AmongReads DEF field
  <2> HIDE DEF dtype
  <2> QED BY <2>2, ReadsSound
<1>4. Reads(dtype, rank, <<rank.v>>) /\ Sound(rank) /\ (rank.ok => rank.v \in Nat)
  <2> HIDE DEF dtype
  <2>1. Reads(dtype, Field(dtype), <<Field(dtype).v>>)
    BY <1>3, FieldReads
  <2> DEFINE S == 1 .. MaxRank
             f == Field(dtype)
  <2>2. rank = Among(f, S) /\ \A k \in S : k \in Nat
    OBVIOUS
  <2> HIDE DEF f, S, rank
  <2>3. /\ Reads(dtype, rank, <<f.v>>) /\ rank.v = f.v
        /\ rank.ok => rank.v \in S
    <3> DEFINE cells == <<f.v>>
    <3>1. Reads(dtype, f, cells)
      BY <2>1 DEF f
    <3> HIDE DEF cells
    <3>2. /\ Reads(dtype, Among(f, S), cells) /\ Among(f, S).v = f.v
          /\ Among(f, S).ok => f.v \in S
      BY <3>1, AmongReads
    <3> QED BY <2>2, <3>2 DEF cells
  <2> QED BY <2>2, <2>3, ReadsSound
<1> HIDE DEF name, dtype, rank
<1>5. Reads(c, rank, EncName(name.v) \o <<dtype.v, rank.v>>)
  <2>1. <<dtype.v>> \o <<rank.v>> = <<dtype.v, rank.v>>
    BY PairOfCells
  <2>2. Reads(name, rank, <<dtype.v, rank.v>>)
    BY <1>2, <1>3, <1>4, <2>1, ReadsChain
  <2> QED BY <1>2, <2>2, ReadsChain
<1>6. CASE ~rank.ok
  BY <1>1, <1>5, <1>6, NotOkReads DEF desc
<1>7. CASE rank.ok
  <2>1. Reads(rank, dims, dims.v) /\ (dims.ok => /\ dims.v \in Seq(Nat) /\ Len(dims.v) = rank.v
                                                         /\ \A i \in 1 .. rank.v : Dimension(dims.v[i]))
    BY <1>4, <1>7, DimsRead
  <2>2. Reads(c, dims, EncName(name.v) \o <<dtype.v, rank.v>> \o dims.v)
    BY <1>5, <2>1, ReadsChain
  <2> HIDE DEF dims, desc
  <2>3. CASE dims.ok /\ Countable(dims.v)
    <3> HIDE DEF value
    <3>1. desc = Becomes(dims, value)
      BY <1>1, <1>7, <2>3 DEF Becomes
    <3>2. Reads(c, desc, EncName(name.v) \o <<dtype.v, rank.v>> \o dims.v) /\ desc.v = value
      BY <2>2, <3>1, BecomesReads
    <3>3. EncDesc(value) = EncName(name.v) \o <<dtype.v, rank.v>> \o dims.v
      BY <2>1, <2>3 DEF EncDesc, value
    <3>4. DimsFine(value)
      BY <2>1, <2>3 DEF DimsFine, value
    <3> QED BY <3>2, <3>3, <3>4 DEF desc
  <2>4. CASE ~(dims.ok /\ Countable(dims.v))
    <3>1. desc = Fail(dims) /\ Sound(dims) /\ dims.end = c.end
      BY <1>1, <1>7, <2>2, <2>4, ReadsSound
    <3> QED BY <3>1, FailReads DEF desc
  <2> QED BY <2>3, <2>4
<1> QED BY <1>6, <1>7

\* An initializer has as many elements as its dimensions say.
InitFull(init) ==
  /\ DimsFine(init.desc)
  /\ IsList(init.data) /\ Len(init.data) = Elements(init.desc.dims)
  /\ \A k \in DOMAIN init.data : init.data[k] \in 0 .. Wide - 1

\* An initializer read without failure holds as many elements as it declares.
LEMMA InitReads ==
  ASSUME NEW c, Sound(c), file \in Seq(Nat), Narrow
  PROVE  /\ Reads(c, ReadInit(c), EncInit(ReadInit(c).v))
         /\ ReadInit(c).ok => InitFull(ReadInit(c).v)
<1> DEFINE desc == ReadDesc(c)
           length == Field(desc)
           data == [i \in 1 .. length.v |-> CellAt(length.at + i)]
           value == [desc |-> desc.v, data |-> data]
           fine == length.ok /\ length.v = Elements(desc.v.dims) /\ length.v <= length.end - length.at
           init == ReadInit(c)
<1>1. init = IF fine THEN Take(length, length.v, value) ELSE Fail(length)
  BY DEF ReadInit
<1>2. Reads(c, desc, EncDesc(desc.v)) /\ Sound(desc) /\ (desc.ok => DimsFine(desc.v))
  BY DescReads, ReadsSound
<1> HIDE DEF desc
<1>3. Reads(desc, length, <<length.v>>) /\ Sound(length)
  BY <1>2, FieldReads, ReadsSound
<1>4. length.ok => length.v \in Nat /\ desc.ok
  BY <1>2, <1>3, FieldInNat DEF Reads
<1> HIDE DEF length, init
<1>5. Reads(c, length, EncDesc(desc.v) \o <<length.v>>)
  BY <1>2, <1>3, ReadsChain
<1>6. CASE fine
  <2> HIDE DEF value
  <2>1. /\ Reads(length, Take(length, length.v, value), data)
        /\ Take(length, length.v, value).v = value
        /\ Len(data) = length.v
    <3>1. /\ length.ok /\ length.v \in Nat /\ length.v <= length.end - length.at
          /\ Sound(length)
      BY <1>3, <1>4, <1>6
    <3> QED BY <3>1, TakeReads
  <2>2. init = Take(length, length.v, value)
    BY <1>1, <1>6
  <2> HIDE DEF data
  <2>3. Reads(c, init, EncDesc(desc.v) \o <<length.v>> \o data) /\ init.v = value
    BY <1>5, <2>1, <2>2, ReadsChain
  <2>4. EncInit(value) = EncDesc(desc.v) \o <<length.v>> \o data
    BY <2>1 DEF EncInit, value
  <2>5. \A k \in DOMAIN data : data[k] \in 0 .. Wide - 1
    <3>1. /\ length.at \in Nat /\ HeaderSize <= length.at /\ length.end \in Nat
          /\ length.end <= Len(file) /\ length.v \in Nat /\ length.v <= length.end - length.at
          /\ HeaderSize \in Nat /\ Len(file) \in Nat /\ DOMAIN file = 1 .. Len(file)
      BY <1>3, <1>4, <1>6 DEF Sound, HeaderSize
    <3>3. \A k \in 1 .. length.v : /\ length.at + k \in HeaderSize + 1 .. Len(file)
                                  /\ length.at + k \in DOMAIN file
      <4> DEFINE a == length.at
                 e == length.end
                 n == length.v
                 l == Len(file)
      <4>1. a \in Nat /\ HeaderSize \in Nat /\ e \in Nat /\ n \in Nat /\ l \in Nat
            /\ HeaderSize <= a /\ e <= l /\ n <= e - a
        BY <3>1
      <4> HIDE DEF a, e, n, l
      <4>2. \A k \in 1 .. n : a + k \in HeaderSize + 1 .. l /\ a + k \in 1 .. l
        BY <4>1
      <4> QED BY <3>1, <4>2 DEF a, n, l
    <3>2. \A k \in 1 .. length.v : CellAt(length.at + k) \in Nat /\ CellAt(length.at + k) < Wide
      BY <3>3 DEF CellAt, Narrow
    <3> QED BY <3>2, WideAssumption DEF data
  <2>6. InitFull(value)
    <3>1. IsList(data)
      <4>1. data = [i \in 1 .. length.v |-> data[i]] /\ length.v \in Nat
        BY <1>4, <1>6 DEF data
      <4> QED BY <2>1, <4>1 DEF IsList
    <3> QED BY <1>2, <1>4, <1>6, <2>1, <2>5, <3>1 DEF InitFull, value
  <2> QED BY <2>3, <2>4, <2>6 DEF init
<1>7. CASE ~fine
  <2>1. init = Fail(length) /\ length.end = c.end
    BY <1>1, <1>5, <1>7, ReadsSound
  <2> QED BY <1>3, <2>1, FailReads DEF init
<1> QED BY <1>6, <1>7

\* Attributes of every kind are read as the encoder writes them.
LEMMA AttrReads ==
  ASSUME NEW c, Sound(c), file \in Seq(Nat)
  PROVE  Reads(c, ReadAttr(c), EncAttr(ReadAttr(c).v))
<1> DEFINE name == Name(c)
           kind == Among(Field(name), {AttrInt, AttrFloat, AttrInts})
           value == IF kind.v = AttrInts THEN List(kind, 1, Field) ELSE Field(kind)
           record == [name |-> name.v, kind |-> kind.v, value |-> value.v]
           cells == IF kind.v = AttrInts THEN <<Len(value.v)>> \o value.v ELSE <<value.v>>
           attr == ReadAttr(c)
<1>1. attr = IF ~kind.ok THEN kind
             ELSE IF value.ok THEN [value EXCEPT !.v = record]
             ELSE value
  BY DEF ReadAttr
<1>2. Reads(c, name, EncName(name.v)) /\ Sound(name)
  BY StrReads, ReadsSound DEF Name
<1> HIDE DEF name
<1>3. Reads(name, kind, <<kind.v>>) /\ Sound(kind)
  <2>1. Reads(name, Field(name), <<Field(name).v>>)
    BY <1>2, FieldReads
  <2> DEFINE f == Field(name)
             S == {AttrInt, AttrFloat, AttrInts}
  <2>2. kind = Among(f, S)
    OBVIOUS
  <2> HIDE DEF f, S, kind
  <2>3. Reads(name, kind, <<f.v>>) /\ kind.v = f.v
    BY <2>1, <2>2, AmongReads DEF f
  <2> QED BY <2>3, ReadsSound
<1> HIDE DEF kind
<1>4. Reads(c, kind, EncName(name.v) \o <<kind.v>>)
  BY <1>2, <1>3, ReadsChain
<1>5. Reads(kind, value, cells)
  BY <1>3, FieldReads, NumbersRead
<1> HIDE DEF value, cells, attr
<1>6. Reads(c, value, EncName(name.v) \o <<kind.v>> \o cells)
  BY <1>4, <1>5, ReadsChain
<1>7. CASE ~kind.ok
  BY <1>1, <1>4, <1>7, NotOkReads DEF attr
<1>8. CASE kind.ok /\ value.ok
  <2> HIDE DEF record
  <2>1. attr = Becomes(value, record)
    BY <1>1, <1>8 DEF Becomes
  <2>2. Reads(c, attr, EncName(name.v) \o <<kind.v>> \o cells) /\ attr.v = record
    BY <1>6, <2>1, BecomesReads
  <2>3. EncAttr(record) = EncName(name.v) \o <<kind.v>> \o cells
    BY DEF EncAttr, record, cells
  <2> QED BY <2>2, <2>3 DEF attr
<1>9. CASE kind.ok /\ ~value.ok
  BY <1>1, <1>6, <1>9, NotOkReads DEF attr
<1> QED BY <1>7, <1>8, <1>9

\* The loops that read attributes, descriptors, initializers and nodes.
AttrLoopStep(p, i, d) == Collect(d, ReadAttr(d))

AttrLoop == INSTANCE Repetition WITH Step <- AttrLoopStep

\* Times, one of the attributes at a time.
LEMMA AttrTimes ==
  ASSUME NEW c
  PROVE  LET T(i) == Times(c, i, ReadAttr) IN
         T(0) = [c EXCEPT !.v = <<>>] /\ \A i \in Nat : T(i + 1) = Collect(T(i), ReadAttr(T(i)))
<1> DEFINE T(i) == Times(c, i, ReadAttr)
           start == [c EXCEPT !.v = <<>>]
<1>1. \A i : T(i) = AttrLoop!Repeated(c, start, i)
  BY DEF Times, AttrLoop!Repeated, AttrLoopStep
<1> HIDE DEF start, T
<1>2. T(0) = start /\ \A i \in Nat : T(i + 1) = Collect(T(i), ReadAttr(T(i)))
  BY <1>1, AttrLoop!RepeatedUnfolds DEF AttrLoopStep
<1> QED BY <1>2 DEF start, T

\* The loop over the attributes of a node.
LEMMA AttrLoopReads ==
  ASSUME NEW c, Sound(c), file \in Seq(Nat), NEW n \in Nat
  PROVE  LET t == Times(c, n, ReadAttr) IN
         /\ Reads(c, t, Flat([i \in DOMAIN t.v |-> EncAttr(t.v[i])]))
         /\ t.ok => Len(t.v) = n
<1> DEFINE T(i) == Times(c, i, ReadAttr)
           r == [i \in 0 .. n |-> T(i)]
           es == [i \in 1 .. n |-> ReadAttr(T(i - 1))]
           ys == [i \in 1 .. n |-> EncAttr(es[i].v)]
<1>1. T(0) = [c EXCEPT !.v = <<>>] /\ \A i \in Nat : T(i + 1) = Collect(T(i), ReadAttr(T(i)))
  BY AttrTimes
<1> HIDE DEF T
<1>2. Loop(c, n, r, es, ys)
  <2>1. r[0] = [c EXCEPT !.v = <<>>]
    BY <1>1
  <2>2. \A i \in 1 .. n : r[i] = Collect(r[i - 1], es[i])
    BY <1>1
  <2>3. ASSUME NEW i \in 1 .. n, Sound(r[i - 1])
        PROVE  Reads(r[i - 1], es[i], ys[i])
    BY <2>3, AttrReads
  <2> HIDE DEF r, es, ys
  <2> QED BY <2>1, <2>2, <2>3 DEF Loop
<1>3. /\ Reads(c, T(n), Flat([i \in 1 .. n |-> ys[i]]))
      /\ T(n).ok => T(n).v = [i \in 1 .. n |-> es[i].v]
  <2>1. r[n] = T(n) /\ \A i \in 1 .. n : r[i - 1] = T(i - 1)
    OBVIOUS
  <2> HIDE DEF r, es, ys
  <2> QED BY <1>2, <2>1, LoopReads
<1>4. T(n).ok => /\ Len(T(n).v) = n
                 /\ [i \in DOMAIN T(n).v |-> EncAttr(T(n).v[i])] = [i \in 1 .. n |-> ys[i]]
  BY <1>3
<1> HIDE DEF ys, es
<1> QED BY <1>3, <1>4 DEF Reads, T

\* A counted list of attributes.
LEMMA AttrLoopListReads ==
  ASSUME NEW c, Sound(c), file \in Seq(Nat), NEW least
  PROVE  Reads(c, List(c, least, ReadAttr), EncList(List(c, least, ReadAttr).v, EncAttr))
<1> DEFINE l == List(c, least, ReadAttr)
           n == Field(c)
           t == Times(n, n.v, ReadAttr)
           x == Flat([i \in DOMAIN t.v |-> EncAttr(t.v[i])])
<1>1. \/ l = Fail(n)
      \/ l = t /\ n.ok /\ n.v <= MaxCount
  BY DEF List
<1>2. n.ok => Reads(n, t, x) /\ (t.ok => Len(t.v) = n.v)
  BY FieldInNat, AttrLoopReads
<1>3. Sound(n) /\ n.end = c.end
  BY FieldReads DEF Reads
<1> HIDE DEF l, t, x, n
<1>4. CASE l = t /\ n.ok /\ n.v <= MaxCount
  <2>1. Reads(c, l, <<Len(l.v)>> \o x)
    BY <1>2, <1>4, CountedReads DEF n
  <2> QED BY <1>4, <2>1 DEF EncList, l, t, x
<1>5. CASE l = Fail(n)
  BY <1>3, <1>5, FailReads DEF l
<1> QED BY <1>1, <1>4, <1>5

\* The names that a node reads and writes are lists.
NodeListed(node) == IsList(node.in) /\ IsList(node.out)

\* A node: its name, operator, inputs, outputs and attributes.
LEMMA NodeReads ==
  ASSUME NEW c, Sound(c), file \in Seq(Nat)
  PROVE  /\ Reads(c, ReadNode(c), EncNode(ReadNode(c).v))
         /\ ReadNode(c).ok => NodeListed(ReadNode(c).v)
<1> DEFINE op == Name(c)
           name == Str(op, TRUE)
           in == List(name, MinString, Name)
           out == List(in, MinString, Name)
           attrs == List(out, MinAttr, ReadAttr)
           value == [op |-> op.v, name |-> name.v, in |-> in.v, out |-> out.v, attrs |-> attrs.v]
           cells == EncName(op.v) \o EncName(name.v) \o EncList(in.v, EncName)
                      \o EncList(out.v, EncName) \o EncList(attrs.v, EncAttr)
           node == ReadNode(c)
<1>1. node = IF attrs.ok /\ out.v # <<>> THEN Becomes(attrs, value) ELSE Fail(attrs)
  BY DEF ReadNode, Becomes
<1>2. Reads(c, op, EncName(op.v)) /\ Sound(op)
  BY StrReads, ReadsSound DEF Name
<1> HIDE DEF op
<1>3. Reads(op, name, EncName(name.v)) /\ Sound(name)
  BY <1>2, StrReads, ReadsSound
<1> HIDE DEF name
<1>4. /\ Reads(name, in, EncList(in.v, EncName)) /\ Sound(in)
      /\ in.ok => IsList(in.v)
  <2>1. Reads(name, in, EncList(in.v, EncName)) /\ (in.ok => IsList(in.v))
    BY <1>3, NameLoopListReads
  <2> QED BY <2>1, ReadsSound
<1> HIDE DEF in
<1>5. /\ Reads(in, out, EncList(out.v, EncName)) /\ Sound(out)
      /\ out.ok => IsList(out.v)
  <2>1. Reads(in, out, EncList(out.v, EncName)) /\ (out.ok => IsList(out.v))
    BY <1>4, NameLoopListReads
  <2> QED BY <2>1, ReadsSound
<1> HIDE DEF out
<1>6. Reads(out, attrs, EncList(attrs.v, EncAttr)) /\ Sound(attrs)
  <2>1. Reads(out, attrs, EncList(attrs.v, EncAttr))
    BY <1>5, AttrLoopListReads
  <2> QED BY <2>1, ReadsSound
<1> HIDE DEF attrs
<1>7. Reads(c, attrs, cells)
  <2>1. Reads(c, name, EncName(op.v) \o EncName(name.v))
    BY <1>2, <1>3, ReadsChain
  <2>2. Reads(c, in, EncName(op.v) \o EncName(name.v) \o EncList(in.v, EncName))
    BY <2>1, <1>4, ReadsChain
  <2>3. Reads(c, out, EncName(op.v) \o EncName(name.v) \o EncList(in.v, EncName)
                        \o EncList(out.v, EncName))
    BY <2>2, <1>5, ReadsChain
  <2> QED BY <2>3, <1>6, ReadsChain
<1>8. EncNode(value) = cells
  BY DEF EncNode
<1>11. attrs.ok => NodeListed(value)
  BY <1>4, <1>5, <1>6 DEF NodeListed, Reads
<1> HIDE DEF value, cells, node
<1>9. CASE attrs.ok /\ out.v # <<>>
  <2>1. Reads(c, Becomes(attrs, value), cells) /\ Becomes(attrs, value).v = value
    BY <1>7, BecomesReads
  <2> QED BY <1>1, <1>8, <1>9, <1>11, <2>1 DEF node
<1>10. CASE ~(attrs.ok /\ out.v # <<>>)
  <2>1. node = Fail(attrs) /\ attrs.end = c.end
    BY <1>1, <1>7, <1>10, ReadsSound
  <2> QED BY <1>6, <2>1, FailReads DEF node
<1> QED BY <1>9, <1>10

\* The meta section.
LEMMA MetaReads ==
  ASSUME NEW c, Sound(c), file \in Seq(Nat)
  PROVE  Reads(c, ReadMeta(c), EncMeta(ReadMeta(c).v))
<1> DEFINE ir == Field(c)
           opset == Field(ir)
           producer == Str(opset, TRUE)
           sha256 == Field(producer)
           value == [ir |-> ir.v, opset |-> opset.v, producer |-> producer.v, sha256 |-> sha256.v]
           cells == <<ir.v, opset.v>> \o EncName(producer.v) \o <<sha256.v>>
           meta == ReadMeta(c)
<1>1. meta = IF sha256.ok THEN Becomes(sha256, value) ELSE sha256
  BY DEF ReadMeta, Becomes
<1>2. Reads(c, ir, <<ir.v>>) /\ Sound(ir)
  BY FieldReads, ReadsSound
<1> HIDE DEF ir
<1>3. Reads(ir, opset, <<opset.v>>) /\ Sound(opset)
  BY <1>2, FieldReads, ReadsSound
<1> HIDE DEF opset
<1>4. Reads(opset, producer, EncName(producer.v)) /\ Sound(producer)
  BY <1>3, StrReads, ReadsSound
<1> HIDE DEF producer
<1>5. Reads(producer, sha256, <<sha256.v>>)
  BY <1>4, FieldReads
<1> HIDE DEF sha256
<1>6. Reads(c, sha256, cells)
  <2>1. Reads(c, opset, <<ir.v, opset.v>>)
    BY <1>2, <1>3, ReadsChain, PairOfCells
  <2>2. Reads(c, producer, <<ir.v, opset.v>> \o EncName(producer.v))
    BY <2>1, <1>4, ReadsChain
  <2> QED BY <2>2, <1>5, ReadsChain
<1>7. EncMeta(value) = cells
  BY DEF EncMeta
<1> HIDE DEF value, cells, meta
<1>8. CASE sha256.ok
  <2>1. Reads(c, Becomes(sha256, value), cells) /\ Becomes(sha256, value).v = value
    BY <1>6, BecomesReads
  <2> QED BY <1>1, <1>7, <1>8, <2>1 DEF meta
<1>9. CASE ~sha256.ok
  BY <1>1, <1>6, <1>9, NotOkReads DEF meta
<1> QED BY <1>8, <1>9

DescLoopStep(p, i, d) == Collect(d, ReadDesc(d))

DescLoop == INSTANCE Repetition WITH Step <- DescLoopStep

\* Times, one of the descriptors at a time.
LEMMA DescTimes ==
  ASSUME NEW c
  PROVE  LET T(i) == Times(c, i, ReadDesc) IN
         T(0) = [c EXCEPT !.v = <<>>] /\ \A i \in Nat : T(i + 1) = Collect(T(i), ReadDesc(T(i)))
<1> DEFINE T(i) == Times(c, i, ReadDesc)
           start == [c EXCEPT !.v = <<>>]
<1>1. \A i : T(i) = DescLoop!Repeated(c, start, i)
  BY DEF Times, DescLoop!Repeated, DescLoopStep
<1> HIDE DEF start, T
<1>2. T(0) = start /\ \A i \in Nat : T(i + 1) = Collect(T(i), ReadDesc(T(i)))
  BY <1>1, DescLoop!RepeatedUnfolds DEF DescLoopStep
<1> QED BY <1>2 DEF start, T

\* The loop over the inputs, outputs or value descriptions of a file.
LEMMA DescLoopReads ==
  ASSUME NEW c, Sound(c), file \in Seq(Nat), NEW n \in Nat
  PROVE  LET t == Times(c, n, ReadDesc) IN
         /\ Reads(c, t, Flat([i \in DOMAIN t.v |-> EncDesc(t.v[i])]))
         /\ t.ok => Len(t.v) = n /\ IsList(t.v) /\ \A i \in 1 .. n : DimsFine(t.v[i])
<1> DEFINE T(i) == Times(c, i, ReadDesc)
           r == [i \in 0 .. n |-> T(i)]
           es == [i \in 1 .. n |-> ReadDesc(T(i - 1))]
           ys == [i \in 1 .. n |-> EncDesc(es[i].v)]
<1>1. T(0) = [c EXCEPT !.v = <<>>] /\ \A i \in Nat : T(i + 1) = Collect(T(i), ReadDesc(T(i)))
  BY DescTimes
<1> HIDE DEF T
<1>2. Loop(c, n, r, es, ys)
  <2>1. r[0] = [c EXCEPT !.v = <<>>]
    BY <1>1
  <2>2. \A i \in 1 .. n : r[i] = Collect(r[i - 1], es[i])
    BY <1>1
  <2>3. ASSUME NEW i \in 1 .. n, Sound(r[i - 1])
        PROVE  Reads(r[i - 1], es[i], ys[i])
    BY <2>3, DescReads
  <2> HIDE DEF r, es, ys
  <2> QED BY <2>1, <2>2, <2>3 DEF Loop
<1>3. /\ Reads(c, T(n), Flat([i \in 1 .. n |-> ys[i]]))
      /\ T(n).ok => /\ T(n).v = [i \in 1 .. n |-> es[i].v]
                    /\ \A i \in 1 .. n : Sound(T(i - 1)) /\ es[i].ok
  <2>1. r[n] = T(n) /\ \A i \in 1 .. n : r[i - 1] = T(i - 1)
    OBVIOUS
  <2> HIDE DEF r, es, ys
  <2>2. /\ Reads(c, r[n], Flat([i \in 1 .. n |-> ys[i]]))
        /\ r[n].ok => /\ r[n].v = [i \in 1 .. n |-> es[i].v]
                      /\ \A i \in 1 .. n : Sound(r[i - 1]) /\ es[i].ok
    BY <1>2, LoopReads
  <2> QED BY <2>1, <2>2
<1>4. T(n).ok => /\ Len(T(n).v) = n /\ IsList(T(n).v)
                 /\ [i \in DOMAIN T(n).v |-> EncDesc(T(n).v[i])] = [i \in 1 .. n |-> ys[i]]
  <2>1. T(n).ok => /\ Len(T(n).v) = n
                   /\ [i \in DOMAIN T(n).v |-> EncDesc(T(n).v[i])] = [i \in 1 .. n |-> ys[i]]
    BY <1>3
  <2>2. T(n).ok => T(n).v = [i \in 1 .. n |-> T(n).v[i]]
    BY <1>3
  <2> HIDE DEF ys, es
  <2> QED BY <2>1, <2>2 DEF IsList
<1>5. T(n).ok => \A i \in 1 .. n : DimsFine(T(n).v[i])
  <2> SUFFICES ASSUME T(n).ok, NEW i \in 1 .. n PROVE DimsFine(es[i].v)
    BY <1>3
  <2>1. Sound(T(i - 1)) /\ ReadDesc(T(i - 1)).ok
    BY <1>3
  <2> QED BY <2>1, DescReads
<1> HIDE DEF ys, es
<1> QED BY <1>3, <1>4, <1>5 DEF Reads, T

\* A counted list of tensor descriptions.
LEMMA DescLoopListReads ==
  ASSUME NEW c, Sound(c), file \in Seq(Nat), NEW least
  PROVE  LET l == List(c, least, ReadDesc) IN
         /\ Reads(c, l, EncList(l.v, EncDesc))
         /\ l.ok => IsList(l.v) /\ \A i \in DOMAIN l.v : DimsFine(l.v[i])
<1> DEFINE l == List(c, least, ReadDesc)
           n == Field(c)
           t == Times(n, n.v, ReadDesc)
           x == Flat([i \in DOMAIN t.v |-> EncDesc(t.v[i])])
<1>1. \/ l = Fail(n)
      \/ l = t /\ n.ok /\ n.v <= MaxCount
  BY DEF List
<1>2. ASSUME n.ok
      PROVE  /\ Reads(n, t, x)
             /\ t.ok => /\ Len(t.v) = n.v /\ IsList(t.v)
                        /\ \A i \in DOMAIN t.v : DimsFine(t.v[i])
  <2>1. Sound(n) /\ n.v \in Nat
    BY <1>2, FieldInNat
  <2> HIDE DEF n
  <2>2. /\ Reads(n, t, x)
        /\ t.ok => /\ Len(t.v) = n.v /\ IsList(t.v)
                   /\ \A i \in 1 .. n.v : DimsFine(t.v[i])
    BY <2>1, DescLoopReads
  <2> HIDE DEF t, x
  <2>3. t.ok => DOMAIN t.v = 1 .. n.v
    BY <2>2 DEF IsList
  <2> QED BY <2>1, <2>2, <2>3
<1>3. Sound(n) /\ n.end = c.end
  BY FieldReads DEF Reads
<1> HIDE DEF l, t, x, n
<1>4. CASE l = t /\ n.ok /\ n.v <= MaxCount
  <2>1. Reads(c, l, <<Len(l.v)>> \o x)
    BY <1>2, <1>4, CountedReads DEF n
  <2> QED BY <1>2, <1>4, <2>1 DEF EncList, l, t, x
<1>5. CASE l = Fail(n)
  BY <1>3, <1>5, FailReads DEF l
<1> QED BY <1>1, <1>4, <1>5

InitLoopStep(p, i, d) == Collect(d, ReadInit(d))

InitLoop == INSTANCE Repetition WITH Step <- InitLoopStep

\* Times, one of the initializers at a time.
LEMMA InitTimes ==
  ASSUME NEW c
  PROVE  LET T(i) == Times(c, i, ReadInit) IN
         T(0) = [c EXCEPT !.v = <<>>] /\ \A i \in Nat : T(i + 1) = Collect(T(i), ReadInit(T(i)))
<1> DEFINE T(i) == Times(c, i, ReadInit)
           start == [c EXCEPT !.v = <<>>]
<1>1. \A i : T(i) = InitLoop!Repeated(c, start, i)
  BY DEF Times, InitLoop!Repeated, InitLoopStep
<1> HIDE DEF start, T
<1>2. T(0) = start /\ \A i \in Nat : T(i + 1) = Collect(T(i), ReadInit(T(i)))
  BY <1>1, InitLoop!RepeatedUnfolds DEF InitLoopStep
<1> QED BY <1>2 DEF start, T

\* The loop over the initializers, each of which is complete.
LEMMA InitLoopReads ==
  ASSUME NEW c, Sound(c), file \in Seq(Nat), Narrow, NEW n \in Nat
  PROVE  LET t == Times(c, n, ReadInit) IN
         /\ Reads(c, t, Flat([i \in DOMAIN t.v |-> EncInit(t.v[i])]))
         /\ t.ok => Len(t.v) = n /\ t.v = [i \in 1 .. n |-> t.v[i]] /\ \A i \in 1 .. n : InitFull(t.v[i])
<1> DEFINE T(i) == Times(c, i, ReadInit)
           r == [i \in 0 .. n |-> T(i)]
           es == [i \in 1 .. n |-> ReadInit(T(i - 1))]
           ys == [i \in 1 .. n |-> EncInit(es[i].v)]
<1>1. T(0) = [c EXCEPT !.v = <<>>] /\ \A i \in Nat : T(i + 1) = Collect(T(i), ReadInit(T(i)))
  BY InitTimes
<1> HIDE DEF T
<1>2. Loop(c, n, r, es, ys)
  <2>1. r[0] = [c EXCEPT !.v = <<>>]
    BY <1>1
  <2>2. \A i \in 1 .. n : r[i] = Collect(r[i - 1], es[i])
    BY <1>1
  <2>3. ASSUME NEW i \in 1 .. n, Sound(r[i - 1])
        PROVE  Reads(r[i - 1], es[i], ys[i])
    BY <2>3, InitReads
  <2> HIDE DEF r, es, ys
  <2> QED BY <2>1, <2>2, <2>3 DEF Loop
<1>3. /\ Reads(c, T(n), Flat([i \in 1 .. n |-> ys[i]]))
      /\ T(n).ok => /\ T(n).v = [i \in 1 .. n |-> es[i].v]
                    /\ \A i \in 1 .. n : Sound(T(i - 1)) /\ es[i].ok
  <2>1. r[n] = T(n) /\ \A i \in 1 .. n : r[i - 1] = T(i - 1)
    OBVIOUS
  <2> HIDE DEF r, es, ys
  <2>2. /\ Reads(c, r[n], Flat([i \in 1 .. n |-> ys[i]]))
        /\ r[n].ok => /\ r[n].v = [i \in 1 .. n |-> es[i].v]
                      /\ \A i \in 1 .. n : Sound(r[i - 1]) /\ es[i].ok
    BY <1>2, LoopReads
  <2> QED BY <2>1, <2>2
<1>4. T(n).ok => /\ Len(T(n).v) = n
                 /\ [i \in DOMAIN T(n).v |-> EncInit(T(n).v[i])] = [i \in 1 .. n |-> ys[i]]
  BY <1>3
<1>5. T(n).ok => \A i \in 1 .. n : InitFull(T(n).v[i])
  <2> SUFFICES ASSUME T(n).ok, NEW i \in 1 .. n PROVE InitFull(es[i].v)
    BY <1>3
  <2>1. Sound(T(i - 1)) /\ ReadInit(T(i - 1)).ok
    BY <1>3
  <2> QED BY <2>1, InitReads
<1> HIDE DEF ys, es
<1> QED BY <1>3, <1>4, <1>5 DEF Reads, T

\* A counted list of initializers.
LEMMA InitLoopListReads ==
  ASSUME NEW c, Sound(c), file \in Seq(Nat), Narrow, NEW least
  PROVE  LET l == List(c, least, ReadInit) IN
         /\ Reads(c, l, EncList(l.v, EncInit))
         /\ l.ok => IsList(l.v) /\ \A i \in DOMAIN l.v : InitFull(l.v[i])
<1> DEFINE l == List(c, least, ReadInit)
           n == Field(c)
           t == Times(n, n.v, ReadInit)
           x == Flat([i \in DOMAIN t.v |-> EncInit(t.v[i])])
<1>1. \/ l = Fail(n)
      \/ l = t /\ n.ok /\ n.v <= MaxCount
  BY DEF List
<1>2. ASSUME n.ok
      PROVE  /\ Reads(n, t, x)
             /\ t.ok => /\ Len(t.v) = n.v /\ IsList(t.v)
                        /\ \A i \in DOMAIN t.v : InitFull(t.v[i])
  <2>1. Sound(n) /\ n.v \in Nat
    BY <1>2, FieldInNat
  <2> HIDE DEF n
  <2>2. /\ Reads(n, t, x)
        /\ t.ok => /\ Len(t.v) = n.v /\ t.v = [i \in 1 .. n.v |-> t.v[i]]
                   /\ \A i \in 1 .. n.v : InitFull(t.v[i])
    BY <2>1, InitLoopReads
  <2> HIDE DEF t, x
  <2> QED BY <2>1, <2>2 DEF IsList
<1>3. Sound(n) /\ n.end = c.end
  BY FieldReads DEF Reads
<1> HIDE DEF l, t, x, n
<1>4. CASE l = t /\ n.ok /\ n.v <= MaxCount
  <2>1. Reads(c, l, <<Len(l.v)>> \o x)
    BY <1>2, <1>4, CountedReads DEF n
  <2> QED BY <1>2, <1>4, <2>1 DEF EncList, l, t, x
<1>5. CASE l = Fail(n)
  BY <1>3, <1>5, FailReads DEF l
<1> QED BY <1>1, <1>4, <1>5

NodeLoopStep(p, i, d) == Collect(d, ReadNode(d))

NodeLoop == INSTANCE Repetition WITH Step <- NodeLoopStep

\* Times, one of the nodes at a time.
LEMMA NodeTimes ==
  ASSUME NEW c
  PROVE  LET T(i) == Times(c, i, ReadNode) IN
         T(0) = [c EXCEPT !.v = <<>>] /\ \A i \in Nat : T(i + 1) = Collect(T(i), ReadNode(T(i)))
<1> DEFINE T(i) == Times(c, i, ReadNode)
           start == [c EXCEPT !.v = <<>>]
<1>1. \A i : T(i) = NodeLoop!Repeated(c, start, i)
  BY DEF Times, NodeLoop!Repeated, NodeLoopStep
<1> HIDE DEF start, T
<1>2. T(0) = start /\ \A i \in Nat : T(i + 1) = Collect(T(i), ReadNode(T(i)))
  BY <1>1, NodeLoop!RepeatedUnfolds DEF NodeLoopStep
<1> QED BY <1>2 DEF start, T

\* The loop over the nodes.
LEMMA NodeLoopReads ==
  ASSUME NEW c, Sound(c), file \in Seq(Nat), NEW n \in Nat
  PROVE  LET t == Times(c, n, ReadNode) IN
         /\ Reads(c, t, Flat([i \in DOMAIN t.v |-> EncNode(t.v[i])]))
         /\ t.ok => Len(t.v) = n /\ t.v = [i \in 1 .. n |-> t.v[i]] /\ \A i \in 1 .. n : NodeListed(t.v[i])
<1> DEFINE T(i) == Times(c, i, ReadNode)
           r == [i \in 0 .. n |-> T(i)]
           es == [i \in 1 .. n |-> ReadNode(T(i - 1))]
           ys == [i \in 1 .. n |-> EncNode(es[i].v)]
<1>1. T(0) = [c EXCEPT !.v = <<>>] /\ \A i \in Nat : T(i + 1) = Collect(T(i), ReadNode(T(i)))
  BY NodeTimes
<1> HIDE DEF T
<1>2. Loop(c, n, r, es, ys)
  <2>1. r[0] = [c EXCEPT !.v = <<>>]
    BY <1>1
  <2>2. \A i \in 1 .. n : r[i] = Collect(r[i - 1], es[i])
    BY <1>1
  <2>3. ASSUME NEW i \in 1 .. n, Sound(r[i - 1])
        PROVE  Reads(r[i - 1], es[i], ys[i])
    BY <2>3, NodeReads
  <2> HIDE DEF r, es, ys
  <2> QED BY <2>1, <2>2, <2>3 DEF Loop
<1>3. /\ Reads(c, T(n), Flat([i \in 1 .. n |-> ys[i]]))
      /\ T(n).ok => /\ T(n).v = [i \in 1 .. n |-> es[i].v]
                    /\ \A i \in 1 .. n : Sound(T(i - 1)) /\ es[i].ok
  <2>1. r[n] = T(n) /\ \A i \in 1 .. n : r[i - 1] = T(i - 1)
    OBVIOUS
  <2> HIDE DEF r, es, ys
  <2>2. /\ Reads(c, r[n], Flat([i \in 1 .. n |-> ys[i]]))
        /\ r[n].ok => /\ r[n].v = [i \in 1 .. n |-> es[i].v]
                      /\ \A i \in 1 .. n : Sound(r[i - 1]) /\ es[i].ok
    BY <1>2, LoopReads
  <2> QED BY <2>1, <2>2
<1>4. T(n).ok => /\ Len(T(n).v) = n
                 /\ [i \in DOMAIN T(n).v |-> EncNode(T(n).v[i])] = [i \in 1 .. n |-> ys[i]]
  BY <1>3
<1>5. T(n).ok => \A i \in 1 .. n : NodeListed(T(n).v[i])
  <2> SUFFICES ASSUME T(n).ok, NEW i \in 1 .. n PROVE NodeListed(es[i].v)
    BY <1>3
  <2>1. Sound(T(i - 1)) /\ ReadNode(T(i - 1)).ok
    BY <1>3
  <2> QED BY <2>1, NodeReads
<1> HIDE DEF ys, es
<1> QED BY <1>3, <1>4, <1>5 DEF Reads, T

\* A counted list of nodes.
LEMMA NodeLoopListReads ==
  ASSUME NEW c, Sound(c), file \in Seq(Nat), NEW least
  PROVE  LET l == List(c, least, ReadNode) IN
         /\ Reads(c, l, EncList(l.v, EncNode))
         /\ l.ok => IsList(l.v) /\ \A i \in DOMAIN l.v : NodeListed(l.v[i])
<1> DEFINE l == List(c, least, ReadNode)
           n == Field(c)
           t == Times(n, n.v, ReadNode)
           x == Flat([i \in DOMAIN t.v |-> EncNode(t.v[i])])
<1>1. \/ l = Fail(n)
      \/ l = t /\ n.ok /\ n.v <= MaxCount
  BY DEF List
<1>2. ASSUME n.ok
      PROVE  /\ Reads(n, t, x)
             /\ t.ok => /\ Len(t.v) = n.v /\ IsList(t.v)
                        /\ \A i \in DOMAIN t.v : NodeListed(t.v[i])
  <2>1. Sound(n) /\ n.v \in Nat
    BY <1>2, FieldInNat
  <2> HIDE DEF n
  <2>2. /\ Reads(n, t, x)
        /\ t.ok => /\ Len(t.v) = n.v /\ t.v = [i \in 1 .. n.v |-> t.v[i]]
                   /\ \A i \in 1 .. n.v : NodeListed(t.v[i])
    BY <2>1, NodeLoopReads
  <2> HIDE DEF t, x
  <2> QED BY <2>1, <2>2 DEF IsList
<1>3. Sound(n) /\ n.end = c.end
  BY FieldReads DEF Reads
<1> HIDE DEF l, t, x, n
<1>4. CASE l = t /\ n.ok /\ n.v <= MaxCount
  <2>1. Reads(c, l, <<Len(l.v)>> \o x)
    BY <1>2, <1>4, CountedReads DEF n
  <2> QED BY <1>2, <1>4, <2>1 DEF EncList, l, t, x
<1>5. CASE l = Fail(n)
  BY <1>3, <1>5, FailReads DEF l
<1> QED BY <1>1, <1>4, <1>5

-----------------------------------------------------------------------------
(* The sections of the file                                                 *)

\* The content of section s of a model, and with its header.
SectionCells(m, s) ==
  <<EncMeta(m.meta), EncList(m.inputs, EncDesc), EncList(m.outputs, EncDesc),
    EncList(m.inits, EncInit), EncList(m.nodes, EncNode), EncList(m.vinf, EncDesc)>>[s]

\* The section with its header.
Framed(m, s) == <<Tags[s], Len(SectionCells(m, s))>> \o SectionCells(m, s)

\* The first k sections.
Sections(m, k) == Flat([s \in 1 .. k |-> Framed(m, s)])

\* A file of the encoder is a header and six sections.
LEMMA EncodeSections ==
  ASSUME NEW m
  PROVE  Encode(m) = Sealed(Sections(m, 6))
BY DEF Encode, Sections, Framed, SectionCells

\* A record with the fields of FgxModel.
IsModel(m) ==
  m = [meta |-> m.meta, inputs |-> m.inputs, outputs |-> m.outputs, inits |-> m.inits,
       nodes |-> m.nodes, vinf |-> m.vinf]

\* The lists of a model are sequences, and every initializer holds the elements
\* that its dimensions declare.
WellRead(m) ==
  /\ IsList(m.inputs) /\ IsList(m.outputs) /\ IsList(m.inits) /\ IsList(m.nodes)
  /\ \A i \in DOMAIN m.inputs : DimsFine(m.inputs[i])
  /\ \A i \in DOMAIN m.outputs : DimsFine(m.outputs[i])
  /\ \A i \in DOMAIN m.vinf : DimsFine(m.vinf[i])
  /\ \A i \in DOMAIN m.inits : InitFull(m.inits[i])
  /\ \A k \in DOMAIN m.nodes : NodeListed(m.nodes[k])

\* The model with section s read.
Stored(m, s, v) == [m EXCEPT ![Fields[s]] = v]

\* A section is stored in its field of the model, and in no other.
LEMMA StoredFields ==
  ASSUME NEW m, IsModel(m), NEW v
  PROVE  /\ Stored(m, 1, v) = [meta |-> v, inputs |-> m.inputs, outputs |-> m.outputs,
                               inits |-> m.inits, nodes |-> m.nodes, vinf |-> m.vinf]
         /\ Stored(m, 2, v) = [meta |-> m.meta, inputs |-> v, outputs |-> m.outputs,
                               inits |-> m.inits, nodes |-> m.nodes, vinf |-> m.vinf]
         /\ Stored(m, 3, v) = [meta |-> m.meta, inputs |-> m.inputs, outputs |-> v,
                               inits |-> m.inits, nodes |-> m.nodes, vinf |-> m.vinf]
         /\ Stored(m, 4, v) = [meta |-> m.meta, inputs |-> m.inputs, outputs |-> m.outputs,
                               inits |-> v, nodes |-> m.nodes, vinf |-> m.vinf]
         /\ Stored(m, 5, v) = [meta |-> m.meta, inputs |-> m.inputs, outputs |-> m.outputs,
                               inits |-> m.inits, nodes |-> v, vinf |-> m.vinf]
         /\ Stored(m, 6, v) = [meta |-> m.meta, inputs |-> m.inputs, outputs |-> m.outputs,
                               inits |-> m.inits, nodes |-> m.nodes, vinf |-> v]
<1> DEFINE a == m.meta
           b == m.inputs
           c == m.outputs
           d == m.inits
           e == m.nodes
           f == m.vinf
<1>1. m = [meta |-> a, inputs |-> b, outputs |-> c, inits |-> d, nodes |-> e, vinf |-> f]
  BY DEF IsModel
<1>2. /\ Fields[1] = "meta" /\ Fields[2] = "inputs" /\ Fields[3] = "outputs"
      /\ Fields[4] = "inits" /\ Fields[5] = "nodes" /\ Fields[6] = "vinf"
  BY DEF Fields
<1> HIDE DEF a, b, c, d, e, f
<1>3. [m EXCEPT !["meta"] = v]
        = [meta |-> v, inputs |-> b, outputs |-> c, inits |-> d, nodes |-> e, vinf |-> f]
  BY <1>1
<1>4. [m EXCEPT !["inputs"] = v]
        = [meta |-> a, inputs |-> v, outputs |-> c, inits |-> d, nodes |-> e, vinf |-> f]
  BY <1>1
<1>5. [m EXCEPT !["outputs"] = v]
        = [meta |-> a, inputs |-> b, outputs |-> v, inits |-> d, nodes |-> e, vinf |-> f]
  BY <1>1
<1>6. [m EXCEPT !["inits"] = v]
        = [meta |-> a, inputs |-> b, outputs |-> c, inits |-> v, nodes |-> e, vinf |-> f]
  BY <1>1
<1>7. [m EXCEPT !["nodes"] = v]
        = [meta |-> a, inputs |-> b, outputs |-> c, inits |-> d, nodes |-> v, vinf |-> f]
  BY <1>1
<1>8. [m EXCEPT !["vinf"] = v]
        = [meta |-> a, inputs |-> b, outputs |-> c, inits |-> d, nodes |-> e, vinf |-> v]
  BY <1>1
<1> QED BY <1>2, <1>3, <1>4, <1>5, <1>6, <1>7, <1>8 DEF Stored, a, b, c, d, e, f

\* A section is known by its number.
IsSection(s) == s \in 1 .. 6

\* Two models agree on what all sections but s contain.
OthersKept(stored, m, s) ==
  \A t \in 1 .. 6 : t # s => SectionCells(stored, t) = SectionCells(m, t)

\* What Content reads is the content of the section of the model it is stored in.
LEMMA ContentReads ==
  ASSUME NEW c, Sound(c), file \in Seq(Nat), Narrow, NEW s, IsSection(s), NEW m, IsModel(m),
         NEW d, d = Content(s, c), NEW stored, stored = Stored(m, s, d.v)
  PROVE  /\ Reads(c, d, SectionCells(stored, s))
         /\ IsModel(stored)
         /\ OthersKept(stored, m, s)
         /\ d.ok /\ WellRead(m) => WellRead(stored)
<1> USE DEF IsSection
<1>1. IsModel(stored)
  BY StoredFields DEF IsModel
<1>2. OthersKept(stored, m, s)
  <2>1. \A t \in 1 .. 6 : t # s => SectionCells(stored, t) = SectionCells(m, t)
    <3>1. /\ s # 1 => stored.meta = m.meta
          /\ s # 2 => stored.inputs = m.inputs
          /\ s # 3 => stored.outputs = m.outputs
          /\ s # 4 => stored.inits = m.inits
          /\ s # 5 => stored.nodes = m.nodes
          /\ s # 6 => stored.vinf = m.vinf
      BY StoredFields
    <3> QED BY ONLY <3>1 DEF SectionCells
  <2> QED BY ONLY <2>1 DEF OthersKept
<1>3. CASE s = 1
  <2>1. d = ReadMeta(c) /\ SectionCells(stored, 1) = EncMeta(d.v)
    BY <1>3, StoredFields DEF Content, Fields, SectionCells
  <2>2. /\ stored.inputs = m.inputs /\ stored.outputs = m.outputs /\ stored.inits = m.inits /\ stored.nodes = m.nodes
        /\ stored.vinf = m.vinf
    BY <1>3, StoredFields
  <2> QED BY <1>1, <1>2, <1>3, <2>1, <2>2, MetaReads DEF WellRead
<1>4. CASE s \in {2, 3, 6}
  <2>1. d = List(c, MinTensorDesc, ReadDesc) /\ SectionCells(stored, s) = EncList(d.v, EncDesc)
    BY <1>4, StoredFields DEF Content, Fields, SectionCells
  <2>2. /\ stored.inits = m.inits /\ stored.nodes = m.nodes
        /\ stored.inputs = (IF s = 2 THEN d.v ELSE m.inputs)
        /\ stored.outputs = (IF s = 3 THEN d.v ELSE m.outputs)
        /\ stored.vinf = (IF s = 6 THEN d.v ELSE m.vinf)
    BY <1>4, StoredFields
  <2> QED BY <1>1, <1>2, <1>4, <2>1, <2>2, DescLoopListReads DEF WellRead
<1>5. CASE s = 4
  <2>1. d = List(c, MinInit, ReadInit) /\ SectionCells(stored, 4) = EncList(d.v, EncInit)
    BY <1>5, StoredFields DEF Content, Fields, SectionCells
  <2>2. /\ stored.inits = d.v /\ stored.inputs = m.inputs /\ stored.outputs = m.outputs /\ stored.nodes = m.nodes
        /\ stored.vinf = m.vinf
    BY <1>5, StoredFields
  <2> QED BY <1>1, <1>2, <1>5, <2>1, <2>2, InitLoopListReads DEF WellRead
<1>6. CASE s = 5
  <2>1. d = List(c, MinNode, ReadNode) /\ SectionCells(stored, 5) = EncList(d.v, EncNode)
    BY <1>6, StoredFields DEF Content, Fields, SectionCells
  <2>2. /\ stored.nodes = d.v /\ stored.inputs = m.inputs /\ stored.outputs = m.outputs /\ stored.inits = m.inits
        /\ stored.vinf = m.vinf
    BY <1>6, StoredFields
  <2> QED BY <1>1, <1>2, <1>6, <2>1, <2>2, NodeLoopListReads DEF WellRead
<1> QED BY <1>3, <1>4, <1>5, <1>6

\* A section whose content was read is there with its header.
LEMMA FramedAt ==
  ASSUME file \in Seq(Nat), NEW p \in Nat, NEW s \in 1 .. 6, NEW x,
         p + 2 <= Len(file), file[p + 1] = Tags[s], file[p + 2] = Len(x),
         CellsAt(p + 2, x)
  PROVE  CellsAt(p, <<Tags[s], Len(x)>> \o x)
<1> DEFINE h == <<Tags[s], Len(x)>>
<1>1. Tags[s] \in Nat /\ Len(x) \in Nat
  <2>1. Tags \in [1 .. 6 -> Nat]
    BY FormatAssumption
  <2>2. x \in Seq(Nat)
    BY DEF CellsAt
  <2>3. Tags[s] \in Nat
    BY <2>1
  <2>4. Len(x) \in Nat
    BY <2>2
  <2> QED BY <2>3, <2>4
<1>2. h \in Seq(Nat) /\ Len(h) = 2 /\ h[1] = Tags[s] /\ h[2] = Len(x)
  BY <1>1
<1> HIDE DEF h
<1>3. CellsAt(p, h)
  <2>1. p + Len(h) <= Len(file)
    BY <1>2
  <2>2. \A i \in 1 .. 2 : i = 1 \/ i = 2
    OBVIOUS
  <2>3. \A i \in 1 .. Len(h) : file[p + i] = h[i]
    BY <1>2, <2>2
  <2> QED BY ONLY <1>2, <2>1, <2>3 DEF CellsAt
<1>4. CellsAt(p + Len(h), x)
  BY <1>2
<1>5. CellsAt(p, h \o x)
  BY <1>3, <1>4, CellsJoin
<1> QED BY <1>5 DEF h

\* A section header is two cells.
LEMMA FramedLength ==
  ASSUME NEW a \in Nat, NEW x, CellsAt(a, x), NEW t
  PROVE  Len(<<t, Len(x)>> \o x) = 2 + Len(x)
<1> DEFINE S == Nat \cup {t}
           h == <<t, Len(x)>>
<1>1. x \in Seq(Nat)
  BY DEF CellsAt
<1>2. x \in Seq(S) /\ h \in Seq(S) /\ Len(h) = 2
  BY <1>1
<1> HIDE DEF S, h
<1>3. Len(h \o x) = Len(h) + Len(x)
  BY <1>2, ConcatProperties
<1> QED BY <1>2, <1>3 DEF h

\* The sections of a model, with one more.
LEMMA SectionsAppend ==
  ASSUME NEW m, NEW k \in 0 .. 5
  PROVE  Sections(m, k + 1) = Sections(m, k) \o Framed(m, k + 1)
<1> DEFINE S == {Framed(m, s) : s \in 1 .. 6}
           F(j) == [s \in 1 .. j |-> Framed(m, s)]
<1>1. F(k) \in Seq(S) /\ Framed(m, k + 1) \in S /\ F(k + 1) = Append(F(k), Framed(m, k + 1))
  OBVIOUS
<1>2. Sections(m, k) = Flat(F(k)) /\ Sections(m, k + 1) = Flat(F(k + 1))
  BY DEF Sections
<1> HIDE DEF S, F
<1> QED BY <1>1, <1>2, FlatAppend

-----------------------------------------------------------------------------
(* The header *)

\* The header is the one of the file.
Headed ==
  /\ Len(file) >= HeaderSize
  /\ SubSeq(file, 1, 5) = <<Magic>> \o Version \o <<0, Len(file)>>
  /\ file[6] = Crc(Payload(file))

\* A file is its payload, sealed.
LEMMA HeadedIsSealed ==
  ASSUME file \in Seq(Nat), Headed
  PROVE  file = Sealed(Payload(file))
<1> DEFINE L == Len(file)
           p == Payload(file)
           k == Crc(p)
           S == {Magic, 1, 0, L, k}
           a == <<Magic>> \o Version
           b == <<0, L>>
<1>1. /\ L \in Nat /\ 6 <= L
      /\ SubSeq(file, 1, 5) = a \o b /\ file[6] = k
  <2>1. L \in Nat
    OBVIOUS
  <2>2. 6 <= L
    BY DEF Headed, HeaderSize
  <2>3. SubSeq(file, 1, 5) = a \o b /\ file[6] = k
    BY DEF Headed
  <2> QED BY <2>1, <2>2, <2>3
<1>2. /\ p = SubSeq(file, 7, L) /\ Len(p) = L - 6 /\ p \in Seq(Nat)
  <2>1. p = SubSeq(file, 7, L)
    BY DEF Payload, HeaderSize
  <2>2. 7 \in Int /\ L \in Int /\ \A i \in 7 .. L : file[i] \in Nat
    BY <1>1
  <2> HIDE DEF p, L
  <2>3. SubSeq(file, 7, L) \in Seq(Nat) /\ Len(SubSeq(file, 7, L)) = IF 7 <= L THEN L - 7 + 1 ELSE 0
    BY <2>2, SubSeqProperties
  <2> QED BY <1>1, <2>1, <2>3
<1>3. Sealed(p) = (a \o <<0, L, k>>) \o p
  <2>1. HeaderSize + Len(p) = L
    BY <1>1, <1>2 DEF HeaderSize
  <2> QED BY <2>1 DEF Sealed
<1>4. <<0, L, k>> = b \o <<k>>
  BY TripleOfCells
<1>5. a \o (b \o <<k>>) = (a \o b) \o <<k>>
  <2>1. /\ <<Magic>> \in Seq(S) /\ Version \in Seq(S) /\ b \in Seq(S) /\ <<k>> \in Seq(S)
    BY DEF Version
  <2> HIDE DEF S, b, k
  <2>2. a \in Seq(S)
    BY <2>1, ConcatProperties
  <2> HIDE DEF a
  <2> QED BY <2>1, <2>2, ConcatAssociative
<1> HIDE DEF a, b, k, p, L
<1>6. SubSeq(file, 1, 5) \o <<k>> = SubSeq(file, 1, 6)
  <2>1. SubSeq(file, 6, 6) = <<k>>
    <3> DEFINE t == SubSeq(file, 6, 6)
               o == <<k>>
    <3>1. 6 \in Int /\ \A i \in 6 .. 6 : file[i] \in Nat
      BY <1>1 DEF L
    <3>2. /\ t \in Seq(Nat) /\ Len(t) = 1
          /\ \A i \in 1 .. 1 : t[i] = file[i + 5]
      BY <3>1, SubSeqProperties
    <3>3. o \in Seq(Nat) /\ Len(o) = 1 /\ o[1] = k
      BY <1>1, <3>1
    <3> HIDE DEF t, o
    <3>4. t = o
      BY <1>1, <3>2, <3>3, SeqEqual
    <3> QED BY <3>4 DEF t, o
  <2>2. SubSeq(file, 1, 5) \o SubSeq(file, 5 + 1, 6) = SubSeq(file, 1, 6)
    <3>1. 1 \in 1 .. Len(file) + 1 /\ 5 \in 1 - 1 .. Len(file) /\ 6 \in 5 .. Len(file)
      BY <1>1 DEF L
    <3> QED BY <3>1, ConcatAdjacentSubSeq
  <2>3. 5 + 1 = 6
    OBVIOUS
  <2> QED BY <2>1, <2>2, <2>3
<1>7. SubSeq(file, 1, 6) \o p = file
  <2>1. 1 \in 1 .. Len(file) + 1 /\ 6 \in 1 - 1 .. Len(file) /\ Len(file) \in 6 .. Len(file)
    BY <1>1 DEF L
  <2>2. SubSeq(file, 1, 6) \o SubSeq(file, 6 + 1, Len(file)) = SubSeq(file, 1, Len(file))
    BY <2>1, ConcatAdjacentSubSeq
  <2>3. SubSeq(file, 1, Len(file)) = file
    BY SubSeqFull
  <2> QED BY <1>2, <2>2, <2>3 DEF L
<1> QED BY <1>1, <1>3, <1>4, <1>5, <1>6, <1>7 DEF p

-----------------------------------------------------------------------------
(* parse() *)

\* The cells up to pos are those of the header and of the sections read.
ReaderInv ==
  /\ file \in Seq(Nat) /\ Narrow
  /\ pos \in Nat /\ end \in Nat /\ pos <= end /\ end <= Len(file)
  /\ section \in 0 .. 6
  /\ IsModel(model) /\ WellRead(model)
  /\ status = "opened" => section = 0
  /\ status = "reading" =>
       /\ Headed
       /\ CellsAt(HeaderSize, Sections(model, section))
       /\ pos = HeaderSize + Len(Sections(model, section))
  /\ Parsed => file = Encode(model)

\* No step changes the file.
LEMMA NarrowKept ==
  ASSUME Narrow, file' = file
  PROVE  Narrow'
BY DEF Narrow

\* A file just opened.
LEMMA ReaderInitInv == Init => ReaderInv
<1> SUFFICES ASSUME Init PROVE ReaderInv
  OBVIOUS
<1>1. file \in Files /\ status = "opened" /\ section = 0 /\ pos = 0 /\ end = 0 /\ model = EmptyModel
  BY DEF Init, ReaderInit
<1>2. file \in Seq(Nat) /\ Narrow
  BY <1>1, ReaderAssumption DEF Narrow
<1>3. IsModel(model) /\ WellRead(model)
  BY <1>1 DEF EmptyModel, IsModel, WellRead, IsList
<1>4. 0 <= Len(file)
  BY <1>2
<1> QED BY <1>1, <1>2, <1>3, <1>4 DEF ReaderInv, Parsed

\* The header: after it the cursor stands behind a header that fits the payload.
LEMMA HeaderStep ==
  ASSUME ReaderInv, ReadHeader
  PROVE  ReaderInv'
<1>1. /\ file' = file /\ section' = section /\ model' = model /\ section = 0
      /\ file \in Seq(Nat) /\ Narrow /\ IsModel(model) /\ WellRead(model) /\ status = "opened"
      /\ pos \in Nat /\ end \in Nat /\ pos <= end /\ end <= Len(file)
  BY DEF ReaderInv, ReadHeader
<1>2. CASE /\ Headed
           /\ status' = "reading" /\ pos' = HeaderSize /\ end' = HeaderSize
  <2>1. Sections(model, 0) = <<>>
    <3>1. [s \in 1 .. 0 |-> Framed(model, s)] = <<>>
      OBVIOUS
    <3> QED BY <3>1, FlatEmpty DEF Sections
  <2>2. HeaderSize \in Nat /\ HeaderSize <= Len(file)
    BY <1>2 DEF Headed, HeaderSize
  <2>3. CellsAt(HeaderSize, <<>>) /\ HeaderSize + Len(<<>>) = HeaderSize
    BY <2>2 DEF CellsAt
  <2>4. Headed' /\ CellsAt(HeaderSize, <<>>)'
    BY <1>1, <1>2, <2>3 DEF Headed, Payload, CellsAt
  <2>5. CellsAt(HeaderSize, Sections(model, section))'
    BY <1>1, <2>1, <2>4
  <2>6. IsModel(model)' /\ WellRead(model)' /\ ~Parsed'
    BY <1>1, <1>2 DEF IsModel, WellRead, Parsed
  <2>7. pos' = HeaderSize + Len(Sections(model', section'))
    BY <1>1, <1>2, <2>1, <2>3
  <2>8. pos' \in Nat /\ end' \in Nat /\ pos' <= end' /\ end' <= Len(file')
    BY <1>1, <1>2, <2>2
  <2>9. file' \in Seq(Nat) /\ section' \in 0 .. 6 /\ status' = "reading"
    BY <1>1, <1>2
  <2>10. Narrow'
    BY <1>1, NarrowKept
  <2> QED BY <2>4, <2>5, <2>6, <2>7, <2>8, <2>9, <2>10 DEF ReaderInv
<1>3. CASE status' = "rejected" /\ pos' = pos /\ end' = end
  <2>1. IsModel(model)' /\ WellRead(model)' /\ ~Parsed'
    BY <1>1, <1>3 DEF IsModel, WellRead, Parsed
  <2> QED BY <1>1, <1>3, <2>1, NarrowKept DEF ReaderInv
<1> DEFINE fine == /\ Len(file) \in HeaderSize .. MaxFileSize
                   /\ SubSeq(file, 1, 5) = <<Magic>> \o Version \o <<0, Len(file)>>
                   /\ file[6] = Crc(Payload(file))
<1>4. IF fine THEN status' = "reading" /\ pos' = HeaderSize /\ end' = HeaderSize
              ELSE status' = "rejected" /\ pos' = pos /\ end' = end
  BY DEF ReadHeader
<1>5. fine => Headed
  <2>1. MaxFileSize \in Nat
    BY FormatAssumption
  <2>2. Len(file) \in HeaderSize .. MaxFileSize => Len(file) >= HeaderSize
    BY <1>1, <2>1 DEF HeaderSize
  <2> QED BY <2>2 DEF Headed
<1> HIDE DEF fine
<1> QED BY <1>2, <1>3, <1>4, <1>5

\* The content of a section that fits lies within the file.
LEMMA SectionCursor ==
  ASSUME ReaderInv, status = "reading", NEW s \in 1 .. 6, SectionFits(s)
  PROVE  /\ Sound(Cursor(pos + 2, pos + 2 + file[pos + 2]))
         /\ pos + 2 <= Len(file) /\ file[pos + 1] = Tags[s] /\ file[pos + 2] \in Nat
<1>1. /\ file \in Seq(Nat) /\ pos \in Nat /\ Len(file) - pos >= 2 /\ file[pos + 1] = Tags[s]
      /\ file[pos + 2] <= Len(file) - pos - 2
  BY DEF ReaderInv, SectionFits
<1>2. Len(file) \in Nat /\ pos + 2 \in 1 .. Len(file)
  BY <1>1
<1>3. file[pos + 2] \in Nat
  BY <1>1, <1>2
<1> DEFINE n == file[pos + 2]
<1>4. pos + 2 \in Nat /\ pos + 2 + n \in Nat /\ pos + 2 <= pos + 2 + n /\ pos + 2 + n <= Len(file)
  BY <1>1, <1>2, <1>3
<1> HIDE DEF n
<1>6. HeaderSize <= pos + 2
  <2>1. pos = HeaderSize + Len(Sections(model, section)) /\ CellsAt(HeaderSize, Sections(model, section))
    BY DEF ReaderInv
  <2>2. Len(Sections(model, section)) \in Nat /\ HeaderSize \in Nat
    BY <2>1 DEF CellsAt, HeaderSize
  <2> QED BY <2>1, <2>2
<1>5. Sound(Cursor(pos + 2, pos + 2 + n))
  BY <1>4, <1>6 DEF Sound, Cursor
<1> QED BY <1>1, <1>2, <1>3, <1>5 DEF n

\* One section more is read, or the file is rejected.
LEMMA SectionStep ==
  ASSUME ReaderInv, ReadSection
  PROVE  ReaderInv'
<1> DEFINE s == section + 1
           n == file[pos + 2]
           c == Cursor(pos + 2, pos + 2 + n)
           d == Content(s, c)
           m == Stored(model, s, d.v)
<1>1. /\ file' = file /\ status = "reading" /\ s \in 1 .. 6 /\ section \in 0 .. 5
      /\ file \in Seq(Nat) /\ Narrow /\ IsModel(model) /\ WellRead(model)
      /\ pos \in Nat /\ end \in Nat /\ pos <= end /\ end <= Len(file)
      /\ Headed /\ CellsAt(HeaderSize, Sections(model, section))
      /\ pos = HeaderSize + Len(Sections(model, section))
  BY DEF ReaderInv, ReadSection
<1>2. \/ /\ SectionFits(s) /\ end' = d.end /\ pos' = d.at
         /\ d.ok /\ d.at = d.end
         /\ model' = m /\ section' = s /\ status' = status
      \/ /\ SectionFits(s) /\ end' = d.end /\ pos' = d.at
         /\ status' = "rejected" /\ section' = section /\ model' = model
      \/ status' = "rejected" /\ section' = section /\ pos' = pos /\ end' = end /\ model' = model
  BY DEF ReadSection, Stored
<1> HIDE DEF d, m, s, c
<1>3. ASSUME SectionFits(s)
      PROVE  /\ Sound(c) /\ c.at = pos + 2 /\ c.end = pos + 2 + n
             /\ pos + 2 <= Len(file) /\ file[pos + 1] = Tags[s] /\ n \in Nat
             /\ Reads(c, d, SectionCells(m, s)) /\ Sound(d) /\ d.end = pos + 2 + n
             /\ IsModel(m) /\ (d.ok => WellRead(m))
             /\ OthersKept(m, model, s)
  <2>1. /\ Sound(c) /\ pos + 2 <= Len(file) /\ file[pos + 1] = Tags[s] /\ n \in Nat
    BY <1>1, <1>3, SectionCursor DEF c
  <2>2. c.at = pos + 2 /\ c.end = pos + 2 + n
    BY DEF c, Cursor
  <2>3. /\ Reads(c, d, SectionCells(m, s))
        /\ IsModel(m) /\ (d.ok => WellRead(m))
        /\ OthersKept(m, model, s)
    <3>1. IsSection(s) /\ IsModel(model) /\ file \in Seq(Nat) /\ Narrow /\ WellRead(model)
      BY <1>1 DEF IsSection
    <3>2. d = Content(s, c) /\ m = Stored(model, s, d.v)
      BY DEF d, m
    <3>3. /\ Reads(c, d, SectionCells(m, s)) /\ IsModel(m)
          /\ OthersKept(m, model, s)
          /\ d.ok /\ WellRead(model) => WellRead(m)
      BY ONLY <2>1, <3>1, <3>2, ContentReads
    <3> QED BY ONLY <3>1, <3>3
  <2> QED BY <2>1, <2>2, <2>3, ReadsSound
<1>4. CASE /\ SectionFits(s) /\ end' = d.end /\ pos' = d.at
           /\ d.ok /\ d.at = d.end
           /\ model' = m /\ section' = s /\ status' = status
  <2> DEFINE x == SectionCells(m, s)
             before == Sections(model, section)
  <2>1. CellsAt(pos + 2, x) /\ d.at = pos + 2 + Len(x) /\ Len(x) = n
    <3>1. CellsAt(pos + 2, x) /\ d.at = pos + 2 + Len(x)
      BY <1>3, <1>4 DEF Reads
    <3>2. Len(x) \in Nat
      BY <3>1 DEF CellsAt
    <3>3. d.at = pos + 2 + n /\ n \in Nat
      BY <1>3, <1>4
    <3> HIDE DEF x, n
    <3> QED BY <1>1, <3>1, <3>2, <3>3
  <2>2. CellsAt(pos, Framed(m, s)) /\ d.at = pos + Len(Framed(m, s))
    <3> HIDE DEF x, n
    <3>1. CellsAt(pos, <<Tags[s], Len(x)>> \o x)
      BY <1>1, <1>3, <1>4, <2>1, FramedAt DEF n
    <3>2. Len(<<Tags[s], Len(x)>> \o x) = 2 + Len(x)
      BY <2>1, FramedLength
    <3>3. Len(x) \in Nat
      BY <2>1 DEF CellsAt
    <3> QED BY <1>1, <2>1, <3>1, <3>2, <3>3 DEF Framed, x
  <2>3. Sections(m, s) = before \o Framed(m, s)
    <3>1. Sections(m, section + 1) = Sections(m, section) \o Framed(m, section + 1)
      BY <1>1, SectionsAppend
    <3>2. \A t \in 1 .. section : Framed(m, t) = Framed(model, t)
      <4>1. \A t \in 1 .. section : t \in 1 .. 6 /\ t # s
        BY <1>1 DEF s
      <4> QED BY <1>3, <1>4, <4>1 DEF Framed, OthersKept
    <3>3. Sections(m, section) = before
      BY <3>2 DEF Sections
    <3> QED BY <3>1, <3>3 DEF s
  <2> HIDE DEF before
  <2>4. CellsAt(HeaderSize, Sections(m, s)) /\ d.at = HeaderSize + Len(Sections(m, s))
    <3>1. HeaderSize \in Nat /\ CellsAt(HeaderSize, before) /\ pos = HeaderSize + Len(before)
      BY <1>1 DEF HeaderSize, before
    <3> DEFINE y == Framed(m, s)
    <3>2. CellsAt(HeaderSize, before \o y) /\ Len(before \o y) = Len(before) + Len(y)
      BY <2>2, <3>1, CellsJoin
    <3>3. Len(before) \in Nat /\ Len(y) \in Nat
      BY <2>2, <3>1 DEF CellsAt
    <3> QED BY <2>2, <2>3, <3>1, <3>2, <3>3
  <2>5. Headed' /\ CellsAt(HeaderSize, Sections(model, section))'
    BY <1>1, <1>4, <2>4 DEF Headed, Payload, CellsAt
  <2>6. IsModel(model)' /\ WellRead(model)' /\ ~Parsed'
    BY <1>1, <1>3, <1>4 DEF IsModel, WellRead, Parsed
  <2>7. pos' = HeaderSize + Len(Sections(model', section'))
    BY <1>4, <2>4
  <2>8. pos' \in Nat /\ end' \in Nat /\ pos' <= end' /\ end' <= Len(file')
    BY <1>1, <1>3, <1>4 DEF Sound
  <2>9. file' \in Seq(Nat) /\ section' \in 0 .. 6 /\ status' = "reading"
    BY <1>1, <1>4
  <2>10. Narrow'
    BY <1>1, NarrowKept
  <2> QED BY <2>5, <2>6, <2>7, <2>8, <2>9, <2>10 DEF ReaderInv
<1>5. CASE /\ status' = "rejected" /\ section' = section /\ model' = model
           /\ \/ SectionFits(s) /\ end' = d.end /\ pos' = d.at
              \/ pos' = pos /\ end' = end
  <2>1. pos' \in Nat /\ end' \in Nat /\ pos' <= end' /\ end' <= Len(file)
    BY <1>1, <1>3, <1>5 DEF Sound
  <2>2. IsModel(model)' /\ WellRead(model)' /\ ~Parsed'
    BY <1>1, <1>5 DEF IsModel, WellRead, Parsed
  <2> QED BY <1>1, <1>5, <2>1, <2>2, NarrowKept DEF ReaderInv
<1> QED BY <1>2, <1>4, <1>5

\* Once all sections are read, and nothing is left, they are the payload.
LEMMA ParsedSections ==
  ASSUME ReaderInv, status = "reading", section = 6, pos = Len(file)
  PROVE  file = Encode(model)
<1> DEFINE x == Sections(model, 6)
           p == Payload(file)
<1>1. /\ file \in Seq(Nat) /\ Headed /\ CellsAt(6, x) /\ Len(file) = 6 + Len(x)
  BY DEF ReaderInv, HeaderSize
<1> HIDE DEF x
<1>2. /\ x \in Seq(Nat) /\ Len(x) \in Nat
      /\ \A i \in 1 .. Len(x) : file[6 + i] = x[i]
  <2>1. CellsAt(6, x)
    BY <1>1
  <2>2. x \in Seq(Nat) /\ \A i \in 1 .. Len(x) : file[6 + i] = x[i]
    BY <2>1 DEF CellsAt
  <2> QED BY <2>2
<1>3. p \in Seq(Nat) /\ Len(p) = Len(x) /\ \A i \in 1 .. Len(p) : p[i] = x[i]
  <2>1. p = SubSeq(file, 7, Len(file))
    BY DEF Payload, HeaderSize
  <2>2. 7 \in Int /\ Len(file) \in Int /\ \A i \in 7 .. Len(file) : file[i] \in Nat
    BY <1>1
  <2>3. /\ SubSeq(file, 7, Len(file)) \in Seq(Nat)
        /\ Len(SubSeq(file, 7, Len(file))) = IF 7 <= Len(file) THEN Len(file) - 7 + 1 ELSE 0
        /\ \A i \in 1 .. Len(file) - 7 + 1 : SubSeq(file, 7, Len(file))[i] = file[7 + i - 1]
    BY <2>2, SubSeqProperties
  <2> HIDE DEF p
  <2>4. Len(p) = Len(x) /\ \A i \in 1 .. Len(x) : p[i] = file[7 + i - 1]
    BY <1>1, <1>2, <2>1, <2>3
  <2>5. \A i \in 1 .. Len(x) : 7 + i - 1 = 6 + i
    BY <1>2
  <2> QED BY <1>2, <2>1, <2>3, <2>4, <2>5
<1> HIDE DEF p
<1>4. p = x
  BY <1>2, <1>3, SeqEqual
<1> QED BY <1>1, <1>4, HeadedIsSealed, EncodeSections DEF p, x

\* The end of parse(): a file is accepted only when nothing of it is left.
LEMMA ValidateStep ==
  ASSUME ReaderInv, ValidateGraph
  PROVE  ReaderInv'
<1>1. /\ file' = file /\ section' = section /\ pos' = pos /\ end' = end /\ model' = model
      /\ status = "reading" /\ section = 6
      /\ \/ pos = Len(file) /\ status' = "parsed"
         \/ status' = "rejected"
  BY DEF ValidateGraph
<1>2. Parsed' => file' = Encode(model')
  BY <1>1, ParsedSections DEF Parsed
<1>3. IsModel(model)' /\ WellRead(model)'
  BY <1>1 DEF ReaderInv, IsModel, WellRead
<1>4. status' # "opened" /\ status' # "reading"
  BY <1>1
<1>5. (Parsed => file = Encode(model))'
  BY <1>2
<1> QED BY <1>1, <1>3, <1>4, <1>5, NarrowKept DEF ReaderInv

\* Nothing but parse() moves the cursor or changes the model.
LEMMA ImporterStep ==
  ASSUME ReaderInv, FromFgx \/ Run \/ UNCHANGED vars
  PROVE  ReaderInv'
<1>1. /\ file' = file /\ section' = section /\ pos' = pos /\ end' = end /\ model' = model
      /\ \/ status' = status
         \/ Parsed /\ Parsed'
  <2>1. CASE UNCHANGED vars
    BY <2>1 DEF vars, readerVars
  <2>2. CASE Run
    BY <2>2 DEF Run, Parsed
  <2>3. CASE FromFgx
    BY <2>3 DEF FromFgx, CheckOpset, ImportInput, ImportInit, ImportNode, ImportOutput, Entry,
                Done, Validate, Parsed
  <2> QED BY <2>1, <2>2, <2>3
<1>2. /\ IsModel(model)' /\ WellRead(model)'
  BY <1>1 DEF ReaderInv, IsModel, WellRead
<1>3. (status' # "opened" /\ status' # "reading") \/ status' = status
  BY <1>1 DEF Parsed
<1>4. (Parsed => file = Encode(model))'
  BY <1>1 DEF ReaderInv, Parsed
<1>5. CASE status' # "opened" /\ status' # "reading"
  BY <1>1, <1>2, <1>4, <1>5, NarrowKept DEF ReaderInv
<1>6. CASE status' = status
  <2>1. Headed => Headed'
    BY <1>1 DEF Headed, Payload
  <2>2. CellsAt(HeaderSize, Sections(model, section)) => CellsAt(HeaderSize, Sections(model, section))'
    BY <1>1 DEF CellsAt
  <2> QED BY <1>1, <1>2, <1>4, <1>6, <2>1, <2>2, NarrowKept DEF ReaderInv
<1> QED BY <1>3, <1>5, <1>6

\* ReaderInv is inductive: each section extends what was read by its cells.
LEMMA ReaderInvHolds == Spec => []ReaderInv
<1>1. ReaderInv /\ [Next]_vars => ReaderInv'
  <2> SUFFICES ASSUME ReaderInv, [Next]_vars PROVE ReaderInv'
    OBVIOUS
  <2>1. CASE ReaderNext
    BY <2>1, HeaderStep, SectionStep, ValidateStep DEF ReaderNext
  <2>2. CASE FromFgx \/ Run \/ UNCHANGED vars
    BY <2>2, ImporterStep
  <2> QED BY <2>1, <2>2 DEF Next
<1> QED BY <1>1, ReaderInitInv, PTL DEF Spec

-----------------------------------------------------------------------------
(* What the converter writes is read: cells                                 *)

\* These cells are next, and the section has room for them.
Ahead(c, x) == Sound(c) /\ c.ok /\ CellsAt(c.at, x) /\ c.at + Len(x) <= c.end

\* The cursor d is c moved on over these cells, and v was read from them.
Got(c, d, x, v) == d = [at |-> c.at + Len(x), end |-> c.end, ok |-> TRUE, v |-> v]

\* Such a cursor is a good one.
LEMMA GotSound ==
  ASSUME NEW c, NEW d, NEW x, NEW v, Ahead(c, x), Got(c, d, x, v)
  PROVE  Sound(d) /\ d.ok /\ d.v = v /\ d.at = c.at + Len(x) /\ d.end = c.end
<1>1. /\ c.at \in Nat /\ HeaderSize <= c.at /\ c.end \in Nat /\ c.end <= Len(file)
      /\ c.at + Len(x) <= c.end /\ x \in Seq(Nat)
  BY DEF Ahead, Sound, CellsAt
<1>2. Len(x) \in Nat /\ HeaderSize \in Nat
  BY <1>1 DEF HeaderSize
<1>3. c.at + Len(x) \in Nat /\ HeaderSize <= c.at + Len(x)
  BY <1>1, <1>2
<1>4. /\ d = [at |-> c.at + Len(x), end |-> c.end, ok |-> TRUE, v |-> v]
      /\ d.at = c.at + Len(x) /\ d.end = c.end /\ d.ok = TRUE /\ d.v = v
  BY DEF Got
<1> QED BY <1>1, <1>3, <1>4 DEF Sound

\* Cells after cells.
LEMMA Joined ==
  ASSUME NEW x \in Seq(Nat), NEW y \in Seq(Nat)
  PROVE  x \o y \in Seq(Nat) /\ Len(x \o y) = Len(x) + Len(y)
BY ConcatProperties

\* Of cells that follow each other the first are next, and once they are read
\* the others are.
LEMMA AheadSplit ==
  ASSUME NEW c, NEW x \in Seq(Nat), NEW y \in Seq(Nat), Ahead(c, x \o y)
  PROVE  /\ Ahead(c, x)
         /\ \A d, v : Got(c, d, x, v) =>
              /\ Ahead(d, y)
              /\ \A e, w : Got(d, e, y, w) => Got(c, e, x \o y, w)
<1>1. /\ Len(x \o y) = Len(x) + Len(y) /\ Len(x) \in Nat /\ Len(y) \in Nat
      /\ \A i \in 1 .. Len(x) + Len(y) :
           (x \o y)[i] = IF i <= Len(x) THEN x[i] ELSE y[i - Len(x)]
  BY ConcatProperties
<1>2. /\ Sound(c) /\ c.ok /\ c.at \in Nat /\ c.end \in Nat /\ c.end <= Len(file)
      /\ c.at + Len(x) + Len(y) <= c.end
      /\ \A i \in 1 .. Len(x) + Len(y) : file[c.at + i] = (x \o y)[i]
  BY <1>1 DEF Ahead, CellsAt, Sound
<1> DEFINE a == c.at
           z == x \o y
<1>3. CellsAt(a, x) /\ a + Len(x) <= c.end
  <2>1. \A i \in 1 .. Len(x) : file[a + i] = x[i]
    <3>1. \A i \in 1 .. Len(x) : i \in 1 .. Len(x) + Len(y) /\ i <= Len(x)
      BY ONLY <1>1
    <3> QED BY ONLY <1>1, <1>2, <3>1
  <2>2. a + Len(x) <= c.end /\ a + Len(x) <= Len(file)
    <3>1. /\ Len(file) >= c.end /\ c.end >= a + Len(x) + Len(y)
          /\ a \in Nat /\ Len(x) \in Nat /\ Len(y) \in Nat /\ c.end \in Nat
      BY <1>1, <1>2
    <3>2. c.end >= a + Len(x)
      BY <3>1
    <3>3. CellsAt(a, z)
      BY DEF Ahead
    <3>4. a + Len(z) <= Len(file)
      BY <3>3 DEF CellsAt
    <3> QED BY <1>1, <3>1, <3>2, <3>4
  <2> QED BY <2>1, <2>2 DEF CellsAt
<1>4. Ahead(c, x)
  BY <1>2, <1>3 DEF Ahead
<1>5. ASSUME NEW d, NEW v, Got(c, d, x, v)
      PROVE  /\ Ahead(d, y)
             /\ \A e, w : Got(d, e, y, w) => Got(c, e, x \o y, w)
  <2>1. Sound(d) /\ d.ok /\ d.at = a + Len(x) /\ d.end = c.end
    BY <1>4, <1>5, GotSound
  <2>2. CellsAt(a + Len(x), y)
    <3>1. ASSUME NEW i \in 1 .. Len(y) PROVE file[a + Len(x) + i] = y[i]
      <4>1. /\ Len(x) + i \in 1 .. Len(x) + Len(y) /\ ~(Len(x) + i <= Len(x))
            /\ (Len(x) + i) - Len(x) = i /\ a + (Len(x) + i) = a + Len(x) + i
        <5>1. a \in Nat /\ Len(x) \in Nat /\ Len(y) \in Nat /\ i \in 1 .. Len(y)
          BY <1>1, <1>2, <3>1
        <5> QED BY ONLY <5>1
      <4> QED BY <1>1, <1>2, <4>1
    <3>2. a + Len(x) + Len(y) <= Len(file)
      <4>1. a + Len(z) <= Len(file)
        BY DEF Ahead, CellsAt
      <4> QED BY <1>1, <1>2, <4>1
    <3> QED BY <3>1, <3>2 DEF CellsAt
  <2>3. Ahead(d, y)
    BY <1>2, <2>1, <2>2 DEF Ahead
  <2>4. ASSUME NEW e, NEW w, Got(d, e, y, w) PROVE Got(c, e, x \o y, w)
    <3>1. d.at + Len(y) = a + Len(x \o y)
      BY <1>1, <1>2, <2>1
    <3> QED BY <2>1, <2>4, <3>1 DEF Got
  <2> QED BY <2>3, <2>4
<1> QED BY <1>4, <1>5

\* A cell is a field.
LEMMA FieldGets ==
  ASSUME file \in Seq(Nat), NEW c, NEW v \in Nat, Ahead(c, <<v>>)
  PROVE  Got(c, Field(c), <<v>>, v)
<1>1. /\ Sound(c) /\ c.ok /\ c.at \in Nat /\ c.end \in Nat /\ c.at + 1 <= c.end
      /\ c.at + 1 <= Len(file) /\ file[c.at + 1] = v
  <2>1. Len(<<v>>) = 1 /\ <<v>>[1] = v
    OBVIOUS
  <2> QED BY <2>1 DEF Ahead, CellsAt, Sound
<1>2. CellAt(c.at + 1) = v
  BY <1>1 DEF CellAt
<1>3. Field(c) = Take(c, 1, v)
  BY <1>1, <1>2 DEF Field
<1>4. Field(c) = [at |-> c.at + 1, end |-> c.end, ok |-> c.ok, v |-> v]
  <2>1. Take(c, 1, v) = [at |-> c.at + 1, end |-> c.end, ok |-> c.ok, v |-> v]
    BY ONLY <1>1, CursorFields
  <2> QED BY ONLY <1>3, <2>1
<1>5. c.ok = TRUE
  BY <1>1 DEF Sound
<1> QED BY <1>4, <1>5 DEF Got

\* A field that may hold its value.
LEMMA AmongGets ==
  ASSUME file \in Seq(Nat), NEW c, NEW v \in Nat, Ahead(c, <<v>>), NEW S, v \in S
  PROVE  Got(c, Among(Field(c), S), <<v>>, v)
<1>1. Got(c, Field(c), <<v>>, v)
  BY FieldGets
<1>2. Field(c).ok /\ Field(c).v = v
  BY <1>1, GotSound
<1>3. Among(Field(c), S) = Field(c)
  BY <1>2 DEF Among
<1> QED BY <1>1, <1>3

\* A string is written as a cell more than it has.
LEMMA StringTyped ==
  ASSUME NEW s \in Strings
  PROVE  /\ s \in Seq(Nat) /\ Len(s) \in Nat
         /\ EncName(s) \in Seq(Nat) /\ Len(EncName(s)) = 1 + Len(s)
<1>1. s \in Seq(Nat) /\ Len(s) \in Nat
  <2>1. s \in Seq(Chars) /\ Chars \in SUBSET Nat
    BY FormatAssumption DEF Strings
  <2>2. s \in Seq(Nat)
    BY <2>1, SeqMonotonic
  <2> QED BY <2>2
<1>2. <<Len(s)>> \in Seq(Nat) /\ Len(<<Len(s)>>) = 1
  BY <1>1
<1>3. <<Len(s)>> \o s \in Seq(Nat) /\ Len(<<Len(s)>> \o s) = 1 + Len(s)
  BY <1>1, <1>2, ConcatProperties
<1> QED BY <1>1, <1>3 DEF EncName

\* Cells that are next are copied as they are.
LEMMA CellsGet ==
  ASSUME file \in Seq(Nat), NEW c, NEW s, Ahead(c, s)
  PROVE  /\ [i \in 1 .. Len(s) |-> CellAt(c.at + i)] = s
         /\ Len(s) \in Nat /\ Len(s) <= c.end - c.at
         /\ \A v : Got(c, Take(c, Len(s), v), s, v)
<1> DEFINE k == Len(s)
<1>1. /\ c.at \in Nat /\ c.end \in Nat /\ c.at + k <= c.end /\ c.at + k <= Len(file)
      /\ s \in Seq(Nat) /\ Sound(c) /\ c.ok
      /\ \A i \in 1 .. k : file[c.at + i] = s[i]
  BY DEF Ahead, CellsAt, Sound
<1>2. k \in Nat /\ s = [i \in 1 .. k |-> s[i]]
  BY <1>1
<1> HIDE DEF k
<1>3. \A i \in 1 .. k : CellAt(c.at + i) = s[i]
  <2>1. DOMAIN file = 1 .. Len(file) /\ Len(file) \in Nat
    OBVIOUS
  <2>2. \A i \in 1 .. k : c.at + i \in 1 .. Len(file)
    BY ONLY <1>1, <1>2, <2>1
  <2> QED BY ONLY <1>1, <2>1, <2>2 DEF CellAt
<1>4. [i \in 1 .. k |-> CellAt(c.at + i)] = [i \in 1 .. k |-> s[i]]
  BY <1>3
<1>5. ASSUME NEW v PROVE Got(c, Take(c, k, v), s, v)
  <2>1. Take(c, k, v) = [at |-> c.at + k, end |-> c.end, ok |-> c.ok, v |-> v]
    BY <1>1, <1>2, CursorFields
  <2>2. c.ok = TRUE
    BY <1>1 DEF Sound
  <2> QED BY <2>1, <2>2 DEF Got, k
<1>6. k <= c.end - c.at
  BY <1>1, <1>2
<1> QED BY <1>2, <1>4, <1>5, <1>6 DEF k

\* str() returns the string that was written.
LEMMA StrGets ==
  ASSUME file \in Seq(Nat), NEW c, NEW s \in Strings, NEW allowEmpty \in BOOLEAN,
         s # <<>> \/ allowEmpty, Ahead(c, EncName(s))
  PROVE  Got(c, Str(c, allowEmpty), EncName(s), s)
<1> DEFINE n == Field(c)
           cells == [i \in 1 .. n.v |-> CellAt(n.at + i)]
           fine == /\ n.ok
                   /\ n.v <= MaxString
                   /\ n.v <= n.end - n.at
                   /\ \A i \in 1 .. n.v : cells[i] \in Chars
                   /\ n.v > 0 \/ allowEmpty
           k == Len(s)
<1>1. Str(c, allowEmpty) = IF fine THEN Take(n, n.v, cells) ELSE Fail(n)
  BY DEF Str
<1>2. /\ s \in Seq(Nat) /\ k \in Nat /\ <<k>> \in Seq(Nat) /\ EncName(s) = <<k>> \o s
      /\ k <= MaxString /\ \A i \in 1 .. k : s[i] \in Chars
      /\ k > 0 \/ allowEmpty
  <2>1. s \in Seq(Nat) /\ k \in Nat
    BY StringTyped
  <2>2. s \in Seq(Chars) /\ k <= MaxString
    BY DEF Strings
  <2>3. k > 0 \/ allowEmpty
    BY <2>1
  <2>4. \A i \in 1 .. k : s[i] \in Chars
    BY <2>2
  <2> QED BY <2>1, <2>2, <2>3, <2>4 DEF EncName
<1>3. Got(c, n, <<k>>, k) /\ n.ok /\ n.v = k
  <2>1. Ahead(c, <<k>>)
    BY <1>2, AheadSplit
  <2>2. Got(c, n, <<k>>, k)
    BY <1>2, <2>1, FieldGets
  <2> HIDE DEF n
  <2> QED BY <2>1, <2>2, GotSound
<1> HIDE DEF n
<1>4. Ahead(n, s) /\ \A e, w : Got(n, e, s, w) => Got(c, e, EncName(s), w)
  BY <1>2, <1>3, AheadSplit
<1>5. cells = s /\ k <= n.end - n.at /\ Got(n, Take(n, k, s), s, s)
  BY <1>3, <1>4, CellsGet
<1> HIDE DEF k, cells
<1>6. fine
  BY <1>2, <1>3, <1>5
<1> HIDE DEF fine
<1>7. Got(n, Str(c, allowEmpty), s, s)
  BY <1>1, <1>3, <1>5, <1>6
<1> QED BY <1>4, <1>7

\* A name is a string that is not empty.
LEMMA NameGets ==
  ASSUME file \in Seq(Nat), NEW c, NEW s \in StringsNotEmpty, Ahead(c, EncName(s))
  PROVE  Got(c, Name(c), EncName(s), s)
<1>1. s \in Strings /\ s # <<>> /\ FALSE \in BOOLEAN
  BY DEF StringsNotEmpty
<1> QED BY <1>1, StrGets DEF Name

\* It is written as two cells at least.
LEMMA NameTyped ==
  ASSUME NEW s \in StringsNotEmpty
  PROVE  EncName(s) \in Seq(Nat) /\ 2 <= Len(EncName(s))
<1>1. s \in Strings /\ s # <<>>
  BY DEF StringsNotEmpty
<1>2. s \in Seq(Nat) /\ EncName(s) \in Seq(Nat) /\ Len(EncName(s)) = 1 + Len(s)
  BY <1>1, StringTyped
<1>3. Len(s) >= 1
  BY <1>1, <1>2
<1> QED BY <1>2, <1>3

\* A value that is put in the place of what was read last.
LEMMA BecomesGets ==
  ASSUME NEW c, NEW d, NEW x, NEW v, Ahead(c, x), Got(c, d, x, v), NEW w
  PROVE  Got(c, Becomes(d, w), x, w)
<1>1. Sound(d)
  BY GotSound
<1>2. Becomes(d, w) = [at |-> d.at, end |-> d.end, ok |-> d.ok, v |-> w]
  BY <1>1, CursorFields DEF Becomes
<1> QED BY <1>2 DEF Got

-----------------------------------------------------------------------------
(* What the converter writes is read: lists                                 *)

\* The loop of Times when the cells xs are next: the cursors r, and the entries
\* es that hold the values vs.
Gains(n, c, r, es, xs, vs) ==
  /\ r[0] = [c EXCEPT !.v = <<>>]
  /\ \A i \in 1 .. n :
       /\ r[i] = Collect(r[i - 1], es[i])
       /\ Ahead(r[i - 1], xs[i]) => Got(r[i - 1], es[i], xs[i], vs[i])

\* Sequences of cells are joined to one, no shorter than all of them together.
LEMMA FlatTyped ==
  ASSUME NEW n \in Nat, NEW least \in Nat, NEW xs,
         \A i \in 1 .. n : xs[i] \in Seq(Nat) /\ least <= Len(xs[i])
  PROVE  /\ Flat([i \in 1 .. n |-> xs[i]]) \in Seq(Nat)
         /\ n * least <= Len(Flat([i \in 1 .. n |-> xs[i]]))
<1> DEFINE Cells(k) == [i \in 1 .. k |-> xs[i]]
           P(k) == Flat(Cells(k)) \in Seq(Nat) /\ k * least <= Len(Flat(Cells(k)))
           K == {k \in Nat : k <= n => P(k)}
<1>1. P(0)
  <2>1. Cells(0) = <<>>
    OBVIOUS
  <2>2. <<>> \in Seq(Nat) /\ 0 * least <= Len(<<>>)
    OBVIOUS
  <2> QED BY <2>1, <2>2, FlatEmpty
<1>2. ASSUME NEW k \in Nat, k + 1 <= n, P(k) PROVE P(k + 1)
  <2> DEFINE y == xs[k + 1]
  <2>1. /\ Cells(k) \in Seq(Seq(Nat)) /\ Cells(k + 1) = Append(Cells(k), y)
        /\ y \in Seq(Nat) /\ least <= Len(y)
    BY <1>2
  <2> HIDE DEF y, Cells
  <2>2. Flat(Cells(k + 1)) = Flat(Cells(k)) \o y
    BY <2>1, FlatAppend
  <2> DEFINE x == Flat(Cells(k))
  <2>3. x \in Seq(Nat) /\ k * least <= Len(x)
    BY <1>2
  <2> HIDE DEF x
  <2>4. x \o y \in Seq(Nat) /\ Len(x \o y) = Len(x) + Len(y)
    BY <2>1, <2>3, ConcatProperties
  <2>5. (k + 1) * least = k * least + least
    OBVIOUS
  <2>6. (k + 1) * least <= Len(x) + Len(y)
    <3>1. Len(x) \in Nat /\ Len(y) \in Nat /\ k * least \in Nat
      BY <2>1, <2>3
    <3> QED BY <2>1, <2>3, <2>5, <3>1
  <2> QED BY <2>2, <2>4, <2>6 DEF x
<1>3. P(n)
  <2> HIDE DEF P
  <2>1. 0 \in K /\ \A k \in Nat : k \in K => k + 1 \in K
    BY <1>1, <1>2
  <2> HIDE DEF K
  <2>2. n \in K
    BY <2>1, Flattening!SetInduction
  <2> QED BY <2>2 DEF K
<1> QED BY <1>3

\* What is collected when an entry is read after others.
LEMMA CollectGets ==
  ASSUME NEW c, NEW d, NEW e, NEW x \in Seq(Nat), NEW y \in Seq(Nat), NEW vs, NEW v,
         Ahead(c, x \o y), Got(c, d, x, vs), Got(d, e, y, v)
  PROVE  Got(c, Collect(d, e), x \o y, Append(vs, v))
<1>1. Ahead(c, x) /\ Ahead(d, y) /\ Got(c, e, x \o y, v)
  BY AheadSplit
<1>2. d.ok /\ d.v = vs /\ Sound(e) /\ e.ok /\ e.v = v
  BY <1>1, GotSound
<1> DEFINE both == Append(vs, v)
<1>3. Collect(d, e) = [e EXCEPT !.v = both]
  BY <1>2 DEF Collect
<1> HIDE DEF both
<1>4. [e EXCEPT !.v = both] = [at |-> e.at, end |-> e.end, ok |-> e.ok, v |-> both]
  BY <1>2, CursorFields
<1>5. e.at = c.at + Len(x \o y) /\ e.end = c.end /\ e.ok = TRUE
  BY <1>1 DEF Got
<1> QED BY <1>3, <1>4, <1>5 DEF Got, both

\* A loop that reads one entry per step returns the entries that were written.
LEMMA LoopGets ==
  ASSUME NEW n \in Nat, NEW c, NEW r, NEW es, NEW xs, NEW vs, Gains(n, c, r, es, xs, vs),
         \A i \in 1 .. n : xs[i] \in Seq(Nat),
         Ahead(c, Flat([i \in 1 .. n |-> xs[i]]))
  PROVE  Got(c, r[n], Flat([i \in 1 .. n |-> xs[i]]), [i \in 1 .. n |-> vs[i]])
<1> DEFINE Cells(k) == [i \in 1 .. k |-> xs[i]]
           F(k) == Flat(Cells(k))
           Values_(k) == [i \in 1 .. k |-> vs[i]]
<1>1. ASSUME NEW k \in Nat, k + 1 <= n
      PROVE  F(k) \in Seq(Nat) /\ xs[k + 1] \in Seq(Nat) /\ F(k + 1) = F(k) \o xs[k + 1]
  <2>1. /\ Cells(k) \in Seq(Seq(Nat)) /\ xs[k + 1] \in Seq(Nat)
        /\ Cells(k + 1) = Append(Cells(k), xs[k + 1])
        /\ \A i \in 1 .. k : xs[i] \in Seq(Nat) /\ 0 <= Len(xs[i])
    BY <1>1
  <2> HIDE DEF Cells
  <2>2. F(k + 1) = F(k) \o xs[k + 1]
    BY <2>1, FlatAppend
  <2>3. F(k) \in Seq(Nat)
    BY <2>1, FlatTyped DEF Cells
  <2> QED BY <2>1, <2>2, <2>3
<1>2. \A k \in Nat : k <= n => Ahead(c, F(k))
  <2> DEFINE K == {j \in Nat : j <= n => Ahead(c, F(n - j))}
  <2> HIDE DEF F
  <2>1. 0 \in K
    <3>1. n - 0 = n /\ Ahead(c, F(n))
      BY DEF F
    <3> QED BY <3>1
  <2>2. ASSUME NEW j \in Nat, j \in K PROVE j + 1 \in K
    <3> SUFFICES ASSUME j + 1 <= n PROVE Ahead(c, F(n - (j + 1)))
      OBVIOUS
    <3> DEFINE k == n - (j + 1)
    <3>1. k \in Nat /\ k + 1 <= n /\ k + 1 = n - j /\ Ahead(c, F(n - j))
      BY <2>2
    <3> HIDE DEF k
    <3>2. Ahead(c, F(k) \o xs[k + 1]) /\ F(k) \in Seq(Nat) /\ xs[k + 1] \in Seq(Nat)
      BY <1>1, <3>1
    <3>3. Ahead(c, F(k))
      BY <3>2, AheadSplit
    <3> QED BY <3>3 DEF k
  <2> HIDE DEF K
  <2>3. Nat \subseteq K
    BY <2>1, <2>2, Flattening!SetInduction
  <2>4. ASSUME NEW k \in Nat, k <= n PROVE Ahead(c, F(k))
    <3>1. n - k \in Nat /\ n - k <= n /\ n - (n - k) = k
      BY <2>4
    <3>2. n - k \in K
      BY <2>3, <3>1
    <3> QED BY <3>1, <3>2 DEF K
  <2> QED BY <2>4
<1> DEFINE P(k) == Got(c, r[k], F(k), Values_(k))
           K == {k \in Nat : k <= n => P(k)}
<1>3. P(0)
  <2>1. Cells(0) = <<>> /\ Values_(0) = <<>> /\ r[0] = [c EXCEPT !.v = <<>>]
    BY DEF Gains
  <2>2. F(0) = <<>> /\ Len(<<>>) = 0
    BY <2>1, FlatEmpty
  <2>3. Sound(c) /\ c.ok
    BY <1>2 DEF Ahead
  <2>4. r[0] = [at |-> c.at, end |-> c.end, ok |-> c.ok, v |-> <<>>]
    BY <2>1, <2>3, CursorFields
  <2>5. c.ok = TRUE /\ c.at + 0 = c.at
    BY <2>3 DEF Sound
  <2> HIDE DEF F, Values_
  <2> QED BY <2>1, <2>2, <2>4, <2>5 DEF Got
<1>4. ASSUME NEW k \in Nat, k + 1 <= n, P(k) PROVE P(k + 1)
  <2>1. /\ F(k) \in Seq(Nat) /\ xs[k + 1] \in Seq(Nat) /\ F(k + 1) = F(k) \o xs[k + 1]
        /\ Ahead(c, F(k) \o xs[k + 1])
    <3> HIDE DEF F, P
    <3>1. k + 1 \in Nat /\ k + 1 <= n
      BY <1>4
    <3> QED BY <1>1, <1>2, <3>1
  <2>2. Values_(k + 1) = Append(Values_(k), vs[k + 1])
    BY <1>4
  <2> HIDE DEF F, Values_
  <2>3. Ahead(r[k], xs[k + 1])
    BY <1>4, <2>1, AheadSplit
  <2>4. k + 1 \in 1 .. n /\ (k + 1) - 1 = k
    BY <1>4
  <2>5. r[k + 1] = Collect(r[k], es[k + 1]) /\ Got(r[k], es[k + 1], xs[k + 1], vs[k + 1])
    BY <2>3, <2>4 DEF Gains
  <2>6. Got(c, Collect(r[k], es[k + 1]), F(k) \o xs[k + 1], Append(Values_(k), vs[k + 1]))
    BY <1>4, <2>1, <2>5, CollectGets
  <2> QED BY <2>1, <2>2, <2>5, <2>6
<1>5. P(n)
  <2> HIDE DEF P
  <2>1. 0 \in K /\ \A k \in Nat : k \in K => k + 1 \in K
    BY <1>3, <1>4
  <2> HIDE DEF K
  <2>2. n \in K
    BY <2>1, Flattening!SetInduction
  <2> QED BY <2>2 DEF K
<1> QED BY <1>5

\* count() accepts the number of entries that are there.
LEMMA CountGets ==
  ASSUME file \in Seq(Nat), NEW c, NEW n \in Nat, NEW x \in Seq(Nat), Ahead(c, <<n>> \o x),
         NEW least \in Nat, n * least <= Len(x)
  PROVE  LET f == Field(c) IN
         /\ f.ok /\ f.v = n /\ f.v * least <= f.end - f.at
         /\ Ahead(f, x)
         /\ \A e, w : Got(f, e, x, w) => Got(c, e, <<n>> \o x, w)
<1> DEFINE f == Field(c)
<1>1. <<n>> \in Seq(Nat)
  OBVIOUS
<1>2. Ahead(c, <<n>>)
  BY <1>1, AheadSplit
<1>3. Got(c, f, <<n>>, n)
  BY <1>2, FieldGets
<1> HIDE DEF f
<1>4. f.ok /\ f.v = n /\ Sound(f)
  BY <1>2, <1>3, GotSound
<1>5. Ahead(f, x) /\ \A e, w : Got(f, e, x, w) => Got(c, e, <<n>> \o x, w)
  BY <1>1, <1>3, AheadSplit
<1>6. f.at + Len(x) <= f.end /\ f.at \in Nat /\ f.end \in Nat /\ Len(x) \in Nat
  BY <1>5 DEF Ahead, Sound
<1>7. n * least <= f.end - f.at
  <2>1. n * least \in Nat
    OBVIOUS
  <2> QED BY <1>6, <2>1
<1> QED BY <1>4, <1>5, <1>7 DEF f

\* What a list of names is written as.
LEMMA NameListTyped ==
  ASSUME NEW l \in ListsOf(StringsNotEmpty),
         NEW x, x = Flat([i \in 1 .. Len(l) |-> EncName(l[i])])
  PROVE  /\ x \in Seq(Nat) /\ Len(l) * MinString <= Len(x) /\ MinString \in Nat
         /\ EncList(l, EncName) = <<Len(l)>> \o x
         /\ EncList(l, EncName) \in Seq(Nat) /\ Len(EncList(l, EncName)) = 1 + Len(x)
         /\ Len(l) \in Nat /\ Len(l) <= MaxCount /\ l = [i \in 1 .. Len(l) |-> l[i]]
         /\ \A i \in 1 .. Len(l) : l[i] \in StringsNotEmpty /\ EncName(l[i]) \in Seq(Nat)
<1> DEFINE n == Len(l)
           xs == [i \in 1 .. n |-> EncName(l[i])]
<1>1. /\ n \in Nat /\ n <= MaxCount /\ l = [i \in 1 .. n |-> l[i]] /\ DOMAIN l = 1 .. n
      /\ \A i \in 1 .. n : l[i] \in StringsNotEmpty
  BY DEF ListsOf
<1>2. EncList(l, EncName) = <<n>> \o x
  BY <1>1 DEF EncList
<1>3. \A i \in 1 .. n : xs[i] = EncName(l[i]) /\ xs[i] \in Seq(Nat) /\ MinString <= Len(xs[i])
  <2>1. \A i \in 1 .. n : xs[i] = EncName(l[i])
    OBVIOUS
  <2> HIDE DEF xs, n
  <2>2. ASSUME NEW i \in 1 .. n PROVE xs[i] \in Seq(Nat) /\ MinString <= Len(xs[i])
    <3>1. xs[i] \in Seq(Nat) /\ 2 <= Len(xs[i])
      BY <1>1, <2>1, NameTyped
    <3> QED BY <3>1 DEF MinString
  <2> QED BY <2>1, <2>2
<1>4. x \in Seq(Nat) /\ n * MinString <= Len(x) /\ MinString \in Nat
  <2>1. MinString \in Nat
    BY DEF MinString
  <2>2. x = Flat([i \in 1 .. n |-> xs[i]])
    OBVIOUS
  <2> HIDE DEF xs, n
  <2>3. \A i \in 1 .. n : xs[i] \in Seq(Nat) /\ MinString <= Len(xs[i])
    BY ONLY <1>3
  <2>4. n \in Nat
    BY <1>1
  <2> QED BY ONLY <2>1, <2>2, <2>3, <2>4, FlatTyped
<1>5. <<n>> \in Seq(Nat) /\ Len(<<n>>) = 1
  BY <1>1
<1> HIDE DEF n
<1>6. <<n>> \o x \in Seq(Nat) /\ Len(<<n>> \o x) = 1 + Len(x)
  BY <1>4, <1>5, ConcatProperties
<1> QED BY <1>1, <1>2, <1>3, <1>4, <1>6 DEF n, xs

\* A list of names.
LEMMA NameListGets ==
  ASSUME file \in Seq(Nat), NEW c, NEW l \in ListsOf(StringsNotEmpty), Ahead(c, EncList(l, EncName))
  PROVE  Got(c, List(c, MinString, Name), EncList(l, EncName), l)
<1> DEFINE n == Len(l)
           xs == [i \in 1 .. n |-> EncName(l[i])]
           f == Field(c)
           T(i) == Times(f, i, Name)
           r == [i \in 0 .. n |-> T(i)]
           es == [i \in 1 .. n |-> Name(T(i - 1))]
           x == Flat([i \in 1 .. n |-> xs[i]])
<1>1. /\ n \in Nat /\ n <= MaxCount /\ l = [i \in 1 .. n |-> l[i]]
      /\ \A i \in 1 .. n : l[i] \in StringsNotEmpty
      /\ EncList(l, EncName) = <<n>> \o x
      /\ x \in Seq(Nat) /\ n * MinString <= Len(x) /\ MinString \in Nat
  BY NameListTyped
<1>2. \A i \in 1 .. n : xs[i] = EncName(l[i]) /\ xs[i] \in Seq(Nat)
  BY NameListTyped
<1> HIDE DEF x
<1>3. /\ f.ok /\ f.v = n /\ f.v * MinString <= f.end - f.at
      /\ Ahead(f, x)
      /\ \A e, w : Got(f, e, x, w) => Got(c, e, <<n>> \o x, w)
  <2>1. Ahead(c, <<n>> \o x)
    BY <1>1
  <2> HIDE DEF n
  <2> QED BY <1>1, <2>1, CountGets
<1>4. List(c, MinString, Name) = r[n]
  BY <1>1, <1>3 DEF List
<1>5. Gains(n, f, r, es, xs, l)
  <2>1. T(0) = [f EXCEPT !.v = <<>>] /\ \A i \in Nat : T(i + 1) = Collect(T(i), Name(T(i)))
    BY NameTimes
  <2> HIDE DEF T, f
  <2>2. /\ r[0] = [f EXCEPT !.v = <<>>]
        /\ \A i \in 1 .. n : r[i] = Collect(r[i - 1], es[i]) /\ es[i] = Name(r[i - 1])
    <3>1. /\ 0 \in 0 .. n
          /\ \A i \in 1 .. n : i \in 0 .. n /\ i - 1 \in 0 .. n /\ i - 1 \in Nat /\ (i - 1) + 1 = i
      BY <1>1
    <3> HIDE DEF n
    <3>2. \A i \in 1 .. n : T(i) = Collect(T(i - 1), Name(T(i - 1)))
      BY ONLY <2>1, <3>1
    <3>3. r[0] = T(0) /\ \A i \in 1 .. n : r[i] = T(i) /\ r[i - 1] = T(i - 1)
      BY ONLY <3>1
    <3>4. \A i \in 1 .. n : es[i] = Name(T(i - 1))
      OBVIOUS
    <3> HIDE DEF r, es
    <3> QED BY ONLY <2>1, <3>2, <3>3, <3>4
  <2>3. ASSUME NEW i \in 1 .. n, Ahead(r[i - 1], xs[i])
        PROVE  Got(r[i - 1], es[i], xs[i], l[i])
    <3>1. xs[i] = EncName(l[i]) /\ l[i] \in StringsNotEmpty /\ es[i] = Name(r[i - 1])
      BY <1>1, <1>2, <2>2
    <3> HIDE DEF r, es, xs, n
    <3> QED BY <2>3, <3>1, NameGets
  <2> HIDE DEF r, es, xs, n
  <2> QED BY <2>2, <2>3 DEF Gains
<1> HIDE DEF r, es, xs, f, n, T
<1>6. Got(f, r[n], x, [i \in 1 .. n |-> l[i]])
  <2>1. \A i \in 1 .. n : xs[i] \in Seq(Nat)
    BY <1>2
  <2>2. Ahead(f, Flat([i \in 1 .. n |-> xs[i]]))
    BY <1>3 DEF x
  <2>3. n \in Nat
    BY <1>1
  <2> QED BY <1>5, <2>1, <2>2, <2>3, LoopGets DEF x
<1> QED BY <1>1, <1>3, <1>4, <1>6

\* Dimensions are read back.
LEMMA DimsGets ==
  ASSUME file \in Seq(Nat), NEW c, NEW l \in DimLists, Ahead(c, l)
  PROVE  Got(c, Times(c, Len(l), ReadDim), l, l)
<1> DEFINE n == Len(l)
           xs == [i \in 1 .. n |-> Cell(l[i])]
           T(i) == Times(c, i, ReadDim)
           r == [i \in 0 .. n |-> T(i)]
           es == [i \in 1 .. n |-> ReadDim(T(i - 1))]
<1>1. /\ n \in Nat /\ l = [i \in 1 .. n |-> l[i]]
      /\ \A i \in 1 .. n : l[i] \in Nat /\ l[i] \in 1 .. MaxDim
  <2>1. l \in Seq(1 .. MaxDim)
    BY DEF DimLists
  <2>2. MaxDim \in Nat
    BY FormatAssumption
  <2> QED BY <2>1, <2>2
<1>2. Flat([i \in 1 .. n |-> xs[i]]) = l
  <2>1. \A i \in 1 .. n : Number(l[i])
    BY <1>1 DEF Number
  <2> HIDE DEF n
  <2>2. DOMAIN l = 1 .. n /\ Flat([i \in DOMAIN l |-> Cell(l[i])]) = l
    BY <1>1, <2>1, CellsFlat
  <2> QED BY <2>2
<1>3. \A i \in 1 .. n : xs[i] = <<l[i]>> /\ xs[i] \in Seq(Nat)
  BY <1>1 DEF Cell
<1>4. Gains(n, c, r, es, xs, l)
  <2>1. T(0) = [c EXCEPT !.v = <<>>] /\ \A i \in Nat : T(i + 1) = Collect(T(i), ReadDim(T(i)))
    BY DimTimes
  <2> HIDE DEF T
  <2>2. /\ r[0] = [c EXCEPT !.v = <<>>]
        /\ \A i \in 1 .. n : r[i] = Collect(r[i - 1], es[i]) /\ es[i] = ReadDim(r[i - 1])
    BY <1>1, <2>1
  <2> HIDE DEF r, es, xs, n
  <2>3. ASSUME NEW i \in 1 .. n, Ahead(r[i - 1], xs[i])
        PROVE  Got(r[i - 1], es[i], xs[i], l[i])
    <3>1. Ahead(r[i - 1], <<l[i]>>) /\ l[i] \in Nat /\ l[i] \in 1 .. MaxDim
      BY <1>1, <1>3, <2>3
    <3>2. Got(r[i - 1], ReadDim(r[i - 1]), <<l[i]>>, l[i])
      BY <3>1, AmongGets DEF ReadDim
    <3> QED BY <1>3, <2>2, <3>2
  <2> QED BY <2>2, <2>3 DEF Gains
<1>5. r[n] = T(n)
  BY <1>1
<1> HIDE DEF r, es, xs, n, T
<1>6. Got(c, r[n], l, [i \in 1 .. n |-> l[i]])
  <2>1. \A i \in 1 .. n : xs[i] \in Seq(Nat)
    BY <1>3
  <2>2. Ahead(c, Flat([i \in 1 .. n |-> xs[i]]))
    BY <1>2
  <2>3. Got(c, r[n], Flat([i \in 1 .. n |-> xs[i]]), [i \in 1 .. n |-> l[i]])
    BY <1>1, <1>4, <2>1, <2>2, LoopGets
  <2> QED BY <1>2, <2>3
<1>7. Got(c, T(n), l, l)
  BY <1>1, <1>5, <1>6
<1> QED BY <1>7 DEF T, n

\* So are the integers of an attribute.
LEMMA NumbersGet ==
  ASSUME file \in Seq(Nat), NEW c, NEW l \in ListsOf(Nat), Ahead(c, <<Len(l)>> \o l)
  PROVE  Got(c, List(c, 1, Field), <<Len(l)>> \o l, l)
<1> DEFINE n == Len(l)
           xs == [i \in 1 .. n |-> Cell(l[i])]
           f == Field(c)
           T(i) == Times(f, i, Field)
           r == [i \in 0 .. n |-> T(i)]
           es == [i \in 1 .. n |-> Field(T(i - 1))]
<1>1. /\ n \in Nat /\ n <= MaxCount /\ l = [i \in 1 .. n |-> l[i]] /\ l \in Seq(Nat)
      /\ \A i \in 1 .. n : l[i] \in Nat
  BY DEF ListsOf
<1>2. Flat([i \in 1 .. n |-> xs[i]]) = l
  <2>1. \A i \in 1 .. n : Number(l[i])
    BY <1>1 DEF Number
  <2> HIDE DEF n
  <2>2. DOMAIN l = 1 .. n /\ Flat([i \in DOMAIN l |-> Cell(l[i])]) = l
    BY <1>1, <2>1, CellsFlat
  <2> QED BY <2>2
<1>3. \A i \in 1 .. n : xs[i] = <<l[i]>> /\ xs[i] \in Seq(Nat)
  BY <1>1 DEF Cell
<1>4. /\ f.ok /\ f.v = n /\ f.v * 1 <= f.end - f.at
      /\ Ahead(f, l)
      /\ \A e, w : Got(f, e, l, w) => Got(c, e, <<n>> \o l, w)
  <2>1. Ahead(c, <<n>> \o l) /\ n * 1 <= Len(l) /\ 1 \in Nat
    BY <1>1
  <2> HIDE DEF n
  <2> QED BY <1>1, <2>1, CountGets
<1>5. List(c, 1, Field) = r[n]
  BY <1>1, <1>4 DEF List
<1>6. Gains(n, f, r, es, xs, l)
  <2>1. T(0) = [f EXCEPT !.v = <<>>] /\ \A i \in Nat : T(i + 1) = Collect(T(i), Field(T(i)))
    BY NumberTimes
  <2> HIDE DEF T, f
  <2>2. /\ r[0] = [f EXCEPT !.v = <<>>]
        /\ \A i \in 1 .. n : r[i] = Collect(r[i - 1], es[i]) /\ es[i] = Field(r[i - 1])
    BY <1>1, <2>1
  <2> HIDE DEF r, es, xs, n
  <2>3. ASSUME NEW i \in 1 .. n, Ahead(r[i - 1], xs[i])
        PROVE  Got(r[i - 1], es[i], xs[i], l[i])
    <3>1. Ahead(r[i - 1], <<l[i]>>) /\ l[i] \in Nat
      BY <1>1, <1>3, <2>3
    <3>2. Got(r[i - 1], Field(r[i - 1]), <<l[i]>>, l[i])
      BY <3>1, FieldGets
    <3> QED BY <1>3, <2>2, <3>2
  <2> QED BY <2>2, <2>3 DEF Gains
<1> HIDE DEF r, es, xs, f, n, T
<1>7. Got(f, r[n], l, [i \in 1 .. n |-> l[i]])
  <2>1. \A i \in 1 .. n : xs[i] \in Seq(Nat)
    BY <1>3
  <2>2. Ahead(f, Flat([i \in 1 .. n |-> xs[i]]))
    BY <1>2, <1>4
  <2>3. Got(f, r[n], Flat([i \in 1 .. n |-> xs[i]]), [i \in 1 .. n |-> l[i]])
    <3>1. n \in Nat
      BY <1>1
    <3> QED BY <1>6, <2>1, <2>2, <3>1, LoopGets
  <2> QED BY <1>2, <2>3
<1>8. Got(c, List(c, 1, Field), <<n>> \o l, l)
  BY <1>1, <1>4, <1>5, <1>7
<1> QED BY <1>8 DEF n

-----------------------------------------------------------------------------
(* What the converter writes is read: the entries of the lists              *)

\* Descriptors and initializers whose number of elements is a size_t.
FineDescs == {d \in Descs : Countable(d.dims)}
FineInits == {i \in Inits : Countable(i.desc.dims)}

\* What a descriptor is written as.
LEMMA DescTyped ==
  ASSUME NEW d \in Descs
  PROVE  /\ d = [name |-> d.name, dtype |-> d.dtype, dims |-> d.dims]
         /\ d.name \in StringsNotEmpty /\ d.dims \in DimLists
         /\ d.dtype \in Nat /\ Len(d.dims) \in Nat
         /\ EncName(d.name) \in Seq(Nat) /\ d.dims \in Seq(Nat)
         /\ EncName(d.name) \o <<d.dtype, Len(d.dims)>> \in Seq(Nat)
         /\ EncDesc(d) \in Seq(Nat) /\ 4 <= Len(EncDesc(d))
<1>1. /\ d = [name |-> d.name, dtype |-> d.dtype, dims |-> d.dims]
      /\ d.name \in StringsNotEmpty /\ d.dtype \in {Float32, Int64} /\ d.dims \in DimLists
  BY DEF Descs
<1> DEFINE a == EncName(d.name)
           b == <<d.dtype, Len(d.dims)>>
<1>2. d.dtype \in Nat
  BY <1>1 DEF Float32, Int64
<1>3. d.dims \in Seq(Nat) /\ Len(d.dims) \in Nat
  <2>1. d.dims \in Seq(1 .. MaxDim) /\ 1 .. MaxDim \subseteq Nat
    BY <1>1 DEF DimLists
  <2>2. d.dims \in Seq(Nat)
    BY <2>1, SeqMonotonic
  <2> QED BY <2>2
<1>4. a \in Seq(Nat) /\ 2 <= Len(a)
  BY <1>1, NameTyped
<1>5. b \in Seq(Nat) /\ Len(b) = 2
  BY <1>2, <1>3
<1>6. EncDesc(d) = a \o b \o d.dims
  BY DEF EncDesc
<1> HIDE DEF a, b
<1>7. a \o b \in Seq(Nat) /\ Len(a \o b) = Len(a) + Len(b)
  BY <1>4, <1>5, ConcatProperties
<1> DEFINE ab == a \o b
<1>8. EncDesc(d) = ab \o d.dims /\ ab \in Seq(Nat) /\ 4 <= Len(ab)
  BY <1>4, <1>5, <1>6, <1>7
<1> HIDE DEF ab
<1>9. EncDesc(d) \in Seq(Nat) /\ Len(EncDesc(d)) = Len(ab) + Len(d.dims)
  BY <1>3, <1>8, ConcatProperties
<1>10. 4 <= Len(EncDesc(d))
  BY <1>3, <1>8, <1>9
<1> QED BY <1>1, <1>2, <1>3, <1>4, <1>7, <1>9, <1>10 DEF a, b

\* readDesc() returns the descriptor that was written.
LEMMA DescGets ==
  ASSUME file \in Seq(Nat), NEW c, NEW d \in FineDescs, Ahead(c, EncDesc(d))
  PROVE  Got(c, ReadDesc(c), EncDesc(d), d)
<1> DEFINE name == Name(c)
           dtype == Among(Field(name), {Float32, Int64})
           rank == Among(Field(dtype), 1 .. MaxRank)
           dims == Times(rank, rank.v, ReadDim)
           value == [name |-> name.v, dtype |-> dtype.v, dims |-> dims.v]
           x == EncName(d.name)
           k == Len(d.dims)
           y == <<d.dtype>> \o <<k>>
<1>1. ReadDesc(c) = IF ~rank.ok THEN rank
                    ELSE IF dims.ok /\ Countable(dims.v) THEN [dims EXCEPT !.v = value]
                    ELSE Fail(dims)
  BY DEF ReadDesc
<1>2. /\ d = [name |-> d.name, dtype |-> d.dtype, dims |-> d.dims]
      /\ d.name \in StringsNotEmpty /\ d.dims \in DimLists
      /\ d.dtype \in Nat /\ k \in Nat
      /\ x \in Seq(Nat) /\ d.dims \in Seq(Nat) /\ x \o y \in Seq(Nat)
      /\ EncDesc(d) = (x \o y) \o d.dims
      /\ <<d.dtype>> \in Seq(Nat) /\ <<k>> \in Seq(Nat) /\ y \in Seq(Nat)
      /\ d.dtype \in {Float32, Int64} /\ k \in 1 .. MaxRank /\ Countable(d.dims)
  <2>1. d \in Descs /\ Countable(d.dims)
    BY DEF FineDescs
  <2>2. y = <<d.dtype, k>>
    BY PairOfCells
  <2>3. <<d.dtype>> \in Seq(Nat) /\ <<k>> \in Seq(Nat) /\ <<d.dtype, k>> \in Seq(Nat)
    BY <2>1, DescTyped
  <2>4. d.dtype \in {Float32, Int64} /\ k \in 1 .. MaxRank
    BY <2>1 DEF Descs, DimLists
  <2> HIDE DEF y
  <2> QED BY <2>1, <2>2, <2>3, <2>4, DescTyped DEF EncDesc
<1>3. Ahead(c, x \o y) /\ Ahead(c, x)
  <2> HIDE DEF x, y
  <2>1. Ahead(c, (x \o y) \o d.dims)
    BY <1>2
  <2> DEFINE xy == x \o y
  <2>2. xy \in Seq(Nat) /\ Ahead(c, xy \o d.dims)
    BY <1>2, <2>1
  <2> HIDE DEF xy
  <2>3. Ahead(c, xy)
    BY <1>2, <2>2, AheadSplit
  <2> QED BY <1>2, <2>3, AheadSplit DEF xy
<1>4. Got(c, name, x, d.name) /\ name.v = d.name
  <2>1. Got(c, name, x, d.name)
    BY <1>2, <1>3, NameGets
  <2> QED BY <1>3, <2>1, GotSound
<1> HIDE DEF name, x
<1>5. Ahead(name, y) /\ \A e, w : Got(name, e, y, w) => Got(c, e, x \o y, w)
  <2> HIDE DEF y
  <2> QED BY <1>2, <1>3, <1>4, AheadSplit
<1>6. Ahead(name, <<d.dtype>>)
  BY <1>2, <1>5, AheadSplit
<1>7. Got(name, dtype, <<d.dtype>>, d.dtype) /\ dtype.v = d.dtype
  <2>1. Got(name, dtype, <<d.dtype>>, d.dtype)
    BY <1>2, <1>6, AmongGets
  <2> QED BY <1>6, <2>1, GotSound
<1> HIDE DEF dtype
<1>8. Ahead(dtype, <<k>>) /\ \A e, w : Got(dtype, e, <<k>>, w) => Got(name, e, y, w)
  <2> HIDE DEF k
  <2> QED BY <1>2, <1>5, <1>7, AheadSplit
<1>9. Got(dtype, rank, <<k>>, k) /\ rank.ok /\ rank.v = k
  <2>1. Got(dtype, rank, <<k>>, k)
    BY <1>2, <1>8, AmongGets
  <2> QED BY <1>8, <2>1, GotSound
<1> HIDE DEF rank, y
<1>10. Got(c, rank, x \o y, k)
  BY <1>5, <1>8, <1>9
<1>11. Ahead(rank, d.dims) /\ \A e, w : Got(rank, e, d.dims, w) => Got(c, e, EncDesc(d), w)
  <2> DEFINE xy == x \o y
  <2>1. xy \in Seq(Nat) /\ EncDesc(d) = xy \o d.dims /\ Got(c, rank, xy, k)
    BY <1>2, <1>10
  <2> HIDE DEF xy
  <2>2. d.dims \in Seq(Nat) /\ Ahead(c, xy \o d.dims)
    BY <1>2, <2>1
  <2>3. /\ Ahead(rank, d.dims)
        /\ \A e, w : Got(rank, e, d.dims, w) => Got(c, e, xy \o d.dims, w)
    BY ONLY <2>1, <2>2, AheadSplit
  <2> QED BY ONLY <2>1, <2>3
<1>12. Got(rank, dims, d.dims, d.dims) /\ dims.ok /\ dims.v = d.dims
  <2>1. Got(rank, dims, d.dims, d.dims)
    BY <1>2, <1>9, <1>11, DimsGets
  <2> QED BY <1>11, <2>1, GotSound
<1>13. value = d
  BY <1>2, <1>4, <1>7, <1>12
<1> HIDE DEF dims, value
<1>14. ReadDesc(c) = Becomes(dims, d)
  BY <1>1, <1>2, <1>9, <1>12, <1>13 DEF Becomes
<1>15. Got(c, dims, EncDesc(d), d.dims)
  BY <1>11, <1>12
<1> QED BY <1>14, <1>15, BecomesGets

\* It is written as four cells at least.
LEMMA FineDescTyped ==
  ASSUME NEW d \in FineDescs
  PROVE  EncDesc(d) \in Seq(Nat) /\ 4 <= Len(EncDesc(d))
BY DescTyped DEF FineDescs

\* What a list of descriptors is written as.
LEMMA DescListTyped ==
  ASSUME NEW l \in ListsOf(FineDescs),
         NEW x, x = Flat([i \in 1 .. Len(l) |-> EncDesc(l[i])])
  PROVE  /\ x \in Seq(Nat) /\ Len(l) * MinTensorDesc <= Len(x) /\ MinTensorDesc \in Nat
         /\ EncList(l, EncDesc) = <<Len(l)>> \o x
         /\ EncList(l, EncDesc) \in Seq(Nat) /\ Len(EncList(l, EncDesc)) = 1 + Len(x)
         /\ Len(l) \in Nat /\ Len(l) <= MaxCount /\ l = [i \in 1 .. Len(l) |-> l[i]]
         /\ \A i \in 1 .. Len(l) : l[i] \in FineDescs /\ EncDesc(l[i]) \in Seq(Nat)
<1> DEFINE n == Len(l)
           xs == [i \in 1 .. n |-> EncDesc(l[i])]
<1>1. /\ n \in Nat /\ n <= MaxCount /\ l = [i \in 1 .. n |-> l[i]] /\ DOMAIN l = 1 .. n
      /\ \A i \in 1 .. n : l[i] \in FineDescs
  BY DEF ListsOf
<1>2. EncList(l, EncDesc) = <<n>> \o x
  BY <1>1 DEF EncList
<1>3. \A i \in 1 .. n : xs[i] = EncDesc(l[i]) /\ xs[i] \in Seq(Nat) /\ MinTensorDesc <= Len(xs[i])
  <2>1. \A i \in 1 .. n : xs[i] = EncDesc(l[i])
    OBVIOUS
  <2> HIDE DEF xs, n
  <2>2. ASSUME NEW i \in 1 .. n PROVE xs[i] \in Seq(Nat) /\ MinTensorDesc <= Len(xs[i])
    <3>1. xs[i] \in Seq(Nat) /\ 4 <= Len(xs[i])
      BY <1>1, <2>1, FineDescTyped
    <3> QED BY <3>1 DEF MinTensorDesc
  <2> QED BY <2>1, <2>2
<1>4. x \in Seq(Nat) /\ n * MinTensorDesc <= Len(x) /\ MinTensorDesc \in Nat
  <2>1. MinTensorDesc \in Nat
    BY DEF MinTensorDesc
  <2>2. x = Flat([i \in 1 .. n |-> xs[i]])
    OBVIOUS
  <2> HIDE DEF xs, n
  <2>3. \A i \in 1 .. n : xs[i] \in Seq(Nat) /\ MinTensorDesc <= Len(xs[i])
    BY ONLY <1>3
  <2>4. n \in Nat
    BY <1>1
  <2> QED BY ONLY <2>1, <2>2, <2>3, <2>4, FlatTyped
<1>5. <<n>> \in Seq(Nat) /\ Len(<<n>>) = 1
  BY <1>1
<1> HIDE DEF n
<1>6. <<n>> \o x \in Seq(Nat) /\ Len(<<n>> \o x) = 1 + Len(x)
  BY <1>4, <1>5, ConcatProperties
<1> QED BY <1>1, <1>2, <1>3, <1>4, <1>6 DEF n, xs

\* A list of descriptors.
LEMMA DescListGets ==
  ASSUME file \in Seq(Nat), NEW c, NEW l \in ListsOf(FineDescs), Ahead(c, EncList(l, EncDesc))
  PROVE  Got(c, List(c, MinTensorDesc, ReadDesc), EncList(l, EncDesc), l)
<1> DEFINE n == Len(l)
           xs == [i \in 1 .. n |-> EncDesc(l[i])]
           f == Field(c)
           T(i) == Times(f, i, ReadDesc)
           r == [i \in 0 .. n |-> T(i)]
           es == [i \in 1 .. n |-> ReadDesc(T(i - 1))]
           x == Flat([i \in 1 .. n |-> xs[i]])
<1>1. /\ n \in Nat /\ n <= MaxCount /\ l = [i \in 1 .. n |-> l[i]]
      /\ \A i \in 1 .. n : l[i] \in FineDescs
      /\ EncList(l, EncDesc) = <<n>> \o x
      /\ x \in Seq(Nat) /\ n * MinTensorDesc <= Len(x) /\ MinTensorDesc \in Nat
  BY DescListTyped
<1>2. \A i \in 1 .. n : xs[i] = EncDesc(l[i]) /\ xs[i] \in Seq(Nat)
  BY DescListTyped
<1> HIDE DEF x
<1>3. /\ f.ok /\ f.v = n /\ f.v * MinTensorDesc <= f.end - f.at
      /\ Ahead(f, x)
      /\ \A e, w : Got(f, e, x, w) => Got(c, e, <<n>> \o x, w)
  <2>1. Ahead(c, <<n>> \o x)
    BY <1>1
  <2> HIDE DEF n
  <2> QED BY <1>1, <2>1, CountGets
<1>4. List(c, MinTensorDesc, ReadDesc) = r[n]
  BY <1>1, <1>3 DEF List
<1>5. Gains(n, f, r, es, xs, l)
  <2>1. T(0) = [f EXCEPT !.v = <<>>] /\ \A i \in Nat : T(i + 1) = Collect(T(i), ReadDesc(T(i)))
    BY DescTimes
  <2> HIDE DEF T, f
  <2>2. /\ r[0] = [f EXCEPT !.v = <<>>]
        /\ \A i \in 1 .. n : r[i] = Collect(r[i - 1], es[i]) /\ es[i] = ReadDesc(r[i - 1])
    <3>1. /\ 0 \in 0 .. n
          /\ \A i \in 1 .. n : i \in 0 .. n /\ i - 1 \in 0 .. n /\ i - 1 \in Nat /\ (i - 1) + 1 = i
      BY <1>1
    <3> HIDE DEF n
    <3>2. \A i \in 1 .. n : T(i) = Collect(T(i - 1), ReadDesc(T(i - 1)))
      BY ONLY <2>1, <3>1
    <3>3. r[0] = T(0) /\ \A i \in 1 .. n : r[i] = T(i) /\ r[i - 1] = T(i - 1)
      BY ONLY <3>1
    <3>4. \A i \in 1 .. n : es[i] = ReadDesc(T(i - 1))
      OBVIOUS
    <3> HIDE DEF r, es
    <3> QED BY ONLY <2>1, <3>2, <3>3, <3>4
  <2>3. ASSUME NEW i \in 1 .. n, Ahead(r[i - 1], xs[i])
        PROVE  Got(r[i - 1], es[i], xs[i], l[i])
    <3>1. xs[i] = EncDesc(l[i]) /\ l[i] \in FineDescs /\ es[i] = ReadDesc(r[i - 1])
      BY <1>1, <1>2, <2>2
    <3> HIDE DEF r, es, xs, n
    <3> QED BY <2>3, <3>1, DescGets
  <2> HIDE DEF r, es, xs, n
  <2> QED BY <2>2, <2>3 DEF Gains
<1> HIDE DEF r, es, xs, f, n, T
<1>6. Got(f, r[n], x, [i \in 1 .. n |-> l[i]])
  <2>1. \A i \in 1 .. n : xs[i] \in Seq(Nat)
    BY <1>2
  <2>2. Ahead(f, Flat([i \in 1 .. n |-> xs[i]]))
    BY <1>3 DEF x
  <2>3. n \in Nat
    BY <1>1
  <2> QED BY <1>5, <2>1, <2>2, <2>3, LoopGets DEF x
<1> QED BY <1>1, <1>3, <1>4, <1>6

\* What an initializer is written as.
LEMMA InitTyped ==
  ASSUME NEW i \in FineInits
  PROVE  /\ i = [desc |-> i.desc, data |-> i.data] /\ i.desc \in FineDescs
         /\ EncDesc(i.desc) \in Seq(Nat) /\ i.data \in Seq(Nat) /\ Len(i.data) \in Nat
         /\ Len(i.data) = Elements(i.desc.dims)
         /\ <<Len(i.data)>> \in Seq(Nat) /\ EncDesc(i.desc) \o <<Len(i.data)>> \in Seq(Nat)
         /\ EncInit(i) \in Seq(Nat) /\ 5 <= Len(EncInit(i))
<1>1. /\ i = [desc |-> i.desc, data |-> i.data] /\ i.desc \in FineDescs
      /\ i.data \in Seq(Nat) /\ Len(i.data) = Elements(i.desc.dims)
  BY DEF FineInits, Inits, FineDescs
<1> DEFINE k == Len(i.data)
           x == EncDesc(i.desc)
           y == <<k>>
<1>2. k \in Nat
  BY <1>1
<1>3. y \in Seq(Nat) /\ Len(y) = 1
  BY <1>2
<1>4. x \in Seq(Nat) /\ 4 <= Len(x)
  BY <1>1, FineDescTyped
<1>5. EncInit(i) = x \o y \o i.data
  BY DEF EncInit
<1> HIDE DEF x, y, k
<1>6. x \o y \in Seq(Nat) /\ Len(x \o y) = Len(x) + 1
  <2>1. x \in Seq(Nat) /\ y \in Seq(Nat) /\ Len(y) = 1
    BY <1>3, <1>4
  <2>2. x \o y \in Seq(Nat) /\ Len(x \o y) = Len(x) + Len(y)
    BY ONLY <2>1, Joined
  <2> QED BY ONLY <2>1, <2>2
<1> DEFINE xy == x \o y
<1>7. xy \in Seq(Nat) /\ 5 <= Len(xy) /\ EncInit(i) = xy \o i.data
  BY <1>4, <1>5, <1>6
<1> HIDE DEF xy
<1>8. EncInit(i) \in Seq(Nat) /\ Len(EncInit(i)) = Len(xy) + Len(i.data)
  BY <1>1, <1>7, ConcatProperties
<1>9. 5 <= Len(EncInit(i))
  BY <1>2, <1>7, <1>8 DEF k
<1> QED BY <1>1, <1>2, <1>3, <1>4, <1>6, <1>8, <1>9 DEF x, y, k

\* An initializer is read back.
LEMMA InitGets ==
  ASSUME file \in Seq(Nat), NEW c, NEW i \in FineInits, Ahead(c, EncInit(i))
  PROVE  Got(c, ReadInit(c), EncInit(i), i)
<1> DEFINE desc == ReadDesc(c)
           length == Field(desc)
           data == [j \in 1 .. length.v |-> CellAt(length.at + j)]
           fine == length.ok /\ length.v = Elements(desc.v.dims) /\ length.v <= length.end - length.at
           k == Len(i.data)
           x == EncDesc(i.desc)
           y == <<k>>
           xy == x \o y
<1>1. ReadInit(c) = IF fine THEN Take(length, length.v, [desc |-> desc.v, data |-> data])
                    ELSE Fail(length)
  BY DEF ReadInit
<1>2. /\ i = [desc |-> i.desc, data |-> i.data] /\ i.desc \in FineDescs
      /\ x \in Seq(Nat) /\ y \in Seq(Nat) /\ xy \in Seq(Nat) /\ i.data \in Seq(Nat)
      /\ k \in Nat /\ k = Elements(i.desc.dims)
      /\ EncInit(i) = xy \o i.data
  BY InitTyped DEF EncInit
<1> HIDE DEF xy
<1>3. Ahead(c, xy)
  BY <1>2, AheadSplit
<1>4. Ahead(c, x \o y)
  BY <1>3 DEF xy
<1> HIDE DEF x, y
<1>5. Ahead(c, x)
  BY <1>2, <1>4, AheadSplit
<1>6. Got(c, desc, x, i.desc) /\ desc.v = i.desc
  <2>1. Got(c, desc, x, i.desc)
    BY <1>2, <1>5, DescGets DEF x
  <2> HIDE DEF desc
  <2> QED BY <1>5, <2>1, GotSound
<1> HIDE DEF desc
<1>7. Ahead(desc, y) /\ \A e, w : Got(desc, e, y, w) => Got(c, e, x \o y, w)
  BY <1>2, <1>4, <1>6, AheadSplit
<1>8. Got(desc, length, y, k) /\ length.ok /\ length.v = k
  <2>1. Got(desc, length, y, k)
    BY <1>2, <1>7, FieldGets DEF y
  <2> HIDE DEF length
  <2> QED BY <1>7, <2>1, GotSound
<1> HIDE DEF length
<1>9. Ahead(length, i.data) /\ \A e, w : Got(length, e, i.data, w) => Got(c, e, EncInit(i), w)
  <2>1. Got(c, length, xy, k)
    BY <1>7, <1>8 DEF xy
  <2> QED BY <1>2, <2>1, AheadSplit
<1>10. /\ data = i.data /\ k <= length.end - length.at
       /\ \A v : Got(length, Take(length, k, v), i.data, v)
  <2>1. data = [j \in 1 .. k |-> CellAt(length.at + j)]
    <3> HIDE DEF k
    <3> QED BY <1>8
  <2> HIDE DEF data
  <2> QED BY <1>9, <2>1, CellsGet
<1> HIDE DEF data, k
<1>11. fine
  BY <1>2, <1>6, <1>8, <1>10
<1>12. [desc |-> desc.v, data |-> data] = i
  BY <1>2, <1>6, <1>10
<1> HIDE DEF fine
<1>13. ReadInit(c) = Take(length, k, i)
  BY <1>1, <1>8, <1>11, <1>12
<1> QED BY <1>9, <1>10, <1>13

\* What a list of initializers is written as.
LEMMA InitListTyped ==
  ASSUME NEW l \in ListsOf(FineInits),
         NEW x, x = Flat([i \in 1 .. Len(l) |-> EncInit(l[i])])
  PROVE  /\ x \in Seq(Nat) /\ Len(l) * MinInit <= Len(x) /\ MinInit \in Nat
         /\ EncList(l, EncInit) = <<Len(l)>> \o x
         /\ EncList(l, EncInit) \in Seq(Nat) /\ Len(EncList(l, EncInit)) = 1 + Len(x)
         /\ Len(l) \in Nat /\ Len(l) <= MaxCount /\ l = [i \in 1 .. Len(l) |-> l[i]]
         /\ \A i \in 1 .. Len(l) : l[i] \in FineInits /\ EncInit(l[i]) \in Seq(Nat)
<1> DEFINE n == Len(l)
           xs == [i \in 1 .. n |-> EncInit(l[i])]
<1>1. /\ n \in Nat /\ n <= MaxCount /\ l = [i \in 1 .. n |-> l[i]] /\ DOMAIN l = 1 .. n
      /\ \A i \in 1 .. n : l[i] \in FineInits
  BY DEF ListsOf
<1>2. EncList(l, EncInit) = <<n>> \o x
  BY <1>1 DEF EncList
<1>3. \A i \in 1 .. n : xs[i] = EncInit(l[i]) /\ xs[i] \in Seq(Nat) /\ MinInit <= Len(xs[i])
  <2>1. \A i \in 1 .. n : xs[i] = EncInit(l[i])
    OBVIOUS
  <2> HIDE DEF xs, n
  <2>2. ASSUME NEW i \in 1 .. n PROVE xs[i] \in Seq(Nat) /\ MinInit <= Len(xs[i])
    <3>1. xs[i] \in Seq(Nat) /\ 5 <= Len(xs[i])
      BY <1>1, <2>1, InitTyped
    <3> QED BY <3>1 DEF MinInit
  <2> QED BY <2>1, <2>2
<1>4. x \in Seq(Nat) /\ n * MinInit <= Len(x) /\ MinInit \in Nat
  <2>1. MinInit \in Nat
    BY DEF MinInit
  <2>2. x = Flat([i \in 1 .. n |-> xs[i]])
    OBVIOUS
  <2> HIDE DEF xs, n
  <2>3. \A i \in 1 .. n : xs[i] \in Seq(Nat) /\ MinInit <= Len(xs[i])
    BY ONLY <1>3
  <2>4. n \in Nat
    BY <1>1
  <2> QED BY ONLY <2>1, <2>2, <2>3, <2>4, FlatTyped
<1>5. <<n>> \in Seq(Nat) /\ Len(<<n>>) = 1
  BY <1>1
<1> HIDE DEF n
<1>6. <<n>> \o x \in Seq(Nat) /\ Len(<<n>> \o x) = 1 + Len(x)
  BY <1>4, <1>5, ConcatProperties
<1> QED BY <1>1, <1>2, <1>3, <1>4, <1>6 DEF n, xs

\* A list of initializers.
LEMMA InitListGets ==
  ASSUME file \in Seq(Nat), NEW c, NEW l \in ListsOf(FineInits), Ahead(c, EncList(l, EncInit))
  PROVE  Got(c, List(c, MinInit, ReadInit), EncList(l, EncInit), l)
<1> DEFINE n == Len(l)
           xs == [i \in 1 .. n |-> EncInit(l[i])]
           f == Field(c)
           T(i) == Times(f, i, ReadInit)
           r == [i \in 0 .. n |-> T(i)]
           es == [i \in 1 .. n |-> ReadInit(T(i - 1))]
           x == Flat([i \in 1 .. n |-> xs[i]])
<1>1. /\ n \in Nat /\ n <= MaxCount /\ l = [i \in 1 .. n |-> l[i]]
      /\ \A i \in 1 .. n : l[i] \in FineInits
      /\ EncList(l, EncInit) = <<n>> \o x
      /\ x \in Seq(Nat) /\ n * MinInit <= Len(x) /\ MinInit \in Nat
  BY InitListTyped
<1>2. \A i \in 1 .. n : xs[i] = EncInit(l[i]) /\ xs[i] \in Seq(Nat)
  BY InitListTyped
<1> HIDE DEF x
<1>3. /\ f.ok /\ f.v = n /\ f.v * MinInit <= f.end - f.at
      /\ Ahead(f, x)
      /\ \A e, w : Got(f, e, x, w) => Got(c, e, <<n>> \o x, w)
  <2>1. Ahead(c, <<n>> \o x)
    BY <1>1
  <2> HIDE DEF n
  <2> QED BY <1>1, <2>1, CountGets
<1>4. List(c, MinInit, ReadInit) = r[n]
  BY <1>1, <1>3 DEF List
<1>5. Gains(n, f, r, es, xs, l)
  <2>1. T(0) = [f EXCEPT !.v = <<>>] /\ \A i \in Nat : T(i + 1) = Collect(T(i), ReadInit(T(i)))
    BY InitTimes
  <2> HIDE DEF T, f
  <2>2. /\ r[0] = [f EXCEPT !.v = <<>>]
        /\ \A i \in 1 .. n : r[i] = Collect(r[i - 1], es[i]) /\ es[i] = ReadInit(r[i - 1])
    <3>1. /\ 0 \in 0 .. n
          /\ \A i \in 1 .. n : i \in 0 .. n /\ i - 1 \in 0 .. n /\ i - 1 \in Nat /\ (i - 1) + 1 = i
      BY <1>1
    <3> HIDE DEF n
    <3>2. \A i \in 1 .. n : T(i) = Collect(T(i - 1), ReadInit(T(i - 1)))
      BY ONLY <2>1, <3>1
    <3>3. r[0] = T(0) /\ \A i \in 1 .. n : r[i] = T(i) /\ r[i - 1] = T(i - 1)
      BY ONLY <3>1
    <3>4. \A i \in 1 .. n : es[i] = ReadInit(T(i - 1))
      OBVIOUS
    <3> HIDE DEF r, es
    <3> QED BY ONLY <2>1, <3>2, <3>3, <3>4
  <2>3. ASSUME NEW i \in 1 .. n, Ahead(r[i - 1], xs[i])
        PROVE  Got(r[i - 1], es[i], xs[i], l[i])
    <3>1. xs[i] = EncInit(l[i]) /\ l[i] \in FineInits /\ es[i] = ReadInit(r[i - 1])
      BY <1>1, <1>2, <2>2
    <3> HIDE DEF r, es, xs, n
    <3> QED BY <2>3, <3>1, InitGets
  <2> HIDE DEF r, es, xs, n
  <2> QED BY <2>2, <2>3 DEF Gains
<1> HIDE DEF r, es, xs, f, n, T
<1>6. Got(f, r[n], x, [i \in 1 .. n |-> l[i]])
  <2>1. \A i \in 1 .. n : xs[i] \in Seq(Nat)
    BY <1>2
  <2>2. Ahead(f, Flat([i \in 1 .. n |-> xs[i]]))
    BY <1>3 DEF x
  <2>3. n \in Nat
    BY <1>1
  <2> QED BY <1>5, <2>1, <2>2, <2>3, LoopGets DEF x
<1> QED BY <1>1, <1>3, <1>4, <1>6

\* What an attribute is written as.
LEMMA AttrTyped ==
  ASSUME NEW a \in Attrs,
         NEW y, y = IF a.kind = AttrInts THEN <<Len(a.value)>> \o a.value ELSE <<a.value>>
  PROVE  /\ a = [name |-> a.name, kind |-> a.kind, value |-> a.value]
         /\ a.name \in StringsNotEmpty /\ a.kind \in {AttrInt, AttrFloat, AttrInts} /\ a.kind \in Nat
         /\ a.kind = AttrInts => a.value \in ListsOf(Nat)
         /\ a.kind # AttrInts => a.value \in Nat
         /\ EncName(a.name) \in Seq(Nat) /\ <<a.kind>> \in Seq(Nat) /\ y \in Seq(Nat)
         /\ EncName(a.name) \o <<a.kind>> \in Seq(Nat)
         /\ EncAttr(a) = EncName(a.name) \o <<a.kind>> \o y
         /\ EncAttr(a) \in Seq(Nat) /\ 3 <= Len(EncAttr(a))
<1>1. /\ a = [name |-> a.name, kind |-> a.kind, value |-> a.value]
      /\ a.name \in StringsNotEmpty /\ a.kind \in {AttrInt, AttrFloat, AttrInts}
      /\ a.kind = AttrInts => a.value \in ListsOf(Nat)
      /\ a.kind # AttrInts => a.value \in Nat
  BY DEF Attrs, AttrInt, AttrFloat, AttrInts
<1>2. a.kind \in Nat
  BY <1>1 DEF AttrInt, AttrFloat, AttrInts
<1> DEFINE x == EncName(a.name)
           k == <<a.kind>>
<1>3. x \in Seq(Nat) /\ 2 <= Len(x)
  BY <1>1, NameTyped
<1>4. k \in Seq(Nat) /\ Len(k) = 1
  BY <1>2
<1>5. y \in Seq(Nat)
  <2>1. CASE a.kind = AttrInts
    <3> DEFINE l == a.value
               n == <<Len(l)>>
    <3>1. l \in Seq(Nat) /\ y = n \o l
      BY <1>1, <2>1 DEF ListsOf
    <3> HIDE DEF l
    <3>2. n \in Seq(Nat)
      BY <3>1
    <3> HIDE DEF n
    <3> QED BY <3>1, <3>2, ConcatProperties
  <2>2. CASE a.kind # AttrInts
    BY <1>1, <2>2
  <2> QED BY <2>1, <2>2
<1>6. EncAttr(a) = x \o k \o y
  BY DEF EncAttr
<1> HIDE DEF x, k
<1>7. x \o k \in Seq(Nat) /\ Len(x \o k) = Len(x) + 1
  <2>1. x \in Seq(Nat) /\ k \in Seq(Nat) /\ Len(k) = 1
    BY <1>3, <1>4
  <2>2. x \o k \in Seq(Nat) /\ Len(x \o k) = Len(x) + Len(k)
    BY ONLY <2>1, Joined
  <2> QED BY ONLY <2>1, <2>2
<1> DEFINE xk == x \o k
<1>8. xk \in Seq(Nat) /\ 3 <= Len(xk) /\ EncAttr(a) = xk \o y
  BY <1>3, <1>6, <1>7
<1> HIDE DEF xk
<1>9. EncAttr(a) \in Seq(Nat) /\ Len(EncAttr(a)) = Len(xk) + Len(y)
  BY <1>5, <1>8, ConcatProperties
<1>10. 3 <= Len(EncAttr(a))
  BY <1>5, <1>8, <1>9
<1> QED BY <1>1, <1>2, <1>3, <1>4, <1>5, <1>6, <1>7, <1>9, <1>10 DEF x, k

\* Its cells are at least those that a list of attributes counts with.
LEMMA AttrCells ==
  ASSUME NEW a \in Attrs
  PROVE  EncAttr(a) \in Seq(Nat) /\ 3 <= Len(EncAttr(a))
BY AttrTyped

\* An attribute is read back.
LEMMA AttrGets ==
  ASSUME file \in Seq(Nat), NEW c, NEW a \in Attrs, Ahead(c, EncAttr(a))
  PROVE  Got(c, ReadAttr(c), EncAttr(a), a)
<1> DEFINE name == Name(c)
           kind == Among(Field(name), {AttrInt, AttrFloat, AttrInts})
           value == IF kind.v = AttrInts THEN List(kind, 1, Field) ELSE Field(kind)
           full == [name |-> name.v, kind |-> kind.v, value |-> value.v]
           x == EncName(a.name)
           k == <<a.kind>>
           y == IF a.kind = AttrInts THEN <<Len(a.value)>> \o a.value ELSE <<a.value>>
           xk == x \o k
<1>1. ReadAttr(c) = IF ~kind.ok THEN kind
                    ELSE IF value.ok THEN Becomes(value, full) ELSE value
  BY DEF ReadAttr, Becomes
<1>2. /\ a = [name |-> a.name, kind |-> a.kind, value |-> a.value]
      /\ a.name \in StringsNotEmpty /\ a.kind \in {AttrInt, AttrFloat, AttrInts} /\ a.kind \in Nat
      /\ a.kind = AttrInts => a.value \in ListsOf(Nat)
      /\ a.kind # AttrInts => a.value \in Nat
      /\ x \in Seq(Nat) /\ k \in Seq(Nat) /\ y \in Seq(Nat) /\ xk \in Seq(Nat)
      /\ EncAttr(a) = xk \o y
  BY AttrTyped
<1> HIDE DEF xk, y
<1>3. Ahead(c, xk)
  BY <1>2, AheadSplit
<1>4. Ahead(c, x \o k)
  BY <1>3 DEF xk
<1> HIDE DEF x, k
<1>5. Ahead(c, x)
  BY <1>2, <1>4, AheadSplit
<1>6. Got(c, name, x, a.name) /\ name.v = a.name
  <2>1. Got(c, name, x, a.name)
    BY <1>2, <1>5, NameGets DEF x
  <2> HIDE DEF name
  <2> QED BY <1>5, <2>1, GotSound
<1> HIDE DEF name
<1>7. Ahead(name, k) /\ \A e, w : Got(name, e, k, w) => Got(c, e, x \o k, w)
  BY <1>2, <1>4, <1>6, AheadSplit
<1>8. Got(name, kind, k, a.kind) /\ kind.ok /\ kind.v = a.kind
  <2>1. Got(name, kind, k, a.kind)
    BY <1>2, <1>7, AmongGets DEF k
  <2> HIDE DEF kind
  <2> QED BY <1>7, <2>1, GotSound
<1> HIDE DEF kind
<1>9. Ahead(kind, y) /\ \A e, w : Got(kind, e, y, w) => Got(c, e, EncAttr(a), w)
  <2>1. Got(c, kind, xk, a.kind)
    BY <1>7, <1>8 DEF xk
  <2> QED BY <1>2, <2>1, AheadSplit
<1>10. Got(kind, value, y, a.value) /\ value.ok /\ value.v = a.value
  <2>1. CASE a.kind = AttrInts
    <3>1. a.value \in ListsOf(Nat) /\ Ahead(kind, <<Len(a.value)>> \o a.value)
      BY <1>2, <1>9, <2>1 DEF y
    <3>2. Got(kind, List(kind, 1, Field), <<Len(a.value)>> \o a.value, a.value)
      BY <3>1, NumbersGet
    <3>3. Got(kind, value, y, a.value)
      BY <1>8, <2>1, <3>2 DEF y
    <3> HIDE DEF value
    <3> QED BY <1>9, <3>3, GotSound
  <2>2. CASE a.kind # AttrInts
    <3>1. a.value \in Nat /\ Ahead(kind, <<a.value>>)
      BY <1>2, <1>9, <2>2 DEF y
    <3>2. Got(kind, Field(kind), <<a.value>>, a.value)
      BY <3>1, FieldGets
    <3>3. Got(kind, value, y, a.value)
      BY <1>8, <2>2, <3>2 DEF y
    <3> HIDE DEF value
    <3> QED BY <1>9, <3>3, GotSound
  <2> QED BY <2>1, <2>2
<1>11. full = a
  BY <1>2, <1>6, <1>8, <1>10
<1> HIDE DEF value, full
<1>12. ReadAttr(c) = Becomes(value, a)
  BY <1>1, <1>8, <1>10, <1>11
<1>13. Got(c, value, EncAttr(a), a.value)
  BY <1>9, <1>10
<1> QED BY <1>12, <1>13, BecomesGets

\* What a list of attributes is written as.
LEMMA AttrListTyped ==
  ASSUME NEW l \in ListsOf(Attrs),
         NEW x, x = Flat([i \in 1 .. Len(l) |-> EncAttr(l[i])])
  PROVE  /\ x \in Seq(Nat) /\ Len(l) * MinAttr <= Len(x) /\ MinAttr \in Nat
         /\ EncList(l, EncAttr) = <<Len(l)>> \o x
         /\ EncList(l, EncAttr) \in Seq(Nat) /\ Len(EncList(l, EncAttr)) = 1 + Len(x)
         /\ Len(l) \in Nat /\ Len(l) <= MaxCount /\ l = [i \in 1 .. Len(l) |-> l[i]]
         /\ \A i \in 1 .. Len(l) : l[i] \in Attrs /\ EncAttr(l[i]) \in Seq(Nat)
<1> DEFINE n == Len(l)
           xs == [i \in 1 .. n |-> EncAttr(l[i])]
<1>1. /\ n \in Nat /\ n <= MaxCount /\ l = [i \in 1 .. n |-> l[i]] /\ DOMAIN l = 1 .. n
      /\ \A i \in 1 .. n : l[i] \in Attrs
  BY DEF ListsOf
<1>2. EncList(l, EncAttr) = <<n>> \o x
  BY <1>1 DEF EncList
<1>3. \A i \in 1 .. n : xs[i] = EncAttr(l[i]) /\ xs[i] \in Seq(Nat) /\ MinAttr <= Len(xs[i])
  <2>1. \A i \in 1 .. n : xs[i] = EncAttr(l[i])
    OBVIOUS
  <2> HIDE DEF xs, n
  <2>2. ASSUME NEW i \in 1 .. n PROVE xs[i] \in Seq(Nat) /\ MinAttr <= Len(xs[i])
    <3>1. xs[i] \in Seq(Nat) /\ 3 <= Len(xs[i])
      BY <1>1, <2>1, AttrCells
    <3> QED BY <3>1 DEF MinAttr
  <2> QED BY <2>1, <2>2
<1>4. x \in Seq(Nat) /\ n * MinAttr <= Len(x) /\ MinAttr \in Nat
  <2>1. MinAttr \in Nat
    BY DEF MinAttr
  <2>2. x = Flat([i \in 1 .. n |-> xs[i]])
    OBVIOUS
  <2> HIDE DEF xs, n
  <2>3. \A i \in 1 .. n : xs[i] \in Seq(Nat) /\ MinAttr <= Len(xs[i])
    BY ONLY <1>3
  <2>4. n \in Nat
    BY <1>1
  <2> QED BY ONLY <2>1, <2>2, <2>3, <2>4, FlatTyped
<1>5. <<n>> \in Seq(Nat) /\ Len(<<n>>) = 1
  BY <1>1
<1> HIDE DEF n
<1>6. <<n>> \o x \in Seq(Nat) /\ Len(<<n>> \o x) = 1 + Len(x)
  BY <1>4, <1>5, ConcatProperties
<1> QED BY <1>1, <1>2, <1>3, <1>4, <1>6 DEF n, xs

\* A list of attributes.
LEMMA AttrListGets ==
  ASSUME file \in Seq(Nat), NEW c, NEW l \in ListsOf(Attrs), Ahead(c, EncList(l, EncAttr))
  PROVE  Got(c, List(c, MinAttr, ReadAttr), EncList(l, EncAttr), l)
<1> DEFINE n == Len(l)
           xs == [i \in 1 .. n |-> EncAttr(l[i])]
           f == Field(c)
           T(i) == Times(f, i, ReadAttr)
           r == [i \in 0 .. n |-> T(i)]
           es == [i \in 1 .. n |-> ReadAttr(T(i - 1))]
           x == Flat([i \in 1 .. n |-> xs[i]])
<1>1. /\ n \in Nat /\ n <= MaxCount /\ l = [i \in 1 .. n |-> l[i]]
      /\ \A i \in 1 .. n : l[i] \in Attrs
      /\ EncList(l, EncAttr) = <<n>> \o x
      /\ x \in Seq(Nat) /\ n * MinAttr <= Len(x) /\ MinAttr \in Nat
  BY AttrListTyped
<1>2. \A i \in 1 .. n : xs[i] = EncAttr(l[i]) /\ xs[i] \in Seq(Nat)
  BY AttrListTyped
<1> HIDE DEF x
<1>3. /\ f.ok /\ f.v = n /\ f.v * MinAttr <= f.end - f.at
      /\ Ahead(f, x)
      /\ \A e, w : Got(f, e, x, w) => Got(c, e, <<n>> \o x, w)
  <2>1. Ahead(c, <<n>> \o x)
    BY <1>1
  <2> HIDE DEF n
  <2> QED BY <1>1, <2>1, CountGets
<1>4. List(c, MinAttr, ReadAttr) = r[n]
  BY <1>1, <1>3 DEF List
<1>5. Gains(n, f, r, es, xs, l)
  <2>1. T(0) = [f EXCEPT !.v = <<>>] /\ \A i \in Nat : T(i + 1) = Collect(T(i), ReadAttr(T(i)))
    BY AttrTimes
  <2> HIDE DEF T, f
  <2>2. /\ r[0] = [f EXCEPT !.v = <<>>]
        /\ \A i \in 1 .. n : r[i] = Collect(r[i - 1], es[i]) /\ es[i] = ReadAttr(r[i - 1])
    <3>1. /\ 0 \in 0 .. n
          /\ \A i \in 1 .. n : i \in 0 .. n /\ i - 1 \in 0 .. n /\ i - 1 \in Nat /\ (i - 1) + 1 = i
      BY <1>1
    <3> HIDE DEF n
    <3>2. \A i \in 1 .. n : T(i) = Collect(T(i - 1), ReadAttr(T(i - 1)))
      BY ONLY <2>1, <3>1
    <3>3. r[0] = T(0) /\ \A i \in 1 .. n : r[i] = T(i) /\ r[i - 1] = T(i - 1)
      BY ONLY <3>1
    <3>4. \A i \in 1 .. n : es[i] = ReadAttr(T(i - 1))
      OBVIOUS
    <3> HIDE DEF r, es
    <3> QED BY ONLY <2>1, <3>2, <3>3, <3>4
  <2>3. ASSUME NEW i \in 1 .. n, Ahead(r[i - 1], xs[i])
        PROVE  Got(r[i - 1], es[i], xs[i], l[i])
    <3>1. xs[i] = EncAttr(l[i]) /\ l[i] \in Attrs /\ es[i] = ReadAttr(r[i - 1])
      BY <1>1, <1>2, <2>2
    <3> HIDE DEF r, es, xs, n
    <3> QED BY <2>3, <3>1, AttrGets
  <2> HIDE DEF r, es, xs, n
  <2> QED BY <2>2, <2>3 DEF Gains
<1> HIDE DEF r, es, xs, f, n, T
<1>6. Got(f, r[n], x, [i \in 1 .. n |-> l[i]])
  <2>1. \A i \in 1 .. n : xs[i] \in Seq(Nat)
    BY <1>2
  <2>2. Ahead(f, Flat([i \in 1 .. n |-> xs[i]]))
    BY <1>3 DEF x
  <2>3. n \in Nat
    BY <1>1
  <2> QED BY <1>5, <2>1, <2>2, <2>3, LoopGets DEF x
<1> QED BY <1>1, <1>3, <1>4, <1>6

\* What a node is written as.
LEMMA NodeTyped ==
  ASSUME NEW n \in Nodes
  PROVE  /\ n = [op |-> n.op, name |-> n.name, in |-> n.in, out |-> n.out, attrs |-> n.attrs]
         /\ n.op \in StringsNotEmpty /\ n.name \in Strings /\ n.in \in ListsOf(StringsNotEmpty)
         /\ n.out \in ListsOf(StringsNotEmpty) /\ n.out # <<>> /\ n.attrs \in ListsOf(Attrs)
         /\ EncName(n.op) \in Seq(Nat) /\ EncName(n.op) \o EncName(n.name) \in Seq(Nat)
         /\ EncName(n.op) \o EncName(n.name) \o EncList(n.in, EncName) \in Seq(Nat)
         /\ EncName(n.op) \o EncName(n.name) \o EncList(n.in, EncName) \o EncList(n.out, EncName)
              \in Seq(Nat)
         /\ EncName(n.name) \in Seq(Nat) /\ EncList(n.in, EncName) \in Seq(Nat)
         /\ EncList(n.out, EncName) \in Seq(Nat) /\ EncList(n.attrs, EncAttr) \in Seq(Nat)
         /\ EncNode(n) = EncName(n.op) \o EncName(n.name) \o EncList(n.in, EncName)
                           \o EncList(n.out, EncName) \o EncList(n.attrs, EncAttr)
         /\ EncNode(n) \in Seq(Nat) /\ 7 <= Len(EncNode(n))
<1>1. /\ n = [op |-> n.op, name |-> n.name, in |-> n.in, out |-> n.out, attrs |-> n.attrs]
      /\ n.op \in StringsNotEmpty /\ n.name \in Strings /\ n.in \in ListsOf(StringsNotEmpty)
      /\ n.out \in ListsOf(StringsNotEmpty) /\ n.out # <<>> /\ n.attrs \in ListsOf(Attrs)
  BY DEF Nodes
<1> DEFINE y == EncName(n.name)
           in == EncList(n.in, EncName)
           out == EncList(n.out, EncName)
           attrs == EncList(n.attrs, EncAttr)
           a == EncName(n.op)
           b == a \o y
           d == b \o in
           e == d \o out
<1>2. a \in Seq(Nat) /\ 2 <= Len(a)
  BY <1>1, NameTyped
<1>3. y \in Seq(Nat) /\ 1 <= Len(y)
  <2>1. y \in Seq(Nat) /\ Len(y) = 1 + Len(n.name) /\ Len(n.name) \in Nat
    BY <1>1, StringTyped
  <2> HIDE DEF y
  <2> QED BY <2>1
<1>4. in \in Seq(Nat) /\ 1 <= Len(in)
  <2> DEFINE x == Flat([i \in 1 .. Len(n.in) |-> EncName(n.in[i])])
  <2>1. in \in Seq(Nat) /\ Len(in) = 1 + Len(x) /\ x \in Seq(Nat)
    BY <1>1, NameListTyped
  <2> HIDE DEF in, x
  <2> QED BY <2>1
<1>5. out \in Seq(Nat) /\ 2 <= Len(out)
  <2> DEFINE x == Flat([i \in 1 .. Len(n.out) |-> EncName(n.out[i])])
  <2>1. /\ out \in Seq(Nat) /\ Len(out) = 1 + Len(x) /\ x \in Seq(Nat)
        /\ Len(n.out) * MinString <= Len(x)
    BY <1>1, NameListTyped
  <2>2. Len(n.out) \in Nat /\ 1 <= Len(n.out)
    BY <1>1 DEF ListsOf
  <2> HIDE DEF out, x
  <2> QED BY <2>1, <2>2 DEF MinString
<1>6. attrs \in Seq(Nat) /\ 1 <= Len(attrs)
  <2> DEFINE x == Flat([i \in 1 .. Len(n.attrs) |-> EncAttr(n.attrs[i])])
  <2>1. attrs \in Seq(Nat) /\ Len(attrs) = 1 + Len(x) /\ x \in Seq(Nat)
    BY <1>1, AttrListTyped
  <2> HIDE DEF attrs, x
  <2> QED BY <2>1
<1>7. EncNode(n) = e \o attrs /\ e = d \o out /\ d = b \o in /\ b = a \o y
  BY DEF EncNode
<1> HIDE DEF y, in, out, attrs, a, b, d, e
<1>8. b \in Seq(Nat) /\ Len(b) = Len(a) + Len(y)
  <2>1. a \o y \in Seq(Nat) /\ Len(a \o y) = Len(a) + Len(y)
    BY <1>2, <1>3, Joined
  <2> QED BY <1>7, <2>1
<1>9. d \in Seq(Nat) /\ Len(d) = Len(b) + Len(in)
  <2>1. b \o in \in Seq(Nat) /\ Len(b \o in) = Len(b) + Len(in)
    BY <1>4, <1>8, Joined
  <2> QED BY <1>7, <2>1
<1>10. e \in Seq(Nat) /\ Len(e) = Len(d) + Len(out)
  <2>1. d \o out \in Seq(Nat) /\ Len(d \o out) = Len(d) + Len(out)
    BY <1>5, <1>9, Joined
  <2> QED BY <1>7, <2>1
<1>11. EncNode(n) \in Seq(Nat) /\ Len(EncNode(n)) = Len(e) + Len(attrs)
  <2>1. e \o attrs \in Seq(Nat) /\ Len(e \o attrs) = Len(e) + Len(attrs)
    BY <1>6, <1>10, Joined
  <2> QED BY <1>7, <2>1
<1>12. 7 <= Len(EncNode(n))
  BY <1>2, <1>3, <1>4, <1>5, <1>6, <1>8, <1>9, <1>10, <1>11
<1> USE DEF y, in, out, attrs, a, b, d, e
<1>13. EncNode(n) = e \o attrs
  BY DEF EncNode
<1> QED BY <1>1, <1>2, <1>3, <1>4, <1>5, <1>6, <1>8, <1>9, <1>10, <1>11, <1>12, <1>13, Zenon

\* Its cells are at least those that a list of nodes counts with.
LEMMA NodeCells ==
  ASSUME NEW n \in Nodes
  PROVE  EncNode(n) \in Seq(Nat) /\ 7 <= Len(EncNode(n))
BY NodeTyped

\* A node is read back.
LEMMA NodeGets ==
  ASSUME file \in Seq(Nat), NEW c, NEW n \in Nodes, Ahead(c, EncNode(n))
  PROVE  Got(c, ReadNode(c), EncNode(n), n)
<1> DEFINE op == Name(c)
           name == Str(op, TRUE)
           in == List(name, MinString, Name)
           out == List(in, MinString, Name)
           attrs == List(out, MinAttr, ReadAttr)
           full == [op |-> op.v, name |-> name.v, in |-> in.v, out |-> out.v, attrs |-> attrs.v]
           w == EncName(n.name)
           x == EncList(n.in, EncName)
           y == EncList(n.out, EncName)
           z == EncList(n.attrs, EncAttr)
           a == EncName(n.op)
           b == a \o w
           d == b \o x
           e == d \o y
<1>1. ReadNode(c) = IF attrs.ok /\ out.v # <<>> THEN Becomes(attrs, full) ELSE Fail(attrs)
  BY DEF ReadNode, Becomes
<1>2. /\ n = [op |-> n.op, name |-> n.name, in |-> n.in, out |-> n.out, attrs |-> n.attrs]
      /\ n.op \in StringsNotEmpty /\ n.name \in Strings /\ n.in \in ListsOf(StringsNotEmpty)
      /\ n.out \in ListsOf(StringsNotEmpty) /\ n.out # <<>> /\ n.attrs \in ListsOf(Attrs)
      /\ a \in Seq(Nat) /\ b \in Seq(Nat) /\ d \in Seq(Nat) /\ e \in Seq(Nat)
      /\ w \in Seq(Nat) /\ x \in Seq(Nat) /\ y \in Seq(Nat) /\ z \in Seq(Nat)
      /\ EncNode(n) = e \o z
  BY NodeTyped, Zenon
<1> HIDE DEF e, z
<1>3. Ahead(c, e)
  BY <1>2, AheadSplit
<1>4. Ahead(c, d \o y)
  BY <1>3 DEF e
<1> HIDE DEF d, y
<1>5. Ahead(c, d)
  BY <1>2, <1>4, AheadSplit
<1>6. Ahead(c, b \o x)
  BY <1>5 DEF d
<1> HIDE DEF b, x
<1>7. Ahead(c, b)
  BY <1>2, <1>6, AheadSplit
<1>8. Ahead(c, a \o w)
  BY <1>7 DEF b
<1> HIDE DEF a, w
<1>9. Ahead(c, a)
  BY <1>2, <1>8, AheadSplit
<1>10. Got(c, op, a, n.op) /\ op.v = n.op
  <2>1. Got(c, op, a, n.op)
    BY <1>2, <1>9, NameGets DEF a
  <2> HIDE DEF op
  <2> QED BY <1>9, <2>1, GotSound
<1> HIDE DEF op
<1>11. Ahead(op, w) /\ \A f, v : Got(op, f, w, v) => Got(c, f, a \o w, v)
  BY <1>2, <1>8, <1>10, AheadSplit
<1>12. Got(op, name, w, n.name) /\ name.v = n.name
  <2>1. Got(op, name, w, n.name)
    BY <1>2, <1>11, StrGets DEF w
  <2> HIDE DEF name
  <2> QED BY <1>11, <2>1, GotSound
<1> HIDE DEF name
<1>13. Got(c, name, b, n.name)
  BY <1>11, <1>12 DEF b
<1>14. Ahead(name, x) /\ \A f, v : Got(name, f, x, v) => Got(c, f, b \o x, v)
  BY <1>2, <1>6, <1>13, AheadSplit
<1>15. Got(name, in, x, n.in) /\ in.v = n.in
  <2>1. Got(name, in, x, n.in)
    BY <1>2, <1>14, NameListGets DEF x
  <2> HIDE DEF in
  <2> QED BY <1>14, <2>1, GotSound
<1> HIDE DEF in
<1>16. Got(c, in, d, n.in)
  BY <1>14, <1>15 DEF d
<1>17. Ahead(in, y) /\ \A f, v : Got(in, f, y, v) => Got(c, f, d \o y, v)
  BY <1>2, <1>4, <1>16, AheadSplit
<1>18. Got(in, out, y, n.out) /\ out.v = n.out
  <2>1. Got(in, out, y, n.out)
    BY <1>2, <1>17, NameListGets DEF y
  <2> HIDE DEF out
  <2> QED BY <1>17, <2>1, GotSound
<1> HIDE DEF out
<1>19. Got(c, out, e, n.out)
  BY <1>17, <1>18 DEF e
<1>20. Ahead(out, z) /\ \A f, v : Got(out, f, z, v) => Got(c, f, EncNode(n), v)
  <2>1. Ahead(c, e \o z) /\ EncNode(n) = e \o z /\ e \in Seq(Nat) /\ z \in Seq(Nat)
    BY <1>2
  <2>2. Ahead(out, z) /\ \A f, v : Got(out, f, z, v) => Got(c, f, e \o z, v)
    BY <1>19, <2>1, AheadSplit
  <2> QED BY <2>1, <2>2
<1>21. Got(out, attrs, z, n.attrs) /\ attrs.ok /\ attrs.v = n.attrs
  <2>1. Got(out, attrs, z, n.attrs)
    BY <1>2, <1>20, AttrListGets DEF z
  <2> HIDE DEF attrs
  <2> QED BY <1>20, <2>1, GotSound
<1>22. full = n
  BY <1>2, <1>10, <1>12, <1>15, <1>18, <1>21
<1> HIDE DEF attrs, full
<1>23. ReadNode(c) = Becomes(attrs, n)
  BY <1>1, <1>2, <1>18, <1>21, <1>22
<1>24. Got(c, attrs, EncNode(n), n.attrs)
  BY <1>20, <1>21
<1> QED BY <1>23, <1>24, BecomesGets

\* What a list of nodes is written as.
LEMMA NodeListTyped ==
  ASSUME NEW l \in ListsOf(Nodes),
         NEW x, x = Flat([i \in 1 .. Len(l) |-> EncNode(l[i])])
  PROVE  /\ x \in Seq(Nat) /\ Len(l) * MinNode <= Len(x) /\ MinNode \in Nat
         /\ EncList(l, EncNode) = <<Len(l)>> \o x
         /\ EncList(l, EncNode) \in Seq(Nat) /\ Len(EncList(l, EncNode)) = 1 + Len(x)
         /\ Len(l) \in Nat /\ Len(l) <= MaxCount /\ l = [i \in 1 .. Len(l) |-> l[i]]
         /\ \A i \in 1 .. Len(l) : l[i] \in Nodes /\ EncNode(l[i]) \in Seq(Nat)
<1> DEFINE n == Len(l)
           xs == [i \in 1 .. n |-> EncNode(l[i])]
<1>1. /\ n \in Nat /\ n <= MaxCount /\ l = [i \in 1 .. n |-> l[i]] /\ DOMAIN l = 1 .. n
      /\ \A i \in 1 .. n : l[i] \in Nodes
  BY DEF ListsOf
<1>2. EncList(l, EncNode) = <<n>> \o x
  BY <1>1 DEF EncList
<1>3. \A i \in 1 .. n : xs[i] = EncNode(l[i]) /\ xs[i] \in Seq(Nat) /\ MinNode <= Len(xs[i])
  <2>1. \A i \in 1 .. n : xs[i] = EncNode(l[i])
    OBVIOUS
  <2> HIDE DEF xs, n
  <2>2. ASSUME NEW i \in 1 .. n PROVE xs[i] \in Seq(Nat) /\ MinNode <= Len(xs[i])
    <3>1. xs[i] \in Seq(Nat) /\ 7 <= Len(xs[i])
      BY <1>1, <2>1, NodeCells
    <3> QED BY <3>1 DEF MinNode
  <2> QED BY <2>1, <2>2
<1>4. x \in Seq(Nat) /\ n * MinNode <= Len(x) /\ MinNode \in Nat
  <2>1. MinNode \in Nat
    BY DEF MinNode
  <2>2. x = Flat([i \in 1 .. n |-> xs[i]])
    OBVIOUS
  <2> HIDE DEF xs, n
  <2>3. \A i \in 1 .. n : xs[i] \in Seq(Nat) /\ MinNode <= Len(xs[i])
    BY ONLY <1>3
  <2>4. n \in Nat
    BY <1>1
  <2> QED BY ONLY <2>1, <2>2, <2>3, <2>4, FlatTyped
<1>5. <<n>> \in Seq(Nat) /\ Len(<<n>>) = 1
  BY <1>1
<1> HIDE DEF n
<1>6. <<n>> \o x \in Seq(Nat) /\ Len(<<n>> \o x) = 1 + Len(x)
  BY <1>4, <1>5, Joined
<1> QED BY <1>1, <1>2, <1>3, <1>4, <1>6 DEF n, xs

\* A list of nodes.
LEMMA NodeListGets ==
  ASSUME file \in Seq(Nat), NEW c, NEW l \in ListsOf(Nodes), Ahead(c, EncList(l, EncNode))
  PROVE  Got(c, List(c, MinNode, ReadNode), EncList(l, EncNode), l)
<1> DEFINE n == Len(l)
           xs == [i \in 1 .. n |-> EncNode(l[i])]
           f == Field(c)
           T(i) == Times(f, i, ReadNode)
           r == [i \in 0 .. n |-> T(i)]
           es == [i \in 1 .. n |-> ReadNode(T(i - 1))]
           x == Flat([i \in 1 .. n |-> xs[i]])
<1>1. /\ n \in Nat /\ n <= MaxCount /\ l = [i \in 1 .. n |-> l[i]]
      /\ \A i \in 1 .. n : l[i] \in Nodes
      /\ EncList(l, EncNode) = <<n>> \o x
      /\ x \in Seq(Nat) /\ n * MinNode <= Len(x) /\ MinNode \in Nat
  BY NodeListTyped
<1>2. \A i \in 1 .. n : xs[i] = EncNode(l[i]) /\ xs[i] \in Seq(Nat)
  BY NodeListTyped
<1> HIDE DEF x
<1>3. /\ f.ok /\ f.v = n /\ f.v * MinNode <= f.end - f.at
      /\ Ahead(f, x)
      /\ \A e, w : Got(f, e, x, w) => Got(c, e, <<n>> \o x, w)
  <2>1. Ahead(c, <<n>> \o x)
    BY <1>1
  <2> HIDE DEF n
  <2> QED BY <1>1, <2>1, CountGets
<1>4. List(c, MinNode, ReadNode) = r[n]
  BY <1>1, <1>3 DEF List
<1>5. Gains(n, f, r, es, xs, l)
  <2>1. T(0) = [f EXCEPT !.v = <<>>] /\ \A i \in Nat : T(i + 1) = Collect(T(i), ReadNode(T(i)))
    BY NodeTimes
  <2> HIDE DEF T, f
  <2>2. /\ r[0] = [f EXCEPT !.v = <<>>]
        /\ \A i \in 1 .. n : r[i] = Collect(r[i - 1], es[i]) /\ es[i] = ReadNode(r[i - 1])
    <3>1. /\ 0 \in 0 .. n
          /\ \A i \in 1 .. n : i \in 0 .. n /\ i - 1 \in 0 .. n /\ i - 1 \in Nat /\ (i - 1) + 1 = i
      BY <1>1
    <3> HIDE DEF n
    <3>2. \A i \in 1 .. n : T(i) = Collect(T(i - 1), ReadNode(T(i - 1)))
      BY ONLY <2>1, <3>1
    <3>3. r[0] = T(0) /\ \A i \in 1 .. n : r[i] = T(i) /\ r[i - 1] = T(i - 1)
      BY ONLY <3>1
    <3>4. \A i \in 1 .. n : es[i] = ReadNode(T(i - 1))
      OBVIOUS
    <3> HIDE DEF r, es
    <3> QED BY ONLY <2>1, <3>2, <3>3, <3>4
  <2>3. ASSUME NEW i \in 1 .. n, Ahead(r[i - 1], xs[i])
        PROVE  Got(r[i - 1], es[i], xs[i], l[i])
    <3>1. xs[i] = EncNode(l[i]) /\ l[i] \in Nodes /\ es[i] = ReadNode(r[i - 1])
      BY <1>1, <1>2, <2>2
    <3> HIDE DEF r, es, xs, n
    <3> QED BY <2>3, <3>1, NodeGets
  <2> HIDE DEF r, es, xs, n
  <2> QED BY <2>2, <2>3 DEF Gains
<1> HIDE DEF r, es, xs, f, n, T
<1>6. Got(f, r[n], x, [i \in 1 .. n |-> l[i]])
  <2>1. \A i \in 1 .. n : xs[i] \in Seq(Nat)
    BY <1>2
  <2>2. Ahead(f, Flat([i \in 1 .. n |-> xs[i]]))
    BY <1>3 DEF x
  <2>3. n \in Nat
    BY <1>1
  <2> QED BY <1>5, <2>1, <2>2, <2>3, LoopGets DEF x
<1> QED BY <1>1, <1>3, <1>4, <1>6

\* What the meta section is written as.
LEMMA MetaTyped ==
  ASSUME NEW m \in [ir : Nat, opset : Nat, producer : Strings, sha256 : Nat],
         NEW a, a = <<m.ir>> \o <<m.opset>>,
         NEW b, b = a \o EncName(m.producer)
  PROVE  /\ m = [ir |-> m.ir, opset |-> m.opset, producer |-> m.producer, sha256 |-> m.sha256]
         /\ m.ir \in Nat /\ m.opset \in Nat /\ m.producer \in Strings /\ m.sha256 \in Nat
         /\ <<m.ir>> \in Seq(Nat) /\ <<m.opset>> \in Seq(Nat) /\ <<m.sha256>> \in Seq(Nat)
         /\ EncName(m.producer) \in Seq(Nat) /\ a \in Seq(Nat) /\ b \in Seq(Nat)
         /\ EncMeta(m) = b \o <<m.sha256>> /\ EncMeta(m) \in Seq(Nat)
<1>1. /\ m = [ir |-> m.ir, opset |-> m.opset, producer |-> m.producer, sha256 |-> m.sha256]
      /\ m.ir \in Nat /\ m.opset \in Nat /\ m.producer \in Strings /\ m.sha256 \in Nat
  OBVIOUS
<1>2. <<m.ir>> \in Seq(Nat) /\ <<m.opset>> \in Seq(Nat) /\ <<m.sha256>> \in Seq(Nat)
  BY <1>1
<1>3. EncName(m.producer) \in Seq(Nat)
  BY <1>1, StringTyped
<1>4. a = <<m.ir, m.opset>>
  BY PairOfCells
<1>5. EncMeta(m) = b \o <<m.sha256>>
  BY <1>4 DEF EncMeta
<1> DEFINE x == <<m.ir>>
           y == <<m.opset>>
           z == <<m.sha256>>
           n == EncName(m.producer)
<1>6. x \in Seq(Nat) /\ y \in Seq(Nat) /\ z \in Seq(Nat) /\ n \in Seq(Nat)
  BY <1>2, <1>3
<1>7. a = x \o y /\ b = a \o n /\ EncMeta(m) = b \o z
  BY <1>5
<1> HIDE DEF x, y, z, n
<1>8. a \in Seq(Nat)
  BY <1>6, <1>7, Joined
<1>9. b \in Seq(Nat)
  BY <1>6, <1>7, <1>8, Joined
<1>10. EncMeta(m) \in Seq(Nat)
  BY <1>6, <1>7, <1>9, Joined
<1> QED BY <1>1, <1>2, <1>3, <1>5, <1>8, <1>9, <1>10

\* The meta section is read back.
LEMMA MetaGets ==
  ASSUME file \in Seq(Nat), NEW c,
         NEW m \in [ir : Nat, opset : Nat, producer : Strings, sha256 : Nat], Ahead(c, EncMeta(m))
  PROVE  Got(c, ReadMeta(c), EncMeta(m), m)
<1> DEFINE ir == Field(c)
           opset == Field(ir)
           producer == Str(opset, TRUE)
           sha256 == Field(producer)
           full == [ir |-> ir.v, opset |-> opset.v, producer |-> producer.v, sha256 |-> sha256.v]
           x == <<m.ir>>
           y == <<m.opset>>
           n == EncName(m.producer)
           z == <<m.sha256>>
           a == x \o y
           b == a \o n
<1>1. ReadMeta(c) = IF sha256.ok THEN Becomes(sha256, full) ELSE sha256
  BY DEF ReadMeta, Becomes
<1>2. /\ m = [ir |-> m.ir, opset |-> m.opset, producer |-> m.producer, sha256 |-> m.sha256]
      /\ m.ir \in Nat /\ m.opset \in Nat /\ m.producer \in Strings /\ m.sha256 \in Nat
      /\ x \in Seq(Nat) /\ y \in Seq(Nat) /\ z \in Seq(Nat)
      /\ n \in Seq(Nat) /\ a \in Seq(Nat) /\ b \in Seq(Nat)
      /\ EncMeta(m) = b \o z
  BY MetaTyped
<1> HIDE DEF b, z
<1>3. Ahead(c, b)
  BY <1>2, AheadSplit
<1>4. Ahead(c, a \o n)
  BY <1>3 DEF b
<1> HIDE DEF a, n
<1>5. Ahead(c, a)
  BY <1>2, <1>4, AheadSplit
<1>6. Ahead(c, x \o y)
  BY <1>5 DEF a
<1> HIDE DEF x, y
<1>7. Ahead(c, x)
  BY <1>2, <1>6, AheadSplit
<1>8. Got(c, ir, x, m.ir) /\ ir.v = m.ir
  <2>1. Got(c, ir, x, m.ir)
    BY <1>2, <1>7, FieldGets DEF x
  <2> HIDE DEF ir
  <2> QED BY <1>7, <2>1, GotSound
<1> HIDE DEF ir
<1>9. Ahead(ir, y) /\ \A f, v : Got(ir, f, y, v) => Got(c, f, x \o y, v)
  BY <1>2, <1>6, <1>8, AheadSplit
<1>10. Got(ir, opset, y, m.opset) /\ opset.v = m.opset
  <2>1. Got(ir, opset, y, m.opset)
    BY <1>2, <1>9, FieldGets DEF y
  <2> HIDE DEF opset
  <2> QED BY <1>9, <2>1, GotSound
<1> HIDE DEF opset
<1>11. Got(c, opset, a, m.opset)
  BY <1>9, <1>10 DEF a
<1>12. Ahead(opset, n) /\ \A f, v : Got(opset, f, n, v) => Got(c, f, a \o n, v)
  BY <1>2, <1>4, <1>11, AheadSplit
<1>13. Got(opset, producer, n, m.producer) /\ producer.v = m.producer
  <2>1. Got(opset, producer, n, m.producer)
    BY <1>2, <1>12, StrGets DEF n
  <2> HIDE DEF producer
  <2> QED BY <1>12, <2>1, GotSound
<1> HIDE DEF producer
<1>14. Got(c, producer, b, m.producer)
  BY <1>12, <1>13 DEF b
<1>15. Ahead(producer, z) /\ \A f, v : Got(producer, f, z, v) => Got(c, f, EncMeta(m), v)
  <2>1. Ahead(c, b \o z) /\ EncMeta(m) = b \o z /\ b \in Seq(Nat) /\ z \in Seq(Nat)
    BY <1>2
  <2>2. Ahead(producer, z) /\ \A f, v : Got(producer, f, z, v) => Got(c, f, b \o z, v)
    BY <1>14, <2>1, AheadSplit
  <2> QED BY <2>1, <2>2
<1>16. Got(producer, sha256, z, m.sha256) /\ sha256.ok /\ sha256.v = m.sha256
  <2>1. Got(producer, sha256, z, m.sha256)
    BY <1>2, <1>15, FieldGets DEF z
  <2> HIDE DEF sha256
  <2> QED BY <1>15, <2>1, GotSound
<1>17. full = m
  BY <1>2, <1>8, <1>10, <1>13, <1>16
<1> HIDE DEF sha256, full
<1>18. ReadMeta(c) = Becomes(sha256, m)
  BY <1>1, <1>16, <1>17
<1>19. Got(c, sha256, EncMeta(m), m.sha256)
  BY <1>15, <1>16
<1> QED BY <1>18, <1>19, BecomesGets

-----------------------------------------------------------------------------
(* What the converter writes is read: sections                              *)

\* A well-formed model has the lists that the lemmas above are about.
LEMMA ModelLists ==
  ASSUME NEW m \in Models
  PROVE  /\ IsModel(m) /\ Valid(m)
         /\ m.meta \in [ir : Nat, opset : Nat, producer : Strings, sha256 : Nat]
         /\ m.inputs \in ListsOf(FineDescs) /\ m.outputs \in ListsOf(FineDescs)
         /\ m.vinf \in ListsOf(FineDescs)
         /\ m.inits \in ListsOf(FineInits) /\ m.nodes \in ListsOf(Nodes)
<1>1. m \in Convertible /\ Valid(m) /\ \A d \in DescsOf(m) : Countable(d.dims)
  BY ModelsAssumption
<1>2. /\ IsModel(m)
      /\ m.meta \in [ir : Nat, opset : Nat, producer : Strings, sha256 : Nat]
      /\ m.inputs \in ListsOf(Descs) /\ m.outputs \in ListsOf(Descs)
      /\ m.vinf \in ListsOf(Descs)
      /\ m.inits \in ListsOf(Inits) /\ m.nodes \in ListsOf(Nodes)
  BY <1>1 DEF Convertible, IsModel
<1>3. ASSUME NEW l \in ListsOf(Descs), Members(l) \subseteq DescsOf(m)
      PROVE  l \in ListsOf(FineDescs)
  <2>1. l \in Seq(Descs) /\ Len(l) <= MaxCount
    BY DEF ListsOf
  <2>2. \A i \in 1 .. Len(l) : l[i] \in FineDescs
    BY <1>1, <1>3, <2>1 DEF Members, FineDescs
  <2>3. l \in Seq(FineDescs)
    BY <2>1, <2>2
  <2> QED BY <2>1, <2>3 DEF ListsOf
<1>4. m.inputs \in ListsOf(FineDescs) /\ m.outputs \in ListsOf(FineDescs)
      /\ m.vinf \in ListsOf(FineDescs)
  <2>1. /\ Members(m.inputs) \subseteq DescsOf(m) /\ Members(m.outputs) \subseteq DescsOf(m)
        /\ Members(m.vinf) \subseteq DescsOf(m)
    BY DEF DescsOf
  <2> QED BY <1>2, <1>3, <2>1
<1>5. m.inits \in ListsOf(FineInits)
  <2> DEFINE l == m.inits
  <2>1. l \in Seq(Inits) /\ Len(l) <= MaxCount
    BY <1>2 DEF ListsOf
  <2>2. \A i \in 1 .. Len(l) : l[i] \in FineInits
    <3>1. \A i \in DOMAIN m.inits : m.inits[i].desc \in DescsOf(m)
      BY DEF DescsOf
    <3> QED BY <1>1, <2>1, <3>1 DEF FineInits
  <2> HIDE DEF l
  <2>3. l \in Seq(FineInits)
    BY <2>1, <2>2
  <2> QED BY <2>1, <2>3 DEF ListsOf, l
<1> QED BY <1>1, <1>2, <1>4, <1>5

\* A section consists of cells.
LEMMA SectionTyped ==
  ASSUME NEW m \in Models, NEW s \in 1 .. 6
  PROVE  /\ SectionCells(m, s) \in Seq(Nat)
         /\ Framed(m, s) \in Seq(Nat) /\ Len(Framed(m, s)) = 2 + Len(SectionCells(m, s))
<1> DEFINE x == SectionCells(m, s)
           h == <<Tags[s], Len(x)>>
<1>1. x \in Seq(Nat)
  <2>1. CASE s = 1
    BY <2>1, ModelLists, MetaTyped DEF SectionCells
  <2>2. CASE s = 2
    BY <2>2, ModelLists, DescListTyped DEF SectionCells
  <2>3. CASE s = 3
    BY <2>3, ModelLists, DescListTyped DEF SectionCells
  <2>4. CASE s = 4
    BY <2>4, ModelLists, InitListTyped DEF SectionCells
  <2>5. CASE s = 5
    BY <2>5, ModelLists, NodeListTyped DEF SectionCells
  <2>6. CASE s = 6
    BY <2>6, ModelLists, DescListTyped DEF SectionCells
  <2> QED BY <2>1, <2>2, <2>3, <2>4, <2>5, <2>6
<1> HIDE DEF x
<1>2. h \in Seq(Nat) /\ Len(h) = 2
  <2>1. Tags[s] \in Nat /\ Len(x) \in Nat
    <3>1. Tags \in [1 .. 6 -> Nat]
      BY FormatAssumption
    <3> QED BY <1>1, <3>1
  <2> QED BY <2>1
<1> HIDE DEF h
<1>3. h \o x \in Seq(Nat) /\ Len(h \o x) = 2 + Len(x)
  BY <1>1, <1>2, Joined
<1> QED BY <1>1, <1>3 DEF Framed, x, h

\* So are the first sections.
LEMMA SectionsTyped ==
  ASSUME NEW m \in Models, NEW k \in 0 .. 6
  PROVE  Sections(m, k) \in Seq(Nat)
<1> DEFINE xs == [s \in 1 .. 6 |-> Framed(m, s)]
<1>1. \A s \in 1 .. k : xs[s] = Framed(m, s) /\ xs[s] \in Seq(Nat) /\ 0 <= Len(xs[s])
  <2>1. ASSUME NEW s \in 1 .. k PROVE s \in 1 .. 6 /\ Framed(m, s) \in Seq(Nat)
    <3>1. s \in 1 .. 6
      OBVIOUS
    <3> QED BY <3>1, SectionTyped
  <2> QED BY <2>1
<1> HIDE DEF xs
<1>2. Flat([s \in 1 .. k |-> xs[s]]) \in Seq(Nat)
  <2>1. k \in Nat /\ 0 \in Nat
    OBVIOUS
  <2>2. \A s \in 1 .. k : xs[s] \in Seq(Nat) /\ 0 <= Len(xs[s])
    BY <1>1
  <2> QED BY <2>1, <2>2, FlatTyped
<1>3. [s \in 1 .. k |-> xs[s]] = [s \in 1 .. k |-> Framed(m, s)]
  BY <1>1
<1> QED BY <1>2, <1>3 DEF Sections

\* The content of a section is read back.
LEMMA ContentGets ==
  ASSUME file \in Seq(Nat), NEW c, NEW m \in Models, NEW s \in 1 .. 6,
         Ahead(c, SectionCells(m, s))
  PROVE  Got(c, Content(s, c), SectionCells(m, s), m[Fields[s]])
<1>1. CASE s = 1
  <2>1. /\ Content(s, c) = ReadMeta(c) /\ SectionCells(m, s) = EncMeta(m.meta)
        /\ m[Fields[s]] = m.meta
    BY <1>1 DEF Content, Fields, SectionCells
  <2> QED BY <2>1, ModelLists, MetaGets
<1>2. CASE s = 2
  <2>1. /\ Content(s, c) = List(c, MinTensorDesc, ReadDesc) /\ m[Fields[s]] = m.inputs
        /\ SectionCells(m, s) = EncList(m.inputs, EncDesc)
    BY <1>2 DEF Content, Fields, SectionCells
  <2> QED BY <2>1, ModelLists, DescListGets
<1>3. CASE s = 3
  <2>1. /\ Content(s, c) = List(c, MinTensorDesc, ReadDesc) /\ m[Fields[s]] = m.outputs
        /\ SectionCells(m, s) = EncList(m.outputs, EncDesc)
    BY <1>3 DEF Content, Fields, SectionCells
  <2> QED BY <2>1, ModelLists, DescListGets
<1>4. CASE s = 4
  <2>1. /\ Content(s, c) = List(c, MinInit, ReadInit) /\ m[Fields[s]] = m.inits
        /\ SectionCells(m, s) = EncList(m.inits, EncInit)
    BY <1>4 DEF Content, Fields, SectionCells
  <2> QED BY <2>1, ModelLists, InitListGets
<1>5. CASE s = 5
  <2>1. /\ Content(s, c) = List(c, MinNode, ReadNode) /\ m[Fields[s]] = m.nodes
        /\ SectionCells(m, s) = EncList(m.nodes, EncNode)
    BY <1>5 DEF Content, Fields, SectionCells
  <2> QED BY <2>1, ModelLists, NodeListGets
<1>6. CASE s = 6
  <2>1. /\ Content(s, c) = List(c, MinTensorDesc, ReadDesc) /\ m[Fields[s]] = m.vinf
        /\ SectionCells(m, s) = EncList(m.vinf, EncDesc)
    BY <1>6 DEF Content, Fields, SectionCells
  <2> QED BY <2>1, ModelLists, DescListGets
<1> QED BY <1>1, <1>2, <1>3, <1>4, <1>5, <1>6

\* A list of cells that is put together from the right.
LEMMA Regrouped ==
  ASSUME NEW S, NEW x \in Seq(S), NEW y \in Seq(S), NEW z \in Seq(S)
  PROVE  x \o (y \o z) = (x \o y) \o z
<1>1. (x \o y) \o z = x \o (y \o z)
  BY ConcatAssociative
<1> QED BY ONLY <1>1

\* A file that the converter seals has a header that is accepted, and its
\* payload behind it.
LEMMA SealedIsHeaded ==
  ASSUME file \in Seq(Nat), NEW x \in Seq(Nat), file = Sealed(x)
  PROVE  /\ Len(file) = HeaderSize + Len(x) /\ CellsAt(HeaderSize, x)
         /\ SubSeq(file, 1, 5) = <<Magic>> \o Version \o <<0, Len(file)>>
         /\ file[6] = Crc(Payload(file))
<1> DEFINE L == HeaderSize + Len(x)
           k == Crc(x)
           S == Nat \cup {Magic, k}
           a == <<Magic>> \o Version
           b == <<0, L>>
           z == <<k>>
           h == a \o b
<1>1. Len(x) \in Nat /\ L \in Nat /\ L = 6 + Len(x)
  BY DEF HeaderSize
<1>2. x \in Seq(S)
  OBVIOUS
<1>3. a \in Seq(S) /\ Len(a) = 3
  <2> DEFINE v == <<Magic>>
             w == Version
  <2>1. v \in Seq(S) /\ w \in Seq(S) /\ Len(v) = 1 /\ Len(w) = 2
    BY DEF Version
  <2> HIDE DEF S, v, w
  <2>2. v \o w \in Seq(S) /\ Len(v \o w) = Len(v) + Len(w)
    BY <2>1, ConcatProperties
  <2> QED BY <2>1, <2>2 DEF v, w
<1>4. b \in Seq(S) /\ Len(b) = 2 /\ z \in Seq(S) /\ Len(z) = 1 /\ z[1] = k
  BY <1>1
<1>5. <<0, L, k>> = b \o z
  BY TripleOfCells
<1>6. file = (a \o <<0, L, k>>) \o x
  BY DEF Sealed
<1> HIDE DEF S, a, b, z, L, k
<1>7. file = (a \o (b \o z)) \o x
  BY <1>5, <1>6
<1>8. /\ Len(file) = 6 + Len(x) /\ file[6] = z[1]
      /\ h \in Seq(S) /\ Len(h) = 5 /\ \A i \in 1 .. 5 : file[i] = h[i]
      /\ \A i \in 1 .. Len(x) : file[6 + i] = x[i]
  <2> DEFINE g == h \o z
  <2>1. file = g \o x
    <3>1. a \in Seq(S) /\ b \in Seq(S) /\ z \in Seq(S)
      BY <1>3, <1>4
    <3> DEFINE l == a \o (b \o z)
    <3>2. l = g
      BY ONLY <3>1, Regrouped
    <3>3. file = l \o x
      BY <1>7
    <3> HIDE DEF l, g
    <3> QED BY <3>2, <3>3
  <2>2. h \in Seq(S) /\ Len(h) = 5
    <3>1. a \in Seq(S) /\ b \in Seq(S)
      BY <1>3, <1>4
    <3>2. h \in Seq(S) /\ Len(h) = Len(a) + Len(b)
      BY ONLY <3>1, ConcatProperties
    <3> HIDE DEF h
    <3> QED BY <1>3, <1>4, <3>2
  <2> HIDE DEF h
  <2>3. g \in Seq(S) /\ Len(g) = 6 /\ g[6] = z[1] /\ \A i \in 1 .. 5 : g[i] = h[i]
    <3>1. h \in Seq(S) /\ z \in Seq(S)
      BY <1>4, <2>2
    <3>2. /\ h \o z \in Seq(S) /\ Len(h \o z) = Len(h) + Len(z)
          /\ \A i \in 1 .. Len(h) + Len(z) :
               (h \o z)[i] = IF i <= Len(h) THEN h[i] ELSE z[i - Len(h)]
      BY ONLY <3>1, ConcatProperties
    <3> DEFINE hz == h \o z
    <3> HIDE DEF hz
    <3>3. hz \in Seq(S) /\ Len(hz) = 6
      BY ONLY <1>4, <2>2, <3>2 DEF hz
    <3>4. /\ 6 \in 1 .. Len(h) + Len(z) /\ ~(6 <= Len(h)) /\ 6 - Len(h) = 1
          /\ \A i \in 1 .. 5 : i \in 1 .. Len(h) + Len(z) /\ i <= Len(h)
      BY ONLY <1>4, <2>2
    <3>5. hz[6] = z[1] /\ \A i \in 1 .. 5 : hz[i] = h[i]
      BY ONLY <3>2, <3>4 DEF hz
    <3> QED BY ONLY <3>3, <3>5 DEF hz
  <2> HIDE DEF g
  <2>4. /\ Len(g \o x) = Len(g) + Len(x)
        /\ \A i \in 1 .. Len(g) + Len(x) :
             (g \o x)[i] = IF i <= Len(g) THEN g[i] ELSE x[i - Len(g)]
    BY ONLY <1>2, <2>3, ConcatProperties
  <2>5. /\ Len(file) = 6 + Len(x)
        /\ \A i \in 1 .. 6 + Len(x) : file[i] = IF i <= 6 THEN g[i] ELSE x[i - 6]
    BY <2>1, <2>3, <2>4
  <2>6. file[6] = z[1] /\ \A i \in 1 .. 5 : file[i] = h[i]
    <3>1. \A i \in 1 .. 6 : i \in 1 .. 6 + Len(x) /\ i <= 6
      BY <1>1
    <3>2. \A i \in 1 .. 6 : file[i] = g[i]
      BY <2>5, <3>1
    <3>3. 6 \in 1 .. 6 /\ \A i \in 1 .. 5 : i \in 1 .. 6
      OBVIOUS
    <3> QED BY <2>3, <3>2, <3>3
  <2>7. ASSUME NEW i \in 1 .. Len(x) PROVE file[6 + i] = x[i]
    <3>1. 6 + i \in 1 .. 6 + Len(x) /\ ~(6 + i <= 6) /\ 6 + i - 6 = i
      BY <1>1
    <3> QED BY <2>5, <3>1
  <2> QED BY <2>2, <2>5, <2>6, <2>7
<1> HIDE DEF h
<1>9. 6 <= Len(file) /\ L = Len(file) /\ \A i \in 1 .. Len(file) : file[i] \in Nat
  <2>1. 6 <= Len(file) /\ L = Len(file)
    BY <1>1, <1>8
  <2>2. \A i \in 1 .. Len(file) : file[i] \in Nat
    OBVIOUS
  <2> QED BY ONLY <2>1, <2>2
<1>10. CellsAt(HeaderSize, x)
  BY <1>1, <1>8 DEF CellsAt, HeaderSize
<1>11. SubSeq(file, 1, 5) = h
  <2> DEFINE t == SubSeq(file, 1, 5)
  <2>1. 1 \in Int /\ 5 \in Int /\ \A i \in 1 .. 5 : file[i] \in Nat
    BY <1>9
  <2>2. /\ SubSeq(file, 1, 5) \in Seq(Nat)
        /\ Len(SubSeq(file, 1, 5)) = IF 1 <= 5 THEN 5 - 1 + 1 ELSE 0
        /\ \A i \in 1 .. 5 - 1 + 1 : SubSeq(file, 1, 5)[i] = file[1 + i - 1]
    BY <2>1, SubSeqProperties
  <2> HIDE DEF t
  <2>3. t \in Seq(Nat) /\ Len(t) = 5 /\ \A i \in 1 .. 5 : t[i] = file[i]
    BY <2>2 DEF t
  <2>4. t = h
    <3>1. Len(t) = Len(h) /\ \A i \in 1 .. Len(t) : t[i] = h[i]
      BY <1>8, <2>3
    <3>2. t = [i \in 1 .. 5 |-> t[i]] /\ h = [i \in 1 .. 5 |-> h[i]]
      BY <1>8, <2>3
    <3>3. \A i \in 1 .. 5 : t[i] = h[i]
      BY <2>3, <3>1
    <3> QED BY <3>2, <3>3
  <2> QED BY <2>4 DEF t
<1>12. Payload(file) = x
  <2> DEFINE t == SubSeq(file, 7, L)
  <2>1. 7 \in Int /\ L \in Int /\ \A i \in 7 .. L : file[i] \in Nat
    BY <1>1, <1>9
  <2>2. /\ SubSeq(file, 7, L) \in Seq(Nat)
        /\ Len(SubSeq(file, 7, L)) = IF 7 <= L THEN L - 7 + 1 ELSE 0
        /\ \A i \in 1 .. L - 7 + 1 : SubSeq(file, 7, L)[i] = file[7 + i - 1]
    BY <2>1, SubSeqProperties
  <2> HIDE DEF t
  <2>3. t \in Seq(Nat) /\ Len(t) = Len(x) /\ \A i \in 1 .. Len(x) : t[i] = file[6 + i]
    <3>1. Len(t) = Len(x)
      BY <1>1, <2>2 DEF t
    <3>2. \A i \in 1 .. Len(x) : i \in 1 .. L - 7 + 1 /\ 7 + i - 1 = 6 + i
      BY <1>1
    <3> QED BY <2>2, <3>1, <3>2 DEF t
  <2>4. t = x
    <3>1. t \in Seq(Nat) /\ x \in Seq(Nat) /\ Len(t) = Len(x)
      BY <2>3
    <3>2. \A i \in 1 .. Len(x) : t[i] = x[i]
      BY <1>8, <2>3
    <3> QED BY ONLY <3>1, <3>2, SeqEqual
  <2>5. Payload(file) = SubSeq(file, 7, L)
    <3>1. L = Len(file)
      BY <1>1, <1>8
    <3> QED BY <3>1 DEF Payload, HeaderSize
  <2> QED BY <2>4, <2>5 DEF t
<1>13. Len(file) = L /\ file[6] = k
  BY <1>1, <1>4, <1>8
<1> QED BY <1>10, <1>11, <1>12, <1>13 DEF h, a, b, k, L

\* Of the cells that follow each other in the file, both parts are there.
LEMMA CellsSplit ==
  ASSUME NEW from \in Nat, NEW x \in Seq(Nat), NEW y \in Seq(Nat), file \in Seq(Nat),
         CellsAt(from, x \o y)
  PROVE  CellsAt(from, x) /\ CellsAt(from + Len(x), y)
<1>1. /\ Len(x \o y) = Len(x) + Len(y) /\ Len(x) \in Nat /\ Len(y) \in Nat
      /\ \A i \in 1 .. Len(x) + Len(y) :
           (x \o y)[i] = IF i <= Len(x) THEN x[i] ELSE y[i - Len(x)]
  BY ConcatProperties
<1> DEFINE z == x \o y
<1>2. /\ from + Len(z) <= Len(file) /\ \A i \in 1 .. Len(z) : file[from + i] = z[i]
      /\ Len(z) = Len(x) + Len(y)
  BY <1>1 DEF CellsAt
<1>3. ASSUME NEW i \in 1 .. Len(x) PROVE file[from + i] = x[i]
  <2>1. i \in 1 .. Len(x) + Len(y) /\ i <= Len(x)
    BY <1>1
  <2> QED BY <1>1, <1>2, <2>1
<1>4. ASSUME NEW i \in 1 .. Len(y) PROVE file[from + Len(x) + i] = y[i]
  <2>1. /\ Len(x) + i \in 1 .. Len(x) + Len(y) /\ ~(Len(x) + i <= Len(x))
        /\ (Len(x) + i) - Len(x) = i /\ from + (Len(x) + i) = from + Len(x) + i
    BY <1>1
  <2> QED BY <1>1, <1>2, <2>1
<1> HIDE DEF z
<1>5. from + Len(x) <= Len(file) /\ from + Len(x) + Len(y) <= Len(file)
  BY <1>1, <1>2
<1> QED BY <1>3, <1>4, <1>5 DEF CellsAt

\* The first sections of a file that has all of them.
LEMMA SectionsAt ==
  ASSUME file \in Seq(Nat), NEW m \in Models, CellsAt(HeaderSize, Sections(m, 6)),
         NEW k \in 0 .. 5
  PROVE  /\ CellsAt(HeaderSize + Len(Sections(m, k)), Framed(m, k + 1))
         /\ Len(Sections(m, k + 1)) = Len(Sections(m, k)) + Len(Framed(m, k + 1))
<1>1. ASSUME NEW j \in 0 .. 5
      PROVE  /\ Sections(m, j + 1) = Sections(m, j) \o Framed(m, j + 1)
             /\ Sections(m, j) \in Seq(Nat) /\ Framed(m, j + 1) \in Seq(Nat)
             /\ CellsAt(HeaderSize, Sections(m, j + 1)) =>
                  /\ CellsAt(HeaderSize, Sections(m, j))
                  /\ CellsAt(HeaderSize + Len(Sections(m, j)), Framed(m, j + 1))
  <2>1. /\ Sections(m, j + 1) = Sections(m, j) \o Framed(m, j + 1)
        /\ Sections(m, j) \in Seq(Nat) /\ Framed(m, j + 1) \in Seq(Nat)
    <3>1. j \in 0 .. 6 /\ j + 1 \in 1 .. 6
      OBVIOUS
    <3> QED BY <3>1, SectionsAppend, SectionsTyped, SectionTyped
  <2>2. HeaderSize \in Nat
    BY DEF HeaderSize
  <2> DEFINE x == Sections(m, j)
             y == Framed(m, j + 1)
  <2> HIDE DEF x, y
  <2>3. CellsAt(HeaderSize, x \o y) => CellsAt(HeaderSize, x) /\ CellsAt(HeaderSize + Len(x), y)
    BY <2>1, <2>2, CellsSplit DEF x, y
  <2> QED BY <2>1, <2>3 DEF x, y
<1> DEFINE P(j) == CellsAt(HeaderSize, Sections(m, j))
<1>2. \A j \in 0 .. 5 : P(j + 1) => P(j)
  BY <1>1
<1>3. P(5 + 1)
  OBVIOUS
<1> HIDE DEF P
<1>4. P(5)
  BY <1>2, <1>3
<1>5. P(4)
  BY <1>2, <1>4
<1>6. P(3)
  BY <1>2, <1>5
<1>7. P(2)
  BY <1>2, <1>6
<1>8. P(1)
  BY <1>2, <1>7
<1>9. P(k + 1)
  BY <1>3, <1>4, <1>5, <1>6, <1>7, <1>8
<1>10. CellsAt(HeaderSize + Len(Sections(m, k)), Framed(m, k + 1))
  BY <1>1, <1>9 DEF P
<1> DEFINE x == Sections(m, k)
           y == Framed(m, k + 1)
<1>11. x \in Seq(Nat) /\ y \in Seq(Nat) /\ Sections(m, k + 1) = x \o y
  BY <1>1
<1> HIDE DEF x, y
<1>12. Len(x \o y) = Len(x) + Len(y)
  BY <1>11, Joined
<1> QED BY <1>10, <1>11, <1>12 DEF x, y

-----------------------------------------------------------------------------
(* What the converter writes is read: parse()                               *)

\* The fields of the first k sections are those of m.
FieldsRead(m, k) == \A s \in 1 .. k : model[Fields[s]] = m[Fields[s]]

\* A file written for a well-formed model is read section by section, each of
\* them to its end, and is never rejected.
ReadBack ==
  \A m \in Models :
    file = Encode(m) /\ Len(file) <= MaxFileSize =>
      /\ status # "rejected"
      /\ status = "reading" =>
           pos = HeaderSize + Len(Sections(m, section)) /\ FieldsRead(m, section)
      /\ Parsed => model = m

\* Such a file has the header that is accepted, and all the sections.
LEMMA WrittenFile ==
  ASSUME file \in Seq(Nat), NEW m \in Models, file = Encode(m)
  PROVE  /\ Len(file) = HeaderSize + Len(Sections(m, 6))
         /\ CellsAt(HeaderSize, Sections(m, 6))
         /\ SubSeq(file, 1, 5) = <<Magic>> \o Version \o <<0, Len(file)>>
         /\ file[6] = Crc(Payload(file))
<1>1. Sections(m, 6) \in Seq(Nat)
  BY SectionsTyped
<1>2. file = Sealed(Sections(m, 6))
  BY EncodeSections
<1> QED BY <1>1, <1>2, SealedIsHeaded

\* With all sections read the model is m.
LEMMA AllFieldsRead ==
  ASSUME IsModel(model), NEW m \in Models, FieldsRead(m, 6)
  PROVE  model = m
<1>1. /\ model.meta = m.meta /\ model.inputs = m.inputs /\ model.outputs = m.outputs
      /\ model.inits = m.inits /\ model.nodes = m.nodes /\ model.vinf = m.vinf
  <2>1. /\ Fields[1] = "meta" /\ Fields[2] = "inputs" /\ Fields[3] = "outputs"
        /\ Fields[4] = "inits" /\ Fields[5] = "nodes" /\ Fields[6] = "vinf"
    BY DEF Fields
  <2>2. \A s \in 1 .. 6 : model[Fields[s]] = m[Fields[s]]
    BY DEF FieldsRead
  <2>3. \A s \in {1, 2, 3, 4, 5, 6} : model[Fields[s]] = m[Fields[s]]
    BY <2>2
  <2> QED BY <2>1, <2>3
<1>2. IsModel(m)
  BY ModelLists
<1> QED BY <1>1, <1>2 DEF IsModel

\* readHeader() accepts the header of such a file.
LEMMA WrittenHeader ==
  ASSUME ReaderInv, ReadHeader, NEW m \in Models, file = Encode(m), Len(file) <= MaxFileSize
  PROVE  status' = "reading" /\ pos' = HeaderSize + Len(Sections(m, section'))
         /\ FieldsRead(m, section)'
<1>1. file \in Seq(Nat) /\ section' = 0
  BY DEF ReaderInv, ReadHeader
<1>2. /\ Len(file) \in HeaderSize .. MaxFileSize
      /\ SubSeq(file, 1, 5) = <<Magic>> \o Version \o <<0, Len(file)>>
      /\ file[6] = Crc(Payload(file))
  <2>1. /\ Len(file) = HeaderSize + Len(Sections(m, 6)) /\ Sections(m, 6) \in Seq(Nat)
        /\ SubSeq(file, 1, 5) = <<Magic>> \o Version \o <<0, Len(file)>>
        /\ file[6] = Crc(Payload(file))
    <3>1. 6 \in 0 .. 6
      OBVIOUS
    <3> QED BY <1>1, <3>1, WrittenFile, SectionsTyped
  <2>2. Len(file) \in Nat /\ MaxFileSize \in Nat /\ HeaderSize \in Nat
    BY <1>1, FormatAssumption DEF HeaderSize
  <2>3. HeaderSize <= Len(file)
    <3> DEFINE x == Sections(m, 6)
    <3>1. Len(x) \in Nat /\ Len(file) = HeaderSize + Len(x)
      BY <2>1
    <3> HIDE DEF x
    <3> QED BY <2>2, <3>1
  <2>4. Len(file) \in HeaderSize .. MaxFileSize
    BY <2>2, <2>3
  <2> QED BY <2>1, <2>4
<1>3. status' = "reading" /\ pos' = HeaderSize
  BY <1>2 DEF ReadHeader
<1>4. Sections(m, 0) = <<>>
  <2>1. [s \in 1 .. 0 |-> Framed(m, s)] = <<>>
    OBVIOUS
  <2> QED BY <2>1, FlatEmpty DEF Sections
<1>5. HeaderSize + Len(<<>>) = HeaderSize
  BY DEF HeaderSize
<1>6. FieldsRead(m, section)'
  BY <1>1 DEF FieldsRead
<1> QED BY <1>1, <1>3, <1>4, <1>5, <1>6

\* Of such a file readSection() accepts every section, and stores it.
LEMMA WrittenSection ==
  ASSUME ReaderInv, ReadSection, NEW m \in Models, file = Encode(m),
         pos = HeaderSize + Len(Sections(m, section)), FieldsRead(m, section)
  PROVE  status' = "reading" /\ pos' = HeaderSize + Len(Sections(m, section'))
         /\ FieldsRead(m, section)'
<1> DEFINE s == section + 1
           n == file[pos + 2]
           c == Cursor(pos + 2, pos + 2 + n)
           d == Content(s, c)
           x == SectionCells(m, s)
           h == <<Tags[s], Len(x)>>
<1>1. /\ file' = file /\ status = "reading" /\ s \in 1 .. 6 /\ section \in 0 .. 5
      /\ file \in Seq(Nat) /\ pos \in Nat /\ IsModel(model)
  BY DEF ReaderInv, ReadSection
<1>2. x \in Seq(Nat) /\ Len(x) \in Nat /\ Framed(m, s) = h \o x /\ Len(Framed(m, s)) = 2 + Len(x)
  <2>1. x \in Seq(Nat) /\ Len(Framed(m, s)) = 2 + Len(x)
    BY ONLY <1>1, SectionTyped
  <2>2. Framed(m, s) = h \o x
    BY DEF Framed
  <2> HIDE DEF x, h
  <2> QED BY ONLY <2>1, <2>2
<1>3. CellsAt(pos, h \o x) /\ Len(Sections(m, s)) = Len(Sections(m, section)) + 2 + Len(x)
  <2>1. CellsAt(HeaderSize, Sections(m, 6))
    BY <1>1, WrittenFile
  <2>2. /\ CellsAt(HeaderSize + Len(Sections(m, section)), Framed(m, section + 1))
        /\ Len(Sections(m, section + 1)) = Len(Sections(m, section)) + Len(Framed(m, section + 1))
    BY <1>1, <2>1, SectionsAt
  <2>3. Len(Sections(m, section)) \in Nat
    <3>1. section \in 0 .. 6
      BY <1>1
    <3> QED BY <3>1, SectionsTyped
  <2> DEFINE a == Len(Sections(m, section))
             b == Len(Framed(m, s))
  <2>4. a + b = a + 2 + Len(x)
    <3>1. a \in Nat /\ b = 2 + Len(x) /\ Len(x) \in Nat
      BY <1>2, <2>3
    <3> HIDE DEF a, b, x
    <3> QED BY <3>1
  <2> HIDE DEF x
  <2> QED BY <1>2, <2>2, <2>4
<1>4. /\ file[pos + 1] = Tags[s] /\ n = Len(x) /\ CellsAt(pos + 2, x) /\ pos + 2 + Len(x) <= Len(file)
  <2>1. h \in Seq(Nat) /\ Len(h) = 2 /\ h[1] = Tags[s] /\ h[2] = Len(x)
    <3>1. Tags \in [1 .. 6 -> Nat]
      BY FormatAssumption
    <3>2. Tags[s] \in Nat
      BY <1>1, <3>1
    <3> HIDE DEF x, s
    <3> QED BY <1>2, <3>2
  <2> HIDE DEF h, x
  <2>2. CellsAt(pos, h) /\ CellsAt(pos + Len(h), x)
    BY <1>1, <1>2, <1>3, <2>1, CellsSplit
  <2>3. file[pos + 1] = h[1] /\ file[pos + 2] = h[2]
    BY <2>1, <2>2 DEF CellsAt
  <2>4. CellsAt(pos + 2, x)
    BY <2>1, <2>2
  <2> QED BY <2>1, <2>3, <2>4 DEF CellsAt
<1>5. SectionFits(s)
  <2>1. Len(file) \in Nat
    BY <1>1
  <2> HIDE DEF x, n
  <2>2. Len(file) - pos >= 2 /\ n <= Len(file) - pos - 2
    <3>1. pos \in Nat /\ Len(x) \in Nat /\ n = Len(x) /\ pos + 2 + Len(x) <= Len(file)
      BY <1>1, <1>2, <1>4
    <3> QED BY ONLY <2>1, <3>1
  <2> QED BY <1>4, <2>2 DEF SectionFits, n
<1> HIDE DEF x, h
<1>6. Ahead(c, x) /\ c.at = pos + 2 /\ c.end = pos + 2 + Len(x)
  <2>1. Sound(c)
    BY <1>1, <1>5, SectionCursor
  <2>2. c.at = pos + 2 /\ c.end = pos + 2 + n /\ c.ok
    BY DEF Cursor
  <2> HIDE DEF c, n
  <2>3. c.at + Len(x) <= c.end
    BY <1>1, <1>2, <1>4, <2>2
  <2> QED BY <1>4, <2>1, <2>2, <2>3 DEF Ahead
<1>7. Got(c, d, x, m[Fields[s]])
  BY <1>1, <1>6, ContentGets DEF x
<1>8. d.ok /\ d.at = pos + 2 + Len(x) /\ d.end = d.at /\ d.v = m[Fields[s]]
  <2> HIDE DEF c, d
  <2>1. d.ok /\ d.v = m[Fields[s]] /\ d.at = c.at + Len(x) /\ d.end = c.end
    BY <1>6, <1>7, GotSound
  <2> QED BY <1>6, <2>1
<1>9. /\ status' = status /\ section' = s /\ pos' = d.at
      /\ model' = Stored(model, s, m[Fields[s]])
  <2> HIDE DEF d
  <2>1. IF SectionFits(s)
        THEN /\ pos' = d.at
             /\ IF d.ok /\ d.at = d.end
                THEN model' = Stored(model, s, d.v) /\ section' = s /\ status' = status
                ELSE status' = "rejected" /\ section' = section /\ model' = model
        ELSE status' = "rejected"
    BY DEF ReadSection, Stored, d
  <2> QED BY <1>5, <1>8, <2>1
<1>10. pos' = HeaderSize + Len(Sections(m, s))
  <2> DEFINE a == Len(Sections(m, section))
  <2>1. a \in Nat /\ pos = HeaderSize + a /\ pos' = pos + 2 + Len(x) /\ Len(Sections(m, s)) = a + 2 + Len(x)
    <3>1. section \in 0 .. 6
      BY <1>1
    <3> QED BY <1>3, <1>8, <1>9, <3>1, SectionsTyped
  <2>2. HeaderSize \in Nat
    BY DEF HeaderSize
  <2> HIDE DEF a, s
  <2> QED BY <1>2, <2>1, <2>2
<1>11. ASSUME NEW t \in 1 .. s PROVE model'[Fields[t]] = m[Fields[t]]
  <2>1. t \in 1 .. 6 /\ (t = s \/ t \in 1 .. section)
    BY <1>1
  <2>2. t # s => model[Fields[t]] = m[Fields[t]]
    BY <2>1 DEF FieldsRead
  <2>3. model'[Fields[t]] = IF t = s THEN m[Fields[s]] ELSE model[Fields[t]]
    <3> DEFINE v == m[Fields[s]]
    <3> HIDE DEF v, s
    <3>1. model' = Stored(model, s, v) /\ s \in 1 .. 6
      BY <1>1, <1>9 DEF v
    <3>2. /\ Fields[1] = "meta" /\ Fields[2] = "inputs" /\ Fields[3] = "outputs"
          /\ Fields[4] = "inits" /\ Fields[5] = "nodes" /\ Fields[6] = "vinf"
      BY DEF Fields
    <3>3. Stored(model, s, v)[Fields[t]] = IF t = s THEN v ELSE model[Fields[t]]
      <4>1. CASE s = 1
        BY <1>1, <2>1, <3>2, <4>1, StoredFields
      <4>2. CASE s = 2
        BY <1>1, <2>1, <3>2, <4>2, StoredFields
      <4>3. CASE s = 3
        BY <1>1, <2>1, <3>2, <4>3, StoredFields
      <4>4. CASE s = 4
        BY <1>1, <2>1, <3>2, <4>4, StoredFields
      <4>5. CASE s = 5
        BY <1>1, <2>1, <3>2, <4>5, StoredFields
      <4>6. CASE s = 6
        BY <1>1, <2>1, <3>2, <4>6, StoredFields
      <4> QED BY <3>1, <4>1, <4>2, <4>3, <4>4, <4>5, <4>6
    <3> QED BY <3>1, <3>3 DEF v
  <2> QED BY <2>2, <2>3
<1>12. FieldsRead(m, section)'
  BY <1>9, <1>11 DEF FieldsRead
<1> QED BY <1>1, <1>9, <1>10, <1>12

\* With all its sections read, such a file is accepted by validateGraph().
LEMMA WrittenGraph ==
  ASSUME ReaderInv, ValidateGraph, NEW m \in Models, file = Encode(m),
         pos = HeaderSize + Len(Sections(m, section)), FieldsRead(m, section)
  PROVE  status' = "parsed" /\ model' = m
<1>1. section = 6 /\ model' = model /\ IsModel(model) /\ file \in Seq(Nat)
  BY DEF ReaderInv, ValidateGraph
<1>2. model = m
  BY <1>1, AllFieldsRead
<1>3. pos = Len(file)
  BY <1>1, WrittenFile
<1>4. Valid(m)
  BY ModelLists
<1> QED BY <1>1, <1>2, <1>3, <1>4 DEF ValidateGraph

\* No step rejects such a file.
LEMMA ReadBackStep ==
  ASSUME ReaderInv, ReadBack, [Next]_vars
  PROVE  ReadBack'
<1> SUFFICES ASSUME NEW m \in Models, file' = Encode(m), Len(file') <= MaxFileSize
             PROVE  /\ status' # "rejected"
                    /\ status' = "reading" =>
                         /\ pos' = HeaderSize + Len(Sections(m, section'))
                         /\ FieldsRead(m, section)'
                    /\ Parsed' => model' = m
  BY DEF ReadBack
<1>1. file' = file
  BY DEF Next, ReaderNext, ReadHeader, ReadSection, ValidateGraph, FromFgx, CheckOpset, ImportInput,
         ImportInit, ImportNode, ImportOutput, Entry, Done, Validate, Run, vars, readerVars
<1>2. /\ status # "rejected"
      /\ status = "reading" =>
           pos = HeaderSize + Len(Sections(m, section)) /\ FieldsRead(m, section)
      /\ Parsed => model = m
  BY <1>1 DEF ReadBack
<1>3. CASE ReadHeader
  BY <1>1, <1>3, WrittenHeader DEF Parsed
<1>4. CASE ReadSection
  <2>1. status = "reading"
    BY <1>4 DEF ReadSection
  <2> QED BY <1>1, <1>2, <1>4, <2>1, WrittenSection DEF Parsed
<1>5. CASE ValidateGraph
  <2>1. status = "reading"
    BY <1>5 DEF ValidateGraph
  <2> QED BY <1>1, <1>2, <1>5, <2>1, WrittenGraph
<1>6. CASE FromFgx \/ Run \/ UNCHANGED vars
  <2>1. /\ model' = model /\ pos' = pos /\ section' = section
        /\ \/ status' = status
           \/ Parsed /\ Parsed'
    <3>1. CASE UNCHANGED vars
      BY <3>1 DEF vars, readerVars
    <3>2. CASE Run
      BY <3>2 DEF Run, Parsed
    <3>3. CASE FromFgx
      BY <3>3 DEF FromFgx, CheckOpset, ImportInput, ImportInit, ImportNode, ImportOutput, Entry,
                  Done, Validate, Parsed
    <3> QED BY <1>6, <3>1, <3>2, <3>3
  <2> QED BY <1>2, <2>1 DEF Parsed, FieldsRead
<1> QED BY <1>3, <1>4, <1>5, <1>6 DEF Next, ReaderNext

-----------------------------------------------------------------------------
(* The size of an initializer *)

\* Sizes are multiplied modulo 2^64, capped at it, or as they are.
ElementsStep(dims, i, x) == (x * dims[i]) % Wide
CappedStep(dims, i, x) == IF x < Wide THEN x * dims[i] ELSE Wide
ProductStep(dims, i, x) == x * dims[i]

Modular == INSTANCE Repetition WITH Step <- ElementsStep
Capped == INSTANCE Repetition WITH Step <- CappedStep
Exact == INSTANCE Repetition WITH Step <- ProductStep

\* A number below 2^64 is itself in a size_t.
LEMMA NoWrap ==
  ASSUME NEW x \in Nat, x < Wide
  PROVE  x % Wide = x
BY WideAssumption

\* If no prefix of the dimensions overflows, the number of elements is exact.
LEMMA ElementsExact ==
  ASSUME NEW dims \in Seq(Nat), Countable(dims)
  PROVE  Elements(dims) = Exact!Repeated(dims, 1, Len(dims))
<1> DEFINE E(k) == Modular!Repeated(dims, 1, k)
           C(k) == Capped!Repeated(dims, 1, k)
           X(k) == Exact!Repeated(dims, 1, k)
           n == Len(dims)
           P(k) == C(k) < Wide => /\ E(k) = X(k) /\ C(k) = X(k)
                                  /\ X(k) \in Nat /\ X(k) < Wide
           K == {k \in Nat : k <= n => P(k)}
<1>1. Elements(dims) = E(n)
  BY DEF Elements, Modular!Repeated, ElementsStep
<1>2. C(n) < Wide
  BY DEF Countable, Capped!Repeated, CappedStep
<1>3. E(0) = 1 /\ \A k \in Nat : E(k + 1) = (E(k) * dims[k + 1]) % Wide
  BY Modular!RepeatedUnfolds DEF ElementsStep
<1>4. C(0) = 1 /\ \A k \in Nat : C(k + 1) = IF C(k) < Wide THEN C(k) * dims[k + 1] ELSE Wide
  BY Capped!RepeatedUnfolds DEF CappedStep
<1>5. X(0) = 1 /\ \A k \in Nat : X(k + 1) = X(k) * dims[k + 1]
  BY Exact!RepeatedUnfolds DEF ProductStep
<1> HIDE DEF E, C, X
<1>6. 0 \in K
  <2>1. P(0)
    <3>1. E(0) = 1 /\ C(0) = 1 /\ X(0) = 1
      BY <1>3, <1>4, <1>5
    <3>2. 1 \in Nat /\ (1 < Wide => 1 < Wide)
      OBVIOUS
    <3> QED BY <3>1, <3>2
  <2> HIDE DEF P
  <2> QED BY <2>1
<1>7. ASSUME NEW k \in Nat, k \in K PROVE k + 1 \in K
  <2> SUFFICES ASSUME k + 1 <= n, C(k + 1) < Wide
               PROVE  /\ E(k + 1) = X(k + 1) /\ C(k + 1) = X(k + 1)
                      /\ X(k + 1) \in Nat /\ X(k + 1) < Wide
    OBVIOUS
  <2>1. C(k) < Wide
    BY <1>4, WideAssumption
  <2>2. E(k) = X(k) /\ C(k) = X(k) /\ X(k) \in Nat
    BY <1>7, <2>1
  <2>3. dims[k + 1] \in Nat
    OBVIOUS
  <2>4. X(k) * dims[k + 1] \in Nat
    BY <2>2, <2>3
  <2>5. C(k + 1) = X(k) * dims[k + 1] /\ X(k + 1) = X(k) * dims[k + 1]
    BY <1>4, <1>5, <2>1, <2>2
  <2>6. E(k + 1) = (X(k) * dims[k + 1]) % Wide
    BY <1>3, <2>2
  <2> DEFINE y == X(k) * dims[k + 1]
  <2> HIDE DEF y
  <2> QED BY <2>4, <2>5, <2>6, NoWrap DEF y
<1>8. P(n)
  <2> HIDE DEF K, P
  <2>1. n \in K
    <3>1. n \in Nat
      BY <1>1
    <3>2. \A k \in Nat : k \in K => k + 1 \in K
      BY ONLY <1>7
    <3> HIDE DEF n
    <3> QED BY ONLY <1>6, <3>1, <3>2, Exact!SetInduction
  <2> QED BY <2>1 DEF K
<1> QED BY <1>1, <1>2, <1>8 DEF X

-----------------------------------------------------------------------------
(* The theorems *)

\* Whatever a file contains, parse() reads no section beyond its end, and none
\* beyond that of the file.
THEOREM ReaderInBounds == Spec => []InBounds
<1>1. ReaderInv => InBounds
  BY DEF ReaderInv, InBounds
<1> QED BY <1>1, ReaderInvHolds, PTL

\* Every file that parse() accepts, of whatever size and contents, is the one
\* that the converter writes for the model that parse() returns.
THEOREM ReaderParsedIsWritten == Spec => []ParsedIsWritten
<1>1. ReaderInv => ParsedIsWritten
  BY DEF ReaderInv, ParsedIsWritten
<1> QED BY <1>1, ReaderInvHolds, PTL

\* A file that the converter writes for a well-formed model, if it is not too
\* large, is never rejected, and parse() returns that very model: no bound of the
\* reader, and no check on a count or a length, is too strict for it.
THEOREM ReaderReadsBack == Spec => []ReadBack
<1>1. Init => ReadBack
  BY DEF Init, ReaderInit, ReadBack, Parsed
<1>2. ReaderInv /\ ReadBack /\ [Next]_vars => ReadBack'
  BY ReadBackStep
<1> QED BY <1>1, <1>2, ReaderInvHolds, PTL DEF Spec

\* An initializer of a file that parse() accepts has as many elements as the
\* product of its dimensions, although the product is computed in a size_t.
THEOREM ReaderInitsComplete == Spec => []InitsComplete
<1>1. ReaderInv => InitsComplete
  <2> SUFFICES ASSUME ReaderInv, NEW i \in DOMAIN model.inits
               PROVE  LET dims == model.inits[i].desc.dims
                          p[k \in 0 .. Len(dims)] == IF k = 0 THEN 1 ELSE p[k - 1] * dims[k] IN
                      Len(model.inits[i].data) = p[Len(dims)]
    BY DEF InitsComplete
  <2> DEFINE dims == model.inits[i].desc.dims
  <2>1. dims \in Seq(Nat) /\ Countable(dims) /\ Len(model.inits[i].data) = Elements(dims)
    BY DEF ReaderInv, WellRead, InitFull, DimsFine
  <2>2. Elements(dims) = Exact!Repeated(dims, 1, Len(dims))
    <3> HIDE DEF dims
    <3> QED BY <2>1, ElementsExact
  <2>3. Len(model.inits[i].data) = Exact!Repeated(dims, 1, Len(dims))
    BY <2>1, <2>2
  <2> QED BY Zenon, <2>3 DEF Exact!Repeated, ProductStep
<1> QED BY <1>1, ReaderInvHolds, PTL
=============================================================================
