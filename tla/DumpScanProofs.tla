--------------------------- MODULE DumpScanProofs ---------------------------
(***************************************************************************)
(* For any byte stream, any chunk size and any way the reads and the       *)
(* chunks are cut: the rows the workers decode are the rows of the text,   *)
(* events are bracketed, and a cut stream never passes.                    *)
(***************************************************************************)
EXTENDS DumpScan, SequenceTheorems, TLAPS

(* The two bytes the scanner itself looks for.                             *)
LEMMA ByteFacts == "n" \in Bytes /\ "cr" \in Bytes
  BY InputsAssumption

(* What an append does to a concatenation.                                 *)
LEMMA ConcatAppend ==
    ASSUME NEW T, NEW s \in Seq(T), NEW t \in Seq(T), NEW e \in T
    PROVE  s \o Append(t, e) = Append(s \o t, e)
<1>1. Append(t, e) = t \o <<e>> /\ <<e>> \in Seq(T) /\ s \o t \in Seq(T)
  BY AppendIsConcat, ConcatProperties
<1>2. Append(s \o t, e) = (s \o t) \o <<e>>
  BY <1>1, AppendIsConcat
<1> QED
  BY <1>1, <1>2, ConcatAssociative

(* SubSeq in terms of what precedes it.                                    *)
LEMMA Slice ==
    ASSUME NEW T, NEW s \in Seq(T), NEW m \in Nat, NEW n \in m..Len(s)
    PROVE  /\ SubSeq(s, m + 1, n) \in Seq(T) /\ Len(SubSeq(s, m + 1, n)) = n - m
           /\ \A i \in 1..(n - m) : SubSeq(s, m + 1, n)[i] = s[m + i]
<1>1. n \in Nat /\ m + 1 \in Int /\ n \in Int /\ \A i \in (m + 1)..n : s[i] \in T
  OBVIOUS
<1>2. n - (m + 1) + 1 = n - m /\ (m + 1 <= n \/ n - m = 0) /\ \A i \in 1..(n - m) : m + 1 + i - 1 = m + i
  BY <1>1
<1> QED
  BY <1>1, <1>2, SubSeqProperties

-----------------------------------------------------------------------------
(***************************************************************************)
(* Lines                                                                   *)
(***************************************************************************)
Cuts == [lines : Seq(Seq(Bytes)), rest : Seq(Bytes)]

(* A record of these fields is a cut.                                      *)
LEMMA CutIn ==
    ASSUME NEW l \in Seq(Seq(Bytes)), NEW m \in Seq(Bytes)
    PROVE  [lines |-> l, rest |-> m] \in Cuts
<1>1. \A L, R : \A x \in L, y \in R : [lines |-> x, rest |-> y] \in [lines : L, rest : R]
  OBVIOUS
<1> QED
  BY <1>1 DEF Cuts

(* No bytes hold no lines.                                                 *)
LEMMA CutEmpty ==
    /\ Cut(<<>>) = [lines |-> <<>>, rest |-> <<>>]
    /\ Lines(<<>>) = <<>> /\ AfterLines(<<>>) = <<>>
  BY Cutting!ResultEmpty DEF Cut, Lines, AfterLines

(* Cutting a stream gives lines of bytes and a rest.                       *)
LEMMA CutType ==
    ASSUME NEW b \in Seq(Bytes)
    PROVE  Cut(b) \in Cuts /\ Lines(b) \in Seq(Seq(Bytes)) /\ AfterLines(b) \in Seq(Bytes)
<1> DEFINE S == {t \in Seq(Bytes) : Cut(t) \in Cuts}
<1>1. <<>> \in S
  <2>1. <<>> \in Seq(Bytes) /\ <<>> \in Seq(Seq(Bytes))
    BY EmptySeq
  <2>2. [lines |-> <<>>, rest |-> <<>>] \in Cuts
    BY <2>1 DEF Cuts
  <2> QED
    BY <2>1, <2>2, CutEmpty
<1>2. ASSUME NEW t \in S, NEW c \in Bytes PROVE Append(t, c) \in S
  <2>1. Cut(Append(t, c)) = CutByte(Cut(t), c)
    BY Cutting!ResultAppend DEF Cut
  <2>2. Cut(t) \in Cuts
    OBVIOUS
  <2>3. CutByte(Cut(t), c) \in Cuts
    <3> DEFINE k == Cut(t)
    <3> HIDE DEF k
    <3>1. k \in Cuts
      BY <2>2 DEF k
    <3>2. k.lines \in Seq(Seq(Bytes)) /\ k.rest \in Seq(Bytes) /\ k = [lines |-> k.lines, rest |-> k.rest]
      BY <3>1 DEF Cuts
    <3>3. Append(k.lines, k.rest) \in Seq(Seq(Bytes)) /\ Append(k.rest, c) \in Seq(Bytes)
      BY <3>2, AppendProperties
    <3>5. <<>> \in Seq(Bytes)
      BY EmptySeq
    <3>6. CutByte(k, c) = [lines |-> Append(k.lines, k.rest), rest |-> <<>>]
            \/ CutByte(k, c) = [lines |-> k.lines, rest |-> Append(k.rest, c)]
      BY DEF CutByte
    <3>7. CutByte(k, c) \in Cuts
      BY <3>2, <3>3, <3>5, <3>6, CutIn
    <3> QED
      BY <3>7 DEF k
  <2> QED
    BY <2>1, <2>3
<1>3. S = Seq(Bytes)
  <2>1. S \subseteq Seq(Bytes)
    OBVIOUS
  <2> HIDE DEF S
  <2> QED
    BY <1>1, <1>2, <2>1, Cutting!SequenceInduction
<1>4. Cut(b) \in Cuts
  BY <1>3
<1> QED
  BY <1>4 DEF Cuts, Lines, AfterLines

(* One more byte ends the line or lengthens it.                            *)
LEMMA CutAppend ==
    ASSUME NEW b \in Seq(Bytes), NEW c \in Bytes
    PROVE  /\ c = "n" => Lines(Append(b, c)) = Append(Lines(b), AfterLines(b)) /\ AfterLines(Append(b, c)) = <<>>
           /\ c # "n" => Lines(Append(b, c)) = Lines(b) /\ AfterLines(Append(b, c)) = Append(AfterLines(b), c)
<1>1. Cut(Append(b, c)) = CutByte(Cut(b), c)
  BY Cutting!ResultAppend DEF Cut
<1> DEFINE k == Cut(b)
<1>2. k \in Cuts
  BY CutType
<1>3. Lines(b) = k.lines /\ AfterLines(b) = k.rest
  BY DEF Lines, AfterLines
<1>4. Lines(Append(b, c)) = CutByte(k, c).lines /\ AfterLines(Append(b, c)) = CutByte(k, c).rest
  BY <1>1 DEF Lines, AfterLines
<1> HIDE DEF k
<1> QED
  BY <1>2, <1>3, <1>4 DEF CutByte, Cuts

(* What follows the last newline has none, and the rest ends with one.     *)
Suffix(b) ==
    /\ LastNewline(b) \in 0..Len(b)
    /\ AfterLines(b) = SubSeq(b, LastNewline(b) + 1, Len(b))
    /\ \A i \in 1..Len(b) : i > LastNewline(b) => b[i] # "n"
    /\ LastNewline(b) > 0 => b[LastNewline(b)] = "n"
    /\ AfterLines(SubSeq(b, 1, LastNewline(b))) = <<>>

LEMMA LineEnds ==
    ASSUME NEW b \in Seq(Bytes)
    PROVE  Suffix(b)
<1> DEFINE S == {t \in Seq(Bytes) : Suffix(t)}
<1>1. <<>> \in S
  <2>1. AfterLines(<<>>) = <<>> /\ Len(<<>>) = 0 /\ SubSeq(<<>>, 1, 0) = <<>>
    BY CutEmpty
  <2>2. LastNewline(<<>>) = 0
    BY <2>1 DEF LastNewline
  <2>3. <<>> \in Seq(Bytes) /\ SubSeq(<<>>, 0 + 1, 0) = <<>>
    BY <2>1, EmptySeq
  <2>4. Suffix(<<>>)
    <3> DEFINE e == <<>>
    <3>1. LastNewline(e) = 0 /\ Len(e) = 0 /\ AfterLines(e) = e /\ SubSeq(e, 0 + 1, 0) = e /\ SubSeq(e, 1, 0) = e
      BY <2>1, <2>2, <2>3
    <3>2. AfterLines(e) = <<>>
      BY <2>1
    <3> HIDE DEF e
    <3>3. Suffix(e)
      <4>1. LastNewline(e) \in 0..Len(e) /\ LastNewline(e) + 1 = 1 /\ ~(LastNewline(e) > 0)
        BY <3>1
      <4>2. 1..Len(e) = {}
        BY <3>1
      <4>3. AfterLines(e) = SubSeq(e, LastNewline(e) + 1, Len(e))
        BY <3>1, <4>1
      <4>4. AfterLines(SubSeq(e, 1, LastNewline(e))) = <<>>
        BY <3>1, <3>2
      <4> QED
        BY <4>1, <4>2, <4>3, <4>4 DEF Suffix
    <3> QED
      BY <3>3 DEF e
  <2> QED
    BY <2>3, <2>4
<1>2. ASSUME NEW t \in S, NEW c \in Bytes PROVE Append(t, c) \in S
  <2> DEFINE u == Append(t, c)
  <2>1. t \in Seq(Bytes) /\ Suffix(t) /\ u \in Seq(Bytes) /\ Len(t) \in Nat /\ Len(u) = Len(t) + 1
    OBVIOUS
  <2>2. (\A i \in 1..Len(t) : u[i] = t[i]) /\ u[Len(t) + 1] = c
    BY <2>1
  <2>3. AfterLines(t) \in Seq(Bytes)
    BY <2>1, CutType
  <2>4. CASE c = "n"
    <3>1. AfterLines(u) = <<>>
      BY <2>1, <2>4, CutAppend
    <3>2. LastNewline(u) = Len(u)
      BY <2>1, <3>1 DEF LastNewline
    <3>3. SubSeq(u, 1, Len(u)) = u /\ SubSeq(u, Len(u) + 1, Len(u)) = <<>>
      BY <2>1, SubSeqFull
    <3> HIDE DEF u
    <3>5. Len(u) \in Nat /\ Len(u) > 0 /\ u[Len(u)] = "n"
      BY <2>1, <2>2, <2>4
    <3>4. Suffix(u)
      <4>1. LastNewline(u) \in 0..Len(u) /\ AfterLines(u) = SubSeq(u, LastNewline(u) + 1, Len(u))
        BY <3>1, <3>2, <3>3, <3>5
      <4>2. (\A i \in 1..Len(u) : i > LastNewline(u) => u[i] # "n") /\ u[LastNewline(u)] = "n"
        BY <3>2, <3>5
      <4> QED
        BY <3>1, <3>2, <3>3, <4>1, <4>2 DEF Suffix
    <3> QED
      BY <2>1, <3>4 DEF u
  <2>5. CASE c # "n"
    <3>1. AfterLines(u) = Append(AfterLines(t), c)
      BY <2>1, <2>5, CutAppend
    <3>2. LastNewline(u) = LastNewline(t)
      BY <2>1, <2>3, <3>1 DEF LastNewline
    <3> DEFINE m == LastNewline(t)
    <3>3. m \in 0..Len(t)
      BY <2>1 DEF Suffix
    <3>4. Append(SubSeq(t, m + 1, Len(t)), c) = SubSeq(u, m + 1, Len(u))
      <4> DEFINE v == SubSeq(t, m + 1, Len(t))
                 w == SubSeq(u, m + 1, Len(u))
      <4> HIDE DEF m, u
      <4>1. v \in Seq(Bytes) /\ Len(v) = Len(t) - m /\ \A i \in 1..(Len(t) - m) : v[i] = t[m + i]
        BY <2>1, <3>3
      <4>2. w \in Seq(Bytes) /\ Len(w) = Len(u) - m /\ \A i \in 1..(Len(u) - m) : w[i] = u[m + i]
        BY <2>1, <3>3
      <4> HIDE DEF v, w
      <4> DEFINE x == Append(v, c)
      <4>3. x \in Seq(Bytes) /\ Len(x) = Len(v) + 1 /\ x[Len(v) + 1] = c /\ \A i \in 1..Len(v) : x[i] = v[i]
        BY <4>1
      <4> HIDE DEF x
      <4>4. ASSUME NEW i \in 1..Len(x) PROVE x[i] = w[i]
        <5>1. CASE i <= Len(v)
          BY <2>1, <2>2, <3>3, <4>1, <4>2, <4>3, <5>1
        <5>2. CASE i = Len(v) + 1
          <6>1. i \in 1..(Len(u) - m) /\ m + i = Len(t) + 1
            BY <2>1, <3>3, <4>1, <5>2
          <6> QED
            BY <2>2, <4>2, <4>3, <5>2, <6>1
        <5> QED
          BY <4>1, <4>3, <5>1, <5>2
      <4>5. Len(x) = Len(w)
        BY <2>1, <3>3, <4>1, <4>2, <4>3
      <4>6. x = w
        BY <4>2, <4>3, <4>4, <4>5, SeqEqual
      <4> QED
        BY <4>6 DEF x, v, w
    <3>5. SubSeq(u, 1, m) = SubSeq(t, 1, m)
      <4> DEFINE v == SubSeq(u, 1, m)
                 w == SubSeq(t, 1, m)
      <4> HIDE DEF m, u
      <4>1. v \in Seq(Bytes) /\ Len(v) = m /\ \A i \in 1..m : v[i] = u[i]
        BY <2>1, <3>3
      <4>2. w \in Seq(Bytes) /\ Len(w) = m /\ \A i \in 1..m : w[i] = t[i]
        BY <2>1, <3>3
      <4> HIDE DEF v, w
      <4>3. \A i \in 1..m : v[i] = w[i]
        BY <2>1, <2>2, <3>3, <4>1, <4>2
      <4>4. v = w
        BY <4>1, <4>2, <4>3, SeqEqual
      <4> QED
        BY <4>4 DEF v, w
    <3> HIDE DEF u
    <3>7. /\ AfterLines(t) = SubSeq(t, m + 1, Len(t))
          /\ \A i \in 1..Len(t) : i > m => t[i] # "n"
          /\ m > 0 => t[m] = "n"
          /\ AfterLines(SubSeq(t, 1, m)) = <<>>
      BY <2>1 DEF Suffix
    <3>6. Suffix(u)
      <4> HIDE DEF m
      <4>0. LastNewline(u) = m
        BY <3>2 DEF m
      <4>1. m \in 0..Len(u)
        BY <2>1, <3>3
      <4>2. AfterLines(u) = SubSeq(u, m + 1, Len(u))
        BY <3>1, <3>4, <3>7
      <4>3. \A i \in 1..Len(u) : i > m => u[i] # "n"
        BY <2>1, <2>2, <2>5, <3>7
      <4>4. m > 0 => u[m] = "n"
        BY <2>1, <2>2, <3>3, <3>7
      <4>5. AfterLines(SubSeq(u, 1, m)) = <<>>
        BY <3>5, <3>7
      <4> QED
        BY <4>0, <4>1, <4>2, <4>3, <4>4, <4>5 DEF Suffix
    <3> QED
      BY <2>1, <3>6 DEF u
  <2> QED
    BY <2>4, <2>5
<1>3. S = Seq(Bytes)
  <2>1. S \subseteq Seq(Bytes)
    OBVIOUS
  <2> HIDE DEF S
  <2> QED
    BY <1>1, <1>2, <2>1, Cutting!SequenceInduction
<1> QED
  BY <1>3

(* A line has no newline in it.                                            *)
LineTexts == {l \in Seq(Bytes) : \A i \in 1..Len(l) : l[i] # "n"}

(* What follows the last newline is a line without its end.                *)
LEMMA AfterLinesIsLine ==
    ASSUME NEW t \in Seq(Bytes)
    PROVE  AfterLines(t) \in LineTexts
<1>1. AfterLines(t) \in Seq(Bytes) /\ Suffix(t) /\ Len(t) \in Nat
  BY CutType, LineEnds
<1> DEFINE v == SubSeq(t, LastNewline(t) + 1, Len(t))
<1>2. AfterLines(t) = v /\ LastNewline(t) \in 0..Len(t)
  BY <1>1 DEF Suffix
<1> DEFINE m == LastNewline(t)
<1>3. \A i \in 1..Len(v) : v[i] = t[m + i] /\ m + i \in 1..Len(t) /\ m + i > m
  <2>1. m \in 0..Len(t)
    BY <1>2
  <2> HIDE DEF m
  <2>2. Len(SubSeq(t, m + 1, Len(t))) = Len(t) - m
          /\ \A i \in 1..(Len(t) - m) : SubSeq(t, m + 1, Len(t))[i] = t[m + i]
    BY <1>1, <2>1
  <2>3. \A i \in 1..(Len(t) - m) : m + i \in 1..Len(t) /\ m + i > m
    BY <1>1, <2>1
  <2>4. v = SubSeq(t, m + 1, Len(t))
    BY DEF m
  <2> HIDE DEF v
  <2> QED
    BY <2>2, <2>3, <2>4
<1>5. \A i \in 1..Len(t) : i > m => t[i] # "n"
  BY <1>1 DEF Suffix
<1>4. \A i \in 1..Len(v) : v[i] # "n"
  <2> HIDE DEF v, m
  <2> QED
    BY <1>3, <1>5
<1> QED
  BY <1>1, <1>2, <1>4 DEF LineTexts

(* No line cut from a stream holds a newline.                              *)
LEMMA LinesAreLines ==
    ASSUME NEW b \in Seq(Bytes)
    PROVE  Lines(b) \in Seq(LineTexts)
<1> DEFINE S == {t \in Seq(Bytes) : Lines(t) \in Seq(LineTexts)}
<1>1. <<>> \in S
  <2>1. <<>> \in Seq(Bytes) /\ <<>> \in Seq(LineTexts)
    BY EmptySeq
  <2> QED
    BY <2>1, CutEmpty
<1>2. ASSUME NEW t \in S, NEW c \in Bytes PROVE Append(t, c) \in S
  <2>1. t \in Seq(Bytes) /\ Append(t, c) \in Seq(Bytes)
    OBVIOUS
  <2>2. AfterLines(t) \in LineTexts
    BY <2>1, AfterLinesIsLine
  <2>3. Lines(Append(t, c)) = Lines(t) \/ Lines(Append(t, c)) = Append(Lines(t), AfterLines(t))
    BY <2>1, CutAppend
  <2>4. Lines(t) \in Seq(LineTexts)
    OBVIOUS
  <2>5. Lines(Append(t, c)) \in Seq(LineTexts)
    <3>1. Append(Lines(t), AfterLines(t)) \in Seq(LineTexts)
      <4> DEFINE x == Lines(t)
                 y == AfterLines(t)
      <4>1. x \in Seq(LineTexts) /\ y \in LineTexts
        BY <2>2, <2>4
      <4> HIDE DEF x, y
      <4>2. Append(x, y) \in Seq(LineTexts)
        BY <4>1, AppendProperties
      <4> QED
        BY <4>2 DEF x, y
    <3> QED
      BY <2>3, <2>4, <3>1
  <2> QED
    BY <2>1, <2>5
<1>3. S = Seq(Bytes)
  <2>1. S \subseteq Seq(Bytes)
    OBVIOUS
  <2> HIDE DEF S
  <2> QED
    BY <1>1, <1>2, <2>1, Cutting!SequenceInduction
<1> QED
  BY <1>3

(* Bytes without a newline only lengthen the unfinished line.              *)
LEMMA CutConcatLine ==
    ASSUME NEW a \in Seq(Bytes), NEW l \in LineTexts
    PROVE  Lines(a \o l) = Lines(a) /\ AfterLines(a \o l) = AfterLines(a) \o l
<1> DEFINE Plain == {c \in Bytes : c # "n"}
           Is(t) == Lines(a \o t) = Lines(a) /\ AfterLines(a \o t) = AfterLines(a) \o t
           S == {t \in Seq(Plain) : Is(t)}
<1>0. Seq(Plain) \subseteq Seq(Bytes)
  BY SeqMonotonic
<1>1. AfterLines(a) \in Seq(Bytes)
  BY CutType
<1>2. <<>> \in S
  <2>1. a \o <<>> = a /\ AfterLines(a) \o <<>> = AfterLines(a)
    BY <1>1, ConcatEmptySeq
  <2>2. <<>> \in Seq(Plain)
    BY EmptySeq
  <2> QED
    BY <2>1, <2>2
<1>3. ASSUME NEW t \in S, NEW c \in Plain PROVE Append(t, c) \in S
  <2>1. t \in Seq(Bytes) /\ c \in Bytes /\ c # "n" /\ a \o t \in Seq(Bytes) /\ Append(t, c) \in Seq(Plain)
    BY <1>0
  <2>2. a \o Append(t, c) = Append(a \o t, c)
    BY <2>1, ConcatAppend
  <2>3. AfterLines(a) \o Append(t, c) = Append(AfterLines(a) \o t, c)
    BY <1>1, <2>1, ConcatAppend
  <2>4. Is(t)
    OBVIOUS
  <2>5. Is(Append(t, c))
    <3>1. Lines(Append(a \o t, c)) = Lines(a \o t) /\ AfterLines(Append(a \o t, c)) = Append(AfterLines(a \o t), c)
      BY <2>1, CutAppend
    <3> QED
      BY <2>2, <2>3, <2>4, <3>1
  <2> QED
    BY <2>1, <2>5
<1>4. S = Seq(Plain)
  <2>1. S \subseteq Seq(Plain)
    OBVIOUS
  <2> HIDE DEF S, Plain
  <2> QED
    BY <1>2, <1>3, <2>1, Cutting!SequenceInduction
<1>5. l \in Seq(Plain)
  <2>1. l \in Seq(Bytes) /\ \A i \in 1..Len(l) : l[i] # "n"
    BY DEF LineTexts
  <2>2. Len(l) \in Nat /\ l = [i \in 1..Len(l) |-> l[i]] /\ \A i \in 1..Len(l) : l[i] \in Plain
    BY <2>1
  <2>3. l \in [1..Len(l) -> Plain]
    BY <2>2
  <2> QED
    BY <2>2, <2>3, SeqDef
<1> QED
  BY <1>4, <1>5

(* ConcatAppend for lines.                                                 *)
LEMMA ConcatAppendLine ==
    \A x, y \in Seq(Seq(Bytes)) : \A z \in Seq(Bytes) : x \o Append(y, z) = Append(x \o y, z)
  BY ConcatAppend

(* After whole lines, what follows is cut by itself.                       *)
LEMMA CutConcat ==
    ASSUME NEW a \in Seq(Bytes), NEW b \in Seq(Bytes), AfterLines(a) = <<>>
    PROVE  Lines(a \o b) = Lines(a) \o Lines(b) /\ AfterLines(a \o b) = AfterLines(b)
<1> DEFINE Is(t) == Lines(a \o t) = Lines(a) \o Lines(t) /\ AfterLines(a \o t) = AfterLines(t)
           S == {t \in Seq(Bytes) : Is(t)}
<1>1. Lines(a) \in Seq(Seq(Bytes))
  BY CutType
<1>2. <<>> \in S
  <2>1. a \o <<>> = a /\ Lines(a) \o <<>> = Lines(a)
    BY <1>1, ConcatEmptySeq
  <2>2. <<>> \in Seq(Bytes)
    BY EmptySeq
  <2> QED
    BY <2>1, <2>2, CutEmpty
<1>3. ASSUME NEW t \in S, NEW c \in Bytes PROVE Append(t, c) \in S
  <2>1. t \in Seq(Bytes) /\ a \o t \in Seq(Bytes) /\ Append(t, c) \in Seq(Bytes)
    OBVIOUS
  <2>2. a \o Append(t, c) = Append(a \o t, c)
    BY <2>1, ConcatAppend
  <2>3. Lines(t) \in Seq(Seq(Bytes)) /\ AfterLines(t) \in Seq(Bytes)
    BY <2>1, CutType
  <2>4. Lines(a) \o Append(Lines(t), AfterLines(t)) = Append(Lines(a) \o Lines(t), AfterLines(t))
    BY <1>1, <2>3, ConcatAppendLine
  <2>5. Is(t)
    OBVIOUS
  <2>6. Is(Append(t, c))
    <3>1. CASE c = "n"
      <4>1. Lines(Append(a \o t, c)) = Append(Lines(a \o t), AfterLines(a \o t)) /\ AfterLines(Append(a \o t, c)) = <<>>
        BY <2>1, <3>1, CutAppend
      <4>2. Lines(Append(t, c)) = Append(Lines(t), AfterLines(t)) /\ AfterLines(Append(t, c)) = <<>>
        BY <2>1, <3>1, CutAppend
      <4> QED
        BY <2>2, <2>4, <2>5, <4>1, <4>2
    <3>2. CASE c # "n"
      <4>1. Lines(Append(a \o t, c)) = Lines(a \o t) /\ AfterLines(Append(a \o t, c)) = Append(AfterLines(a \o t), c)
        BY <2>1, <3>2, CutAppend
      <4>2. Lines(Append(t, c)) = Lines(t) /\ AfterLines(Append(t, c)) = Append(AfterLines(t), c)
        BY <2>1, <3>2, CutAppend
      <4> QED
        BY <2>2, <2>5, <4>1, <4>2
    <3> QED
      BY <3>1, <3>2
  <2> QED
    BY <2>1, <2>6
<1>4. S = Seq(Bytes)
  <2>1. S \subseteq Seq(Bytes)
    OBVIOUS
  <2> HIDE DEF S
  <2> QED
    BY <1>2, <1>3, <2>1, Cutting!SequenceInduction
<1> QED
  BY <1>4

(* One more line.                                                          *)
LEMMA LinesAddLine ==
    ASSUME NEW b \in Seq(Bytes), AfterLines(b) = <<>>, NEW l \in LineTexts
    PROVE  /\ b \o Append(l, "n") \in Seq(Bytes)
           /\ Lines(b \o Append(l, "n")) = Append(Lines(b), l)
           /\ AfterLines(b \o Append(l, "n")) = <<>>
<1>1. l \in Seq(Bytes) /\ "n" \in Bytes
  BY ByteFacts DEF LineTexts
<1>2. b \o l \in Seq(Bytes) /\ b \o Append(l, "n") = Append(b \o l, "n") /\ Append(b \o l, "n") \in Seq(Bytes)
  BY <1>1, ConcatProperties, AppendProperties, ConcatAppend
<1>3. Lines(b \o l) = Lines(b) /\ AfterLines(b \o l) = <<>> \o l
  BY CutConcatLine
<1>4. <<>> \o l = l
  BY <1>1, ConcatEmptySeq
<1>5. Lines(Append(b \o l, "n")) = Append(Lines(b \o l), AfterLines(b \o l)) /\ AfterLines(Append(b \o l, "n")) = <<>>
  BY <1>1, <1>2, CutAppend
<1> QED
  BY <1>2, <1>3, <1>4, <1>5

(* Removing the CR leaves a line.                                          *)
LEMMA StripCrLine ==
    ASSUME NEW l \in LineTexts
    PROVE  StripCr(l) \in LineTexts /\ StripCr(l) \in Seq(Bytes)
<1>1. l \in Seq(Bytes) /\ \A i \in 1..Len(l) : l[i] # "n"
  BY DEF LineTexts
<1>2. CASE StripCr(l) = l
  BY <1>1, <1>2
<1>3. CASE l # <<>> /\ StripCr(l) = SubSeq(l, 1, Len(l) - 1)
  <2> DEFINE f == SubSeq(l, 1, Len(l) - 1)
  <2>1. Len(l) \in Nat /\ Len(l) > 0
    BY <1>1, <1>3
  <2>2. f \in Seq(Bytes) /\ Len(f) = Len(l) - 1 /\ \A i \in 1..(Len(l) - 1) : f[i] = l[i]
    <3>1. Len(l) - 1 \in 0..Len(l) /\ 0 + 1 = 1 /\ (Len(l) - 1) - 0 = Len(l) - 1 /\ \A i \in 1..(Len(l) - 1) : 0 + i = i
      BY <2>1
    <3> QED
      BY <1>1, <3>1, Slice
  <2> HIDE DEF f
  <2>3. \A i \in 1..Len(f) : f[i] # "n"
    BY <1>1, <2>1, <2>2
  <2> QED
    BY <1>3, <2>2, <2>3 DEF LineTexts, f
<1> QED
  BY <1>2, <1>3 DEF StripCr, Front

(***************************************************************************)
(* Events, and the rows decoded from them                                  *)
(***************************************************************************)
LEMMA EventFacts ==
    /\ \A t \in Names : \A y \in {"Table", "CopyStart", "CopyEnd"} : [type |-> y, table |-> t] \in Events
    /\ \A f \in BOOLEAN : [type |-> "DumpVersion", fromDb |-> f] \in Events
    /\ \A b \in Seq(Bytes) : [type |-> "CopyRows", bytes |-> b] \in Events
    /\ \A e \in Events : /\ e.type \in {"Table", "CopyStart", "CopyEnd", "DumpVersion", "CopyRows"}
                         /\ e.type \in {"Table", "CopyStart", "CopyEnd"} => e.table \in Names
                         /\ e.type = "CopyRows" => e.bytes \in Seq(Bytes)
  BY DEF Events

(* copy::rows gives rows.                                                  *)
LEMMA RowsOfType ==
    ASSUME NEW t \in Names, NEW b \in Seq(Bytes)
    PROVE  RowsOf(t, b) \in Seq(Rows)
<1> DEFINE ls == Lines(b)
<1>1. ls \in Seq(LineTexts)
  BY LinesAreLines
<1>2. Len(ls) \in Nat /\ DOMAIN ls = 1..Len(ls) /\ \A n \in 1..Len(ls) : ls[n] \in LineTexts
  BY <1>1, LenProperties, ElementOfSeq
<1>3. \A n \in 1..Len(ls) : StripCr(ls[n]) \in Seq(Bytes)
  BY <1>2, StripCrLine
<1>4. \A n \in 1..Len(ls) : [table |-> t, row |-> StripCr(ls[n])] \in Rows
  BY <1>3 DEF Rows
<1>5. RowsOf(t, b) = [n \in 1..Len(ls) |-> [table |-> t, row |-> StripCr(ls[n])]]
  BY <1>2 DEF RowsOf
<1> HIDE DEF ls
<1>6. RowsOf(t, b) \in [1..Len(ls) -> Rows]
  BY <1>4, <1>5
<1> QED
  BY <1>2, <1>6, SeqDef

(* An empty payload holds no row.                                          *)
LEMMA RowsOfEmpty == \A t : RowsOf(t, <<>>) = <<>>
<1> SUFFICES ASSUME NEW t PROVE RowsOf(t, <<>>) = <<>>
  OBVIOUS
<1>1. Lines(<<>>) = <<>> /\ DOMAIN <<>> = {}
  BY CutEmpty
<1> QED
  BY <1>1 DEF RowsOf

(* One more line in a payload is one more row, its CR removed.             *)
LEMMA RowsOfAddLine ==
    ASSUME NEW t \in Names, NEW b \in Seq(Bytes), AfterLines(b) = <<>>, NEW l \in LineTexts
    PROVE  RowsOf(t, b \o Append(l, "n")) = Append(RowsOf(t, b), [table |-> t, row |-> StripCr(l)])
<1> DEFINE c == b \o Append(l, "n")
           x == RowsOf(t, c)
           row == [table |-> t, row |-> StripCr(l)]
           y == Append(RowsOf(t, b), row)
<1>1. c \in Seq(Bytes) /\ Lines(c) = Append(Lines(b), l)
  BY LinesAddLine
<1>2. Lines(b) \in Seq(LineTexts)
  BY LinesAreLines
<1>3. row \in Rows
  BY StripCrLine DEF Rows
<1>4. x \in Seq(Rows) /\ RowsOf(t, b) \in Seq(Rows)
  <2> HIDE DEF c
  <2> QED
    BY <1>1, RowsOfType
<1>5. y \in Seq(Rows) /\ Len(y) = Len(RowsOf(t, b)) + 1 /\ y[Len(RowsOf(t, b)) + 1] = row
        /\ \A i \in 1..Len(RowsOf(t, b)) : y[i] = RowsOf(t, b)[i]
  <2> HIDE DEF row
  <2> QED
    BY <1>3, <1>4, AppendProperties
<1> DEFINE n == Len(Lines(b))
<1>6. n \in Nat /\ DOMAIN Lines(b) = 1..n /\ DOMAIN Lines(c) = 1..(n + 1)
        /\ Lines(c)[n + 1] = l /\ \A i \in 1..n : Lines(c)[i] = Lines(b)[i]
  <2> HIDE DEF c
  <2> QED
    BY <1>1, <1>2, AppendProperties, LenProperties
<1>7. DOMAIN x = 1..(n + 1) /\ DOMAIN RowsOf(t, b) = 1..n
        /\ (\A i \in 1..(n + 1) : x[i] = [table |-> t, row |-> StripCr(Lines(c)[i])])
        /\ (\A i \in 1..n : RowsOf(t, b)[i] = [table |-> t, row |-> StripCr(Lines(b)[i])])
  BY <1>6 DEF RowsOf
<1> HIDE DEF x, y, row, n, c
<1>8. Len(x) = n + 1 /\ Len(RowsOf(t, b)) = n
  BY <1>4, <1>6, <1>7, LenProperties
<1>9. ASSUME NEW i \in 1..Len(x) PROVE x[i] = y[i]
  <2>1. CASE i \in 1..n
    BY <1>5, <1>6, <1>7, <1>8, <2>1
  <2>2. CASE i = n + 1
    BY <1>5, <1>6, <1>7, <1>8, <2>2 DEF row
  <2> QED
    BY <1>6, <1>8, <2>1, <2>2
<1> QED
  BY <1>4, <1>5, <1>8, <1>9, SeqEqual DEF x, y, c, row

Decodings == [table : Names, rows : Seq(Rows)]

(* No events, no rows.                                                     *)
LEMMA DecodedEmpty == Decoded(<<>>) = [table |-> "none", rows |-> <<>>]
  BY Decoding!ResultEmpty DEF Decoded

(* What the workers decode is a sequence of rows under a table.            *)
LEMMA DecodedType ==
    ASSUME NEW es \in Seq(Events)
    PROVE  Decoded(es) \in Decodings
<1> DEFINE S == {t \in Seq(Events) : Decoded(t) \in Decodings}
<1>1. <<>> \in S
  <2>1. <<>> \in Seq(Events) /\ <<>> \in Seq(Rows) /\ "none" \in Names
    BY EmptySeq DEF Names
  <2>2. [table |-> "none", rows |-> <<>>] \in Decodings
    BY <2>1 DEF Decodings
  <2> QED
    BY <2>1, <2>2, DecodedEmpty
<1>2. ASSUME NEW t \in S, NEW e \in Events PROVE Append(t, e) \in S
  <2>1. t \in Seq(Events) /\ Append(t, e) \in Seq(Events) /\ Decoded(t) \in Decodings
    BY AppendProperties
  <2>2. Decoded(Append(t, e)) = DecodeEvent(Decoded(t), e)
    BY <2>1, Decoding!ResultAppend DEF Decoded
  <2>3. \A d \in Decodings : DecodeEvent(d, e) \in Decodings
    <3> SUFFICES ASSUME NEW d \in Decodings PROVE DecodeEvent(d, e) \in Decodings
      OBVIOUS
    <3>1. d.table \in Names /\ d.rows \in Seq(Rows)
      BY DEF Decodings
    <3>2. CASE e.type = "CopyStart"
      BY <3>2, EventFacts DEF DecodeEvent, Decodings
    <3>3. CASE e.type = "CopyRows"
      <4>1. d.rows \o RowsOf(d.table, e.bytes) \in Seq(Rows)
        BY <3>1, <3>3, EventFacts, RowsOfType, ConcatProperties
      <4>2. DecodeEvent(d, e) = [d EXCEPT !.rows = d.rows \o RowsOf(d.table, e.bytes)]
        BY <3>3 DEF DecodeEvent
      <4> QED
        BY <4>1, <4>2 DEF Decodings
    <3>4. CASE e.type \notin {"CopyStart", "CopyRows"}
      BY <3>4 DEF DecodeEvent
    <3> QED
      BY <3>2, <3>3, <3>4
  <2> QED
    BY <2>1, <2>2, <2>3
<1>3. S = Seq(Events)
  <2>1. S \subseteq Seq(Events)
    OBVIOUS
  <2> HIDE DEF S
  <2> QED
    BY <1>1, <1>2, <2>1, Cutting!SequenceInduction
<1> QED
  BY <1>3

(* What one more event adds to what the workers decode.                    *)
LEMMA DecodedAppend ==
    ASSUME NEW es \in Seq(Events), NEW e \in Events
    PROVE  /\ e.type = "CopyStart" => Decoded(Append(es, e)).table = e.table
           /\ e.type # "CopyStart" => Decoded(Append(es, e)).table = Decoded(es).table
           /\ e.type = "CopyRows" =>
                Decoded(Append(es, e)).rows = Decoded(es).rows \o RowsOf(Decoded(es).table, e.bytes)
           /\ e.type # "CopyRows" => Decoded(Append(es, e)).rows = Decoded(es).rows
<1>1. Decoded(Append(es, e)) = DecodeEvent(Decoded(es), e)
  BY Decoding!ResultAppend DEF Decoded
<1> DEFINE d == Decoded(es)
<1>2. d \in Decodings
  BY DecodedType
<1> HIDE DEF d
<1>3. /\ e.type = "CopyStart" => DecodeEvent(d, e).table = e.table
      /\ e.type # "CopyStart" => DecodeEvent(d, e).table = d.table
      /\ e.type = "CopyRows" => DecodeEvent(d, e).rows = d.rows \o RowsOf(d.table, e.bytes)
      /\ e.type # "CopyRows" => DecodeEvent(d, e).rows = d.rows
  BY <1>2 DEF DecodeEvent, Decodings
<1> QED
  BY <1>1, <1>3 DEF d

(* What one more event does to the brackets.                               *)
LEMMA BracketsAppend ==
    ASSUME NEW es \in Seq(Events), NEW e \in Events, NEW t, Bracketed(es)
    PROVE  /\ e.type \notin {"CopyRows", "CopyEnd"} /\ ClosedAt(es) => Bracketed(Append(es, e))
           /\ e.type = "CopyStart" /\ e.table = t => OpenAt(Append(es, e), t)
           /\ e.type = "CopyRows" /\ OpenAt(es, t) => Bracketed(Append(es, e)) /\ OpenAt(Append(es, e), t)
           /\ e.type = "CopyEnd" /\ e.table = t /\ OpenAt(es, t) => Bracketed(Append(es, e))
           /\ e.type \notin {"CopyStart", "CopyRows"} => ClosedAt(Append(es, e))
<1> DEFINE x == Append(es, e)
           n == Len(es)
<1>1. n \in Nat /\ x \in Seq(Events) /\ Len(x) = n + 1 /\ x[n + 1] = e /\ (\A k \in 1..n : x[k] = es[k])
        /\ DOMAIN es = 1..n /\ DOMAIN x = 1..(n + 1)
  BY AppendProperties, LenProperties
<1>0. n = 0 <=> es = <<>>
  BY EmptySeq
<1>c. ClosedAt(es) => (n > 0 => es[n].type \notin {"CopyStart", "CopyRows"})
  BY <1>0, <1>1 DEF ClosedAt
<1>9. e.type \notin {"CopyStart", "CopyRows"} => ClosedAt(x)
  BY <1>1 DEF ClosedAt
<1> DEFINE Within(y, k) == y[k].type \in {"CopyStart", "CopyRows"} => y[k + 1].type \in {"CopyRows", "CopyEnd"}
           Is(y, k) == y[k].type \in {"CopyRows", "CopyEnd"} =>
        \E j \in 1..(k - 1) : /\ y[j].type = "CopyStart"
                              /\ \A i \in (j + 1)..(k - 1) : y[i].type = "CopyRows"
                              /\ y[k].type = "CopyEnd" => y[k].table = y[j].table
<1>2. (\A k \in 1..n : Is(es, k)) /\ \A k \in 1..(n - 1) : Within(es, k)
  BY <1>1 DEF Bracketed
<1> HIDE DEF x, n
<1>3. \A k \in 1..n : Is(x, k)
  BY <1>1, <1>2
<1>w. ASSUME n > 0 => Within(x, n) PROVE \A k \in 1..n : Within(x, k)
  <2>1. \A k \in 1..(n - 1) : Within(x, k)
    BY <1>1, <1>2
  <2> QED
    BY <1>1, <1>w, <2>1
<1>4. Is(x, n + 1) /\ (n > 0 => Within(x, n)) => Bracketed(x)
  <2>1. Is(x, n + 1) => \A k \in 1..(n + 1) : Is(x, k)
    BY <1>1, <1>3
  <2>2. (n + 1) - 1 = n
    BY <1>1
  <2> QED
    BY <1>1, <1>w, <2>1, <2>2 DEF Bracketed
<1>a. ASSUME n > 0, ClosedAt(es) PROVE Within(x, n)
  BY <1>1, <1>a, <1>c
<1>b. ASSUME n > 0, e.type \in {"CopyRows", "CopyEnd"} PROVE Within(x, n)
  BY <1>1, <1>b
<1>5. e.type \notin {"CopyRows", "CopyEnd"} => Is(x, n + 1)
  BY <1>1
<1>6. OpenAt(es, t) /\ (e.type = "CopyRows" \/ (e.type = "CopyEnd" /\ e.table = t)) => Is(x, n + 1)
  <2> SUFFICES ASSUME OpenAt(es, t), e.type = "CopyRows" \/ (e.type = "CopyEnd" /\ e.table = t)
               PROVE  Is(x, n + 1)
    OBVIOUS
  <2>1. PICK j \in 1..n : es[j].type = "CopyStart" /\ es[j].table = t /\ \A i \in (j + 1)..n : es[i].type = "CopyRows"
    BY <1>1 DEF OpenAt, n
  <2>2. x[j].type = "CopyStart" /\ x[j].table = t /\ \A i \in (j + 1)..n : x[i].type = "CopyRows"
    BY <1>1, <2>1
  <2>3. x[n + 1].type = "CopyEnd" => x[n + 1].table = x[j].table
    BY <1>1, <2>2
  <2>4. (n + 1) - 1 = n
    BY <1>1
  <2> QED
    BY <2>2, <2>3, <2>4
<1>7. e.type = "CopyStart" /\ e.table = t => OpenAt(x, t)
  <2>1. \A i \in (n + 1 + 1)..(n + 1) : FALSE
    BY <1>1
  <2>2. n + 1 \in DOMAIN x
    BY <1>1
  <2> QED
    BY <1>1, <2>1, <2>2 DEF OpenAt
<1>8. e.type = "CopyRows" /\ OpenAt(es, t) => OpenAt(x, t)
  <2> SUFFICES ASSUME OpenAt(es, t), e.type = "CopyRows" PROVE OpenAt(x, t)
    OBVIOUS
  <2>1. PICK j \in 1..n : es[j].type = "CopyStart" /\ es[j].table = t /\ \A i \in (j + 1)..n : es[i].type = "CopyRows"
    BY <1>1 DEF OpenAt, n
  <2>2. j \in DOMAIN x /\ x[j].type = "CopyStart" /\ x[j].table = t
    BY <1>1, <2>1
  <2>3. \A i \in (j + 1)..(n + 1) : x[i].type = "CopyRows"
    BY <1>1, <2>1
  <2> QED
    BY <1>1, <2>2, <2>3 DEF OpenAt
<1> QED
  BY <1>4, <1>5, <1>6, <1>7, <1>8, <1>9, <1>a, <1>b DEF x

TablesOf(es) == {es[k].table : k \in {j \in DOMAIN es : es[j].type = "Table"}}
HasVersion(es) == \E k \in DOMAIN es : es[k].type = "DumpVersion"

(* What one more event adds to the tables and the versions seen.           *)
LEMMA ContentsAppend ==
    ASSUME NEW es \in Seq(Events), NEW e \in Events
    PROVE  /\ TablesOf(Append(es, e)) = IF e.type = "Table" THEN TablesOf(es) \cup {e.table} ELSE TablesOf(es)
           /\ HasVersion(Append(es, e)) <=> HasVersion(es) \/ e.type = "DumpVersion"
<1> DEFINE x == Append(es, e)
           n == Len(es)
<1>1. n \in Nat /\ x \in Seq(Events) /\ Len(x) = n + 1 /\ x[n + 1] = e /\ (\A k \in 1..n : x[k] = es[k])
        /\ DOMAIN es = 1..n /\ DOMAIN x = 1..(n + 1)
  BY AppendProperties, LenProperties
<1> HIDE DEF x, n
<1>2. 1..(n + 1) = (1..n) \cup {n + 1}
  BY <1>1
<1>3. HasVersion(x) <=> HasVersion(es) \/ e.type = "DumpVersion"
  BY <1>1, <1>2 DEF HasVersion
<1>4. TablesOf(x) = IF e.type = "Table" THEN TablesOf(es) \cup {e.table} ELSE TablesOf(es)
  BY <1>1, <1>2 DEF TablesOf
<1> QED
  BY <1>3, <1>4 DEF x

-----------------------------------------------------------------------------
(***************************************************************************)
(* One line of the scanner                                                 *)
(***************************************************************************)
Mode(s) == IF s.skipping THEN "skip" ELSE IF s.inCreate THEN "create" ELSE "sql"

(* The types of the fields of a scanner.                                   *)
LEMMA ScannerFields ==
    ASSUME NEW s \in Scanners
    PROVE  /\ s.state \in {"Sql", "Copy"} /\ s.pending \in Seq(Bytes) /\ s.ddl \in Seq(Bytes)
           /\ s.inCreate \in BOOLEAN /\ s.skipping \in BOOLEAN /\ s.open \in Names
           /\ s.dumpedBy \in BOOLEAN /\ s.fromDb \in BOOLEAN /\ s.tables \in SUBSET Names
           /\ s.out \in Seq(Events) /\ s.run \in Seq(Bytes) /\ s.err \in {"none"} \cup ScanErrors
  BY DEF Scanners

(* The types of the fields of the reference.                               *)
LEMMA ReferenceFields ==
    ASSUME NEW r \in References
    PROVE  r.in \in {"sql", "create", "skip", "copy"} /\ r.table \in Names /\ r.rows \in Seq(Rows)
  BY DEF References

(* What one line of SQL may do: nothing to see, a table, the version, the  *)
(* start of a block.                                                       *)
Same(s, s2) == s2.run = s.run /\ s2.pending = s.pending /\ s2.open \in Names

Quiet(s, r, s2, r2) ==
    /\ s2.state = "Sql" /\ s2.out = s.out /\ s2.tables = s.tables /\ s2.dumpedBy = s.dumpedBy
    /\ r2.in = Mode(s2) /\ ~(s2.skipping /\ s2.inCreate)

Defines(s, r, s2, r2, t) ==
    /\ s2.state = "Sql" /\ s2.out = Append(s.out, [type |-> "Table", table |-> t])
    /\ s2.tables = s.tables \cup {t} /\ s2.dumpedBy = s.dumpedBy
    /\ r2.in = "sql" /\ ~s2.skipping /\ ~s2.inCreate

States(s, r, s2, r2) ==
    /\ s2.state = "Sql" /\ \E f \in BOOLEAN : s2.out = Append(s.out, [type |-> "DumpVersion", fromDb |-> f])
    /\ s2.tables = s.tables
    /\ r2.in = "sql" /\ ~s2.skipping /\ ~s2.inCreate

Opens(s, r, s2, r2, t) ==
    /\ s2.state = "Copy" /\ s2.out = Append(s.out, [type |-> "CopyStart", table |-> t])
    /\ s2.tables = s.tables /\ s2.dumpedBy = s.dumpedBy
    /\ r2.in = "copy" /\ r2.table = t /\ s2.open = t /\ ~s2.skipping /\ ~s2.inCreate

SqlOutcome(s, r, s2, r2) ==
    \/ s2.err # "none"
    \/ /\ s2.err = "none" /\ r2 \in References /\ r2.rows = r.rows
       /\ \/ Quiet(s, r, s2, r2)
          \/ \E t \in Names : Defines(s, r, s2, r2, t)
          \/ States(s, r, s2, r2)
          \/ \E t \in Names : Opens(s, r, s2, r2, t)

Adds(s, s2, t) == s2 = [s EXCEPT !.tables = s.tables \cup {t},
                                 !.out = Append(s.out, [type |-> "Table", table |-> t])]

(* A complete CREATE TABLE is an error or one Table event.                 *)
LEMMA DefineCases ==
    ASSUME NEW s \in Scanners, NEW ddl \in Seq(Bytes)
    PROVE  /\ Define(s, ddl) \in Scanners /\ Same(s, Define(s, ddl))
           /\ Define(s, ddl).err # "none" \/ \E t \in Names : Adds(s, Define(s, ddl), t)
<1> USE ScannerFields
<1>1. CASE Len(ddl) < 2 \/ ddl[2] = ")"
  <2>1. Define(s, ddl) = [s EXCEPT !.err = "MalformedCreateTable"]
    BY <1>1 DEF Define, Error
  <2>2. [s EXCEPT !.err = "MalformedCreateTable"] \in Scanners
    BY DEF Scanners, ScanErrors
  <2>3. [s EXCEPT !.err = "MalformedCreateTable"].err = "MalformedCreateTable"
          /\ Same(s, [s EXCEPT !.err = "MalformedCreateTable"])
    BY DEF Scanners, Same
  <2> QED
    BY <2>1, <2>2, <2>3
<1>2. CASE ~(Len(ddl) < 2 \/ ddl[2] = ")")
  <2> DEFINE t == ddl[2]
             e == [type |-> "Table", table |-> t]
             o == Append(s.out, e)
             s2 == [s EXCEPT !.tables = s.tables \cup {t}, !.out = o]
  <2>1. t \in Names
    <3>1. Len(ddl) \in Nat /\ 2 \in 1..Len(ddl)
      BY <1>2
    <3>2. ddl[2] \in Bytes
      BY <3>1, ElementOfSeq
    <3> QED
      BY <3>2 DEF Names
  <2>2. Define(s, ddl) = s2
    BY <1>2 DEF Define, Emit, Scanners
  <2> HIDE DEF t
  <2>3. e \in Events
    BY <2>1, EventFacts
  <2>4. o \in Seq(Events)
    <3> HIDE DEF e
    <3> QED
      BY <2>3, AppendProperties
  <2> HIDE DEF e, o
  <2>5. s2 \in Scanners /\ Same(s, s2)
    BY <2>1, <2>4 DEF Scanners, Same
  <2>6. Adds(s, s2, t)
    BY DEF Adds, o, e
  <2> HIDE DEF s2
  <2> QED
    BY <2>1, <2>2, <2>5, <2>6
<1> QED
  BY <1>1, <1>2

(* A line of SQL fails, or does one of four things, and the                *)
(* reference agrees.                                                       *)
LEMMA SqlLineCases ==
    ASSUME NEW s \in Scanners, s.state = "Sql", s.err = "none", ~(s.skipping /\ s.inCreate),
           NEW r \in References, r.in = Mode(s), NEW raw \in LineTexts
    PROVE  LET s2 == SqlLine(s, StripCr(raw))
               r2 == ReadLine(r, raw)
           IN  s2 \in Scanners /\ Same(s, s2) /\ SqlOutcome(s, r, s2, r2)
<1> DEFINE line == StripCr(raw)
           s2 == SqlLine(s, line)
           r2 == ReadLine(r, raw)
<1> USE ScannerFields, ReferenceFields
<1>1. line \in Seq(Bytes)
  BY StripCrLine
<1>2. r.in # "copy"
  BY DEF Mode
<1>3. CASE s.skipping
  <2> DEFINE b == ~EndsStatement(line)
  <2>1. s2 = [s EXCEPT !.skipping = b]
    BY <1>3 DEF SqlLine
  <2>2. r2 = IF EndsStatement(line) THEN [r EXCEPT !.in = "sql"] ELSE r
    BY <1>2, <1>3 DEF ReadLine, Mode
  <2>3. b \in BOOLEAN /\ (b <=> ~EndsStatement(line)) /\ ~s.inCreate
    BY <1>3 DEF EndsStatement
  <2>4. r2 \in References /\ r2.rows = r.rows /\ r2.in = IF b THEN "skip" ELSE "sql"
    BY <1>3, <2>2, <2>3 DEF References, Mode
  <2> HIDE DEF b, s2, r2
  <2>5. s2 \in Scanners /\ Same(s, s2)
    BY <2>1, <2>3 DEF Scanners, Same
  <2>6. Quiet(s, r, s2, r2) /\ s2.err = "none"
    BY <2>1, <2>3, <2>4 DEF Scanners, Quiet, Mode
  <2> QED
    BY <2>4, <2>5, <2>6 DEF s2, r2, SqlOutcome
<1>4. CASE ~s.skipping /\ s.inCreate
  <2>1. r2 = IF EndsStatement(line) THEN [r EXCEPT !.in = "sql"] ELSE r
    BY <1>2, <1>4 DEF ReadLine, Mode
  <2>2. CASE EndsStatement(line)
    <3> DEFINE u == [s EXCEPT !.inCreate = FALSE, !.ddl = <<>>]
    <3>1. s2 = Define(u, s.ddl \o line)
      BY <1>4, <2>2 DEF SqlLine
    <3>2. s.ddl \o line \in Seq(Bytes) /\ <<>> \in Seq(Bytes)
      BY <1>1, ConcatProperties, EmptySeq
    <3>3. u \in Scanners /\ Same(s, u) /\ u.err = "none"
      BY <3>2 DEF Scanners, Same
    <3>4. u.state = "Sql" /\ u.out = s.out /\ u.tables = s.tables /\ u.dumpedBy = s.dumpedBy
            /\ ~u.skipping /\ ~u.inCreate
      BY <1>4 DEF Scanners
    <3>5. r2 \in References /\ r2.rows = r.rows /\ r2.in = "sql"
      BY <2>1, <2>2 DEF References
    <3> HIDE DEF u, s2, r2
    <3>6. s2 \in Scanners /\ Same(u, s2)
      BY <3>1, <3>2, <3>3, DefineCases
    <3>7. Same(s, s2)
      BY <3>3, <3>6 DEF Same
    <3>8. CASE s2.err # "none"
      BY <3>6, <3>7, <3>8 DEF s2, r2, SqlOutcome
    <3>9. CASE s2.err = "none"
      <4>1. PICK t \in Names : Adds(u, s2, t)
        BY <3>1, <3>2, <3>3, <3>9, DefineCases
      <4>2. Defines(s, r, s2, r2, t)
        BY <3>3, <3>4, <3>5, <4>1 DEF Adds, Defines, Scanners
      <4> QED
        BY <3>5, <3>6, <3>7, <3>9, <4>2 DEF s2, r2, SqlOutcome
    <3> QED
      BY <3>8, <3>9
  <2>3. CASE ~EndsStatement(line)
    <3> DEFINE d == s.ddl \o line
    <3>1. s2 = [s EXCEPT !.ddl = d]
      BY <1>4, <2>3 DEF SqlLine, Scanners
    <3>2. d \in Seq(Bytes)
      BY <1>1, ConcatProperties
    <3>3. r2 \in References /\ r2.rows = r.rows /\ r2.in = "create"
      BY <1>4, <2>1, <2>3 DEF Mode
    <3> HIDE DEF d, s2, r2
    <3>4. s2 \in Scanners /\ Same(s, s2)
      BY <3>1, <3>2 DEF Scanners, Same
    <3>5. Quiet(s, r, s2, r2) /\ s2.err = "none"
      BY <1>4, <3>1, <3>3 DEF Scanners, Quiet, Mode
    <3> QED
      BY <3>3, <3>4, <3>5 DEF s2, r2, SqlOutcome
  <2> QED
    BY <2>2, <2>3
<1>5. CASE ~s.skipping /\ ~s.inCreate
  <2>0. r.in = "sql"
    BY <1>5 DEF Mode
  <2> DEFINE h == Head(line)
  <2>1. CASE Begins(line, "V")
    <3> DEFINE e == [type |-> "DumpVersion", fromDb |-> s.fromDb]
               o == Append(s.out, e)
    <3>1. h = "V"
      BY <2>1 DEF Begins
    <3>2. s2 = [s EXCEPT !.dumpedBy = TRUE, !.out = o]
      BY <1>5, <2>1, <3>1 DEF SqlLine, Emit, Scanners, Begins
    <3>3. r2 = r
      BY <2>0, <3>1 DEF ReadLine, Begins
    <3>4. e \in Events /\ o = Append(s.out, [type |-> "DumpVersion", fromDb |-> s.fromDb])
      BY EventFacts
    <3>5. o \in Seq(Events)
      <4> HIDE DEF e
      <4> QED
        BY <3>4, AppendProperties
    <3> HIDE DEF e, o, s2, r2
    <3>6. s2 \in Scanners /\ Same(s, s2) /\ s2.err = "none"
      BY <3>2, <3>5 DEF Scanners, Same
    <3>7. s2.out = o /\ s2.state = "Sql" /\ s2.tables = s.tables /\ ~s2.skipping /\ ~s2.inCreate
      BY <1>5, <3>2 DEF Scanners
    <3>8. States(s, r, s2, r2)
      BY <2>0, <3>3, <3>4, <3>7 DEF States
    <3> QED
      BY <3>3, <3>6, <3>8 DEF s2, r2, SqlOutcome
  <2>2. CASE Begins(line, "W")
    <3>1. h = "W"
      BY <2>2 DEF Begins
    <3>2. s2 = [s EXCEPT !.err = "UnsupportedDumpVersion"]
      BY <1>5, <2>2, <3>1 DEF SqlLine, Error, Begins
    <3> HIDE DEF s2, r2
    <3>3. s2 \in Scanners /\ Same(s, s2) /\ s2.err # "none"
      BY <3>2 DEF Scanners, Same, ScanErrors
    <3> QED
      BY <3>3 DEF s2, r2, SqlOutcome
  <2>3. CASE Begins(line, "F")
    <3>1. h = "F"
      BY <2>3 DEF Begins
    <3>2. s2 = [s EXCEPT !.fromDb = TRUE]
      BY <1>5, <2>3, <3>1 DEF SqlLine, Begins
    <3>3. r2 = r
      BY <2>0, <3>1 DEF ReadLine, Begins
    <3> HIDE DEF s2, r2
    <3>4. s2 \in Scanners /\ Same(s, s2) /\ s2.err = "none"
      BY <3>2 DEF Scanners, Same
    <3>5. Quiet(s, r, s2, r2)
      BY <1>5, <2>0, <3>2, <3>3 DEF Scanners, Quiet, Mode
    <3> QED
      BY <3>3, <3>4, <3>5 DEF s2, r2, SqlOutcome
  <2>4. CASE Begins(line, "X")
    <3> DEFINE b == ~EndsStatement(line)
    <3>1. h = "X"
      BY <2>4 DEF Begins
    <3>2. s2 = [s EXCEPT !.skipping = b]
      BY <1>5, <2>4, <3>1 DEF SqlLine, Begins
    <3>3. r2 = IF b THEN [r EXCEPT !.in = "skip"] ELSE r
      BY <2>0, <2>4, <3>1 DEF ReadLine, Begins
    <3>4. b \in BOOLEAN
      BY DEF EndsStatement
    <3> HIDE DEF b, s2, r2
    <3>5. r2 \in References /\ r2.rows = r.rows /\ r2.in = IF b THEN "skip" ELSE "sql"
      BY <2>0, <3>3, <3>4 DEF References
    <3>6. s2 \in Scanners /\ Same(s, s2) /\ s2.err = "none"
      BY <3>2, <3>4 DEF Scanners, Same
    <3>7. Quiet(s, r, s2, r2)
      BY <1>5, <3>2, <3>4, <3>5 DEF Scanners, Quiet, Mode
    <3> QED
      BY <3>5, <3>6, <3>7 DEF s2, r2, SqlOutcome
  <2>5. CASE Begins(line, "T") /\ EndsStatement(line)
    <3> DEFINE u == [s EXCEPT !.ddl = <<>>]
    <3>0. h = "T"
      BY <2>5 DEF Begins
    <3>1. s2 = Define(u, line)
      BY <1>5, <2>5, <3>0 DEF SqlLine, Begins
    <3>2. <<>> \in Seq(Bytes)
      BY EmptySeq
    <3>3. u \in Scanners /\ Same(s, u) /\ u.err = "none"
      BY <3>2 DEF Scanners, Same
    <3>4. u.state = "Sql" /\ u.out = s.out /\ u.tables = s.tables /\ u.dumpedBy = s.dumpedBy
            /\ ~u.skipping /\ ~u.inCreate
      BY <1>5 DEF Scanners
    <3>5. r2 = r
      BY <2>0, <2>5, <3>0 DEF ReadLine, Begins
    <3> HIDE DEF u, s2, r2
    <3>6. s2 \in Scanners /\ Same(u, s2)
      BY <1>1, <3>1, <3>3, DefineCases
    <3>7. Same(s, s2)
      BY <3>3, <3>6 DEF Same
    <3>8. CASE s2.err # "none"
      BY <3>6, <3>7, <3>8 DEF s2, r2, SqlOutcome
    <3>9. CASE s2.err = "none"
      <4>1. PICK t \in Names : Adds(u, s2, t)
        BY <1>1, <3>1, <3>3, <3>9, DefineCases
      <4>2. Defines(s, r, s2, r2, t)
        BY <2>0, <3>3, <3>4, <3>5, <4>1 DEF Adds, Defines, Scanners
      <4> QED
        BY <3>5, <3>6, <3>7, <3>9, <4>2 DEF s2, r2, SqlOutcome
    <3> QED
      BY <3>8, <3>9
  <2>6. CASE Begins(line, "T") /\ ~EndsStatement(line)
    <3>1. h = "T"
      BY <2>6 DEF Begins
    <3>2. s2 = [s EXCEPT !.ddl = line, !.inCreate = TRUE]
      BY <1>5, <2>6, <3>1 DEF SqlLine, Begins
    <3>3. r2 = [r EXCEPT !.in = "create"]
      BY <2>0, <2>6, <3>1 DEF ReadLine, Begins
    <3> HIDE DEF s2, r2, line
    <3>5. r2 \in References /\ r2.rows = r.rows /\ r2.in = "create"
      BY <3>3 DEF References
    <3>6. s2 \in Scanners /\ Same(s, s2) /\ s2.err = "none"
      BY <1>1, <3>2 DEF Scanners, Same
    <3>7. Quiet(s, r, s2, r2)
      BY <1>5, <3>2, <3>5 DEF Scanners, Quiet, Mode
    <3> QED
      BY <3>5, <3>6, <3>7 DEF s2, r2, SqlOutcome, line
  <2>7. CASE Begins(line, "C") /\ Len(line) < 2
    <3>1. h = "C"
      BY <2>7 DEF Begins
    <3>2. s2 = [s EXCEPT !.err = "MalformedCopyHeader"]
      BY <1>5, <2>7, <3>1 DEF SqlLine, Error, Begins
    <3> HIDE DEF s2, r2
    <3>3. s2 \in Scanners /\ Same(s, s2) /\ s2.err # "none"
      BY <3>2 DEF Scanners, Same, ScanErrors
    <3> QED
      BY <3>3 DEF s2, r2, SqlOutcome
  <2>8. CASE Begins(line, "C") /\ ~(Len(line) < 2)
    <3> DEFINE t == line[2]
               e == [type |-> "CopyStart", table |-> t]
               o == Append(s.out, e)
    <3>1. h = "C"
      BY <2>8 DEF Begins
    <3>2. t \in Names
      <4>1. Len(line) \in Nat /\ 2 \in 1..Len(line)
        BY <1>1, <2>8
      <4>2. line[2] \in Bytes
        BY <1>1, <4>1, ElementOfSeq
      <4> QED
        BY <4>2 DEF Names
    <3>3. s2 = [s EXCEPT !.open = t, !.state = "Copy", !.out = o]
      BY <1>5, <2>8, <3>1 DEF SqlLine, Emit, Scanners, Begins
    <3>4. r2 = [r EXCEPT !.in = "copy", !.table = t]
      BY <2>0, <2>8, <3>1 DEF ReadLine, Begins
    <3> HIDE DEF s2, r2, t
    <3>5. e \in Events /\ o = Append(s.out, [type |-> "CopyStart", table |-> t])
      BY <3>2, EventFacts
    <3>6. o \in Seq(Events)
      <4> HIDE DEF e
      <4> QED
        BY <3>5, AppendProperties
    <3> HIDE DEF e, o
    <3>7. r2 \in References /\ r2.rows = r.rows /\ r2.in = "copy" /\ r2.table = t
      BY <3>2, <3>4 DEF References
    <3>8. s2 \in Scanners /\ Same(s, s2) /\ s2.err = "none"
      BY <3>2, <3>3, <3>6 DEF Scanners, Same
    <3>9. Opens(s, r, s2, r2, t)
      BY <1>5, <3>3, <3>5, <3>7 DEF Opens, Scanners
    <3> QED
      BY <3>2, <3>7, <3>8, <3>9 DEF s2, r2, SqlOutcome
  <2>9. CASE \A y \in {"V", "W", "F", "X", "T", "C"} : ~Begins(line, y)
    <3>1. s2 = s
      BY <1>5, <2>9 DEF SqlLine
    <3>2. r2 = r
      BY <2>0, <2>9 DEF ReadLine
    <3>3. Same(s, s) /\ Quiet(s, r, s, r)
      BY <1>5, <2>0 DEF Same, Quiet, Mode
    <3> QED
      BY <3>1, <3>2, <3>3 DEF SqlOutcome
  <2> QED
    BY <2>1, <2>2, <2>3, <2>4, <2>5, <2>6, <2>7, <2>8, <2>9
<1> QED
  BY <1>3, <1>4, <1>5

(* Tracks with its parts named.                                            *)
LEMMA TracksIs ==
    ASSUME NEW s, NEW es, NEW r
    PROVE  Tracks(s, es, r) <=>
             /\ r \in References
             /\ s.state = "Sql" => /\ s.run = <<>> /\ ~(s.skipping /\ s.inCreate) /\ r.in = Mode(s)
                                   /\ ClosedAt(es)
             /\ s.state = "Copy" => /\ ~s.skipping /\ ~s.inCreate
                                    /\ r.in = "copy" /\ r.table = s.open /\ OpenAt(es, s.open)
             /\ AfterLines(s.run) = <<>>
             /\ s.dumpedBy => HasVersion(es)
             /\ s.tables = TablesOf(es)
             /\ Bracketed(es)
  BY DEF Tracks, Mode, HasVersion, TablesOf

(* The events of a call follow those of the calls before.                  *)
LEMMA EventsAppend ==
    ASSUME NEW E \in Seq(Events), NEW o \in Seq(Events), NEW e \in Events
    PROVE  E \o Append(o, e) = Append(E \o o, e) /\ E \o o \in Seq(Events)
  BY ConcatAppend, ConcatProperties

(* The scanner after a step still is where the reference is.               *)
Follows(E, s, r, s2, r2) ==
    s2.err = "none" => /\ Tracks(s2, E \o s2.out, r2)
                       /\ RowsTrack(s, E \o s.out, r) => RowsTrack(s2, E \o s2.out, r2)

(* After a line of SQL the scanner is where the reference is.              *)
LEMMA SqlLineFollows ==
    ASSUME NEW s \in Scanners, s.state = "Sql", s.err = "none", NEW E \in Seq(Events),
           NEW r, Tracks(s, E \o s.out, r), NEW raw \in LineTexts
    PROVE  LET s2 == SqlLine(s, StripCr(raw))
           IN  s2 \in Scanners /\ Same(s, s2) /\ Follows(E, s, r, s2, ReadLine(r, raw))
<1> DEFINE s2 == SqlLine(s, StripCr(raw))
           r2 == ReadLine(r, raw)
           es == E \o s.out
           es2 == E \o s2.out
<1>1. /\ r \in References /\ s.run = <<>> /\ ~(s.skipping /\ s.inCreate) /\ r.in = Mode(s)
      /\ s.dumpedBy => HasVersion(es)
      /\ s.tables = TablesOf(es)
      /\ Bracketed(es) /\ ClosedAt(es)
  BY TracksIs
<1>2. s2 \in Scanners /\ Same(s, s2) /\ SqlOutcome(s, r, s2, r2)
  BY <1>1, SqlLineCases
<1> HIDE DEF s2, r2
<1>3. s2.run = <<>> /\ s.out \in Seq(Events) /\ AfterLines(<<>>) = <<>> /\ (\A t : RowsOf(t, <<>>) = <<>>)
        /\ s2.state \in {"Sql", "Copy"}
  BY <1>1, <1>2, ScannerFields, CutEmpty, RowsOfEmpty DEF Same
<1>4. es \in Seq(Events)
  BY <1>3, ConcatProperties
<1>5. ASSUME s2.err = "none" PROVE Tracks(s2, es2, r2) /\ (RowsTrack(s, es, r) => RowsTrack(s2, es2, r2))
  <2>0. r2 \in References /\ r2.rows = r.rows
    BY <1>2, <1>5 DEF SqlOutcome
  <2>r. RowsTrack(s, es, r) => r.rows = Decoded(es).rows \o <<>>
    BY <1>1, <1>3 DEF RowsTrack
  <2>t. ASSUME s2.state = "Copy" => Decoded(es2).table = s2.open, Decoded(es2).rows = Decoded(es).rows
        PROVE  RowsTrack(s, es, r) => RowsTrack(s2, es2, r2)
    BY <1>3, <2>0, <2>r, <2>t DEF RowsTrack
  <2>1. CASE Quiet(s, r, s2, r2)
    <3>1. es2 = es
      BY <2>1 DEF Quiet
    <3> HIDE DEF es, es2
    <3>2. Tracks(s2, es2, r2)
      BY <1>1, <1>3, <2>0, <2>1, <3>1, TracksIs DEF Quiet
    <3>3. s2.state = "Sql"
      BY <2>1 DEF Quiet
    <3> QED
      BY <2>t, <3>1, <3>2, <3>3
  <2>2. ASSUME NEW t \in Names, Defines(s, r, s2, r2, t)
        PROVE  Tracks(s2, es2, r2) /\ (RowsTrack(s, es, r) => RowsTrack(s2, es2, r2))
    <3> DEFINE e == [type |-> "Table", table |-> t]
    <3>1. e \in Events /\ e.type = "Table" /\ e.table = t
      BY EventFacts
    <3> HIDE DEF e
    <3>2. s2.out = Append(s.out, e)
      BY <2>2 DEF Defines, e
    <3>3. es2 = Append(es, e)
      BY <1>3, <3>1, <3>2, EventsAppend
    <3> HIDE DEF es, es2
    <3>4. Bracketed(es2) /\ ClosedAt(es2) /\ TablesOf(es2) = TablesOf(es) \cup {t} /\ (HasVersion(es) => HasVersion(es2))
      BY <1>1, <1>4, <3>1, <3>3, BracketsAppend, ContentsAppend
    <3>5. Tracks(s2, es2, r2)
      BY <1>1, <1>3, <2>0, <2>2, <3>4, TracksIs DEF Defines, Mode
    <3>6. Decoded(es2).rows = Decoded(es).rows
      BY <1>4, <3>1, <3>3, DecodedAppend
    <3>7. s2.state = "Sql"
      BY <2>2 DEF Defines
    <3> QED
      BY <2>t, <3>5, <3>6, <3>7
  <2>3. CASE States(s, r, s2, r2)
    <3>0. PICK f \in BOOLEAN : s2.out = Append(s.out, [type |-> "DumpVersion", fromDb |-> f])
      BY <2>3 DEF States
    <3> DEFINE e == [type |-> "DumpVersion", fromDb |-> f]
    <3>1. e \in Events /\ e.type = "DumpVersion"
      BY EventFacts
    <3>2. s2.out = Append(s.out, e)
      BY <3>0
    <3> HIDE DEF e
    <3>3. es2 = Append(es, e)
      BY <1>3, <3>1, <3>2, EventsAppend
    <3> HIDE DEF es, es2
    <3>4. Bracketed(es2) /\ ClosedAt(es2) /\ TablesOf(es2) = TablesOf(es) /\ HasVersion(es2)
      BY <1>1, <1>4, <3>1, <3>3, BracketsAppend, ContentsAppend
    <3>5. Tracks(s2, es2, r2)
      BY <1>1, <1>3, <2>0, <2>3, <3>4, TracksIs DEF States, Mode
    <3>6. Decoded(es2).rows = Decoded(es).rows
      BY <1>4, <3>1, <3>3, DecodedAppend
    <3>7. s2.state = "Sql"
      BY <2>3 DEF States
    <3> QED
      BY <2>t, <3>5, <3>6, <3>7
  <2>4. ASSUME NEW t \in Names, Opens(s, r, s2, r2, t)
        PROVE  Tracks(s2, es2, r2) /\ (RowsTrack(s, es, r) => RowsTrack(s2, es2, r2))
    <3> DEFINE e == [type |-> "CopyStart", table |-> t]
    <3>1. e \in Events /\ e.type = "CopyStart" /\ e.table = t
      BY EventFacts
    <3> HIDE DEF e
    <3>2. s2.out = Append(s.out, e)
      BY <2>4 DEF Opens, e
    <3>3. es2 = Append(es, e)
      BY <1>3, <3>1, <3>2, EventsAppend
    <3> HIDE DEF es, es2
    <3>4. Bracketed(es2) /\ OpenAt(es2, t) /\ TablesOf(es2) = TablesOf(es) /\ (HasVersion(es) => HasVersion(es2))
      BY <1>1, <1>4, <3>1, <3>3, BracketsAppend, ContentsAppend
    <3>5. Tracks(s2, es2, r2)
      BY <1>1, <1>3, <2>0, <2>4, <3>4, TracksIs DEF Opens, Mode
    <3>6. Decoded(es2).rows = Decoded(es).rows /\ Decoded(es2).table = t
      BY <1>4, <3>1, <3>3, DecodedAppend
    <3>7. s2.open = t
      BY <2>4 DEF Opens
    <3> QED
      BY <2>t, <3>5, <3>6, <3>7
  <2> QED
    BY <1>2, <1>5, <2>1, <2>2, <2>3, <2>4 DEF SqlOutcome
<1> QED
  BY <1>2, <1>5 DEF Follows, s2, r2

(* The rows found so far, as one event.                                    *)
LEMMA FlushRunFollows ==
    ASSUME NEW s \in Scanners, NEW E \in Seq(Events)
    PROVE  LET s2 == FlushRun(s)
           IN  /\ s2 \in Scanners /\ s2.run = <<>>
               /\ s2.err = s.err /\ s2.pending = s.pending /\ s2.state = s.state /\ s2.open = s.open
               /\ \A r : Tracks(s, E \o s.out, r) => Follows(E, s, r, s2, r)
<1> DEFINE s2 == FlushRun(s)
           es == E \o s.out
           es2 == E \o s2.out
<1> USE ScannerFields
<1>1. CASE s.run = <<>>
  BY <1>1 DEF FlushRun, Follows
<1>2. CASE s.run # <<>>
  <2> DEFINE e == [type |-> "CopyRows", bytes |-> s.run]
             o == Append(s.out, e)
  <2>1. s2 = [s EXCEPT !.run = <<>>, !.out = o]
    BY <1>2 DEF FlushRun, Emit, Scanners
  <2>2. e \in Events /\ e.type = "CopyRows" /\ e.bytes = s.run
    BY EventFacts
  <2> HIDE DEF e
  <2>3. o \in Seq(Events) /\ <<>> \in Seq(Bytes)
    BY <2>2, AppendProperties, EmptySeq
  <2> HIDE DEF s2
  <2>4. s2 \in Scanners /\ s2.run = <<>> /\ s2.err = s.err /\ s2.pending = s.pending
          /\ s2.state = s.state /\ s2.open = s.open
    <3> HIDE DEF o
    <3> QED
      BY <2>1, <2>3 DEF Scanners
  <2>5. s2.dumpedBy = s.dumpedBy /\ s2.tables = s.tables /\ s2.inCreate = s.inCreate /\ s2.skipping = s.skipping
          /\ s2.out = o
    <3> HIDE DEF o
    <3> QED
      BY <2>1 DEF Scanners
  <2>6. es2 = Append(es, e) /\ es \in Seq(Events)
    BY <2>2, <2>5, EventsAppend
  <2> HIDE DEF es, es2, o
  <2>7. ASSUME NEW r, Tracks(s, es, r) PROVE Tracks(s2, es2, r) /\ (RowsTrack(s, es, r) => RowsTrack(s2, es2, r))
    <3>1. s.state = "Copy"
      BY <1>2, <2>7, TracksIs
    <3>2. /\ r \in References /\ ~s.skipping /\ ~s.inCreate /\ r.in = "copy" /\ r.table = s.open
          /\ OpenAt(es, s.open) /\ (s.dumpedBy => HasVersion(es)) /\ s.tables = TablesOf(es) /\ Bracketed(es)
      BY <2>7, <3>1, TracksIs
    <3>3. Bracketed(es2) /\ OpenAt(es2, s.open) /\ TablesOf(es2) = TablesOf(es) /\ (HasVersion(es) => HasVersion(es2))
      BY <2>2, <2>6, <3>2, BracketsAppend, ContentsAppend
    <3>4. Tracks(s2, es2, r)
      BY <2>4, <2>5, <3>1, <3>2, <3>3, CutEmpty, TracksIs
    <3>5. Decoded(es2).table = Decoded(es).table
            /\ Decoded(es2).rows = Decoded(es).rows \o RowsOf(Decoded(es).table, s.run)
      BY <2>2, <2>6, DecodedAppend
    <3>6. RowsOf(s2.open, s2.run) = <<>>
      BY <2>4, RowsOfEmpty
    <3>7. Decoded(es2).rows \o <<>> = Decoded(es2).rows
      <4>1. es2 \in Seq(Events)
        BY <2>2, <2>6, AppendProperties
      <4>2. Decoded(es2).rows \in Seq(Rows)
        BY <4>1, DecodedType DEF Decodings
      <4> QED
        BY <4>2, ConcatEmptySeq
    <3>8. RowsTrack(s, es, r) => RowsTrack(s2, es2, r)
      BY <2>4, <3>1, <3>5, <3>6, <3>7 DEF RowsTrack
    <3> QED
      BY <3>4, <3>8
  <2> QED
    BY <2>4, <2>7 DEF Follows, s2, es, es2
<1> QED
  BY <1>1, <1>2

(* The terminator of a block.                                              *)
LEMMA CloseCopyFollows ==
    ASSUME NEW s \in Scanners, s.state = "Copy", s.run = <<>>, NEW E \in Seq(Events),
           NEW r, Tracks(s, E \o s.out, r), NEW raw, StripCr(raw) = EndOfData
    PROVE  LET s2 == CloseCopy(s)
           IN  /\ s2 \in Scanners /\ s2.err = s.err /\ s2.pending = s.pending /\ s2.run = <<>>
               /\ Follows(E, s, r, s2, ReadLine(r, raw))
<1> DEFINE s2 == CloseCopy(s)
           r2 == ReadLine(r, raw)
           es == E \o s.out
           es2 == E \o s2.out
           e == [type |-> "CopyEnd", table |-> s.open]
           o == Append(s.out, e)
<1> USE ScannerFields
<1>1. s2 = [s EXCEPT !.state = "Sql", !.open = "none", !.out = o]
  BY DEF CloseCopy, Emit, Scanners
<1>2. e \in Events /\ e.type = "CopyEnd" /\ e.table = s.open
  BY EventFacts
<1> HIDE DEF e
<1>3. o \in Seq(Events) /\ "none" \in Names
  BY <1>2, AppendProperties DEF Names
<1> HIDE DEF s2
<1>4. s2 \in Scanners /\ s2.err = s.err /\ s2.pending = s.pending /\ s2.run = <<>> /\ s2.state = "Sql"
  <2> HIDE DEF o
  <2> QED
    BY <1>1, <1>3 DEF Scanners
<1>5. s2.dumpedBy = s.dumpedBy /\ s2.tables = s.tables /\ s2.inCreate = s.inCreate /\ s2.skipping = s.skipping
        /\ s2.out = o
  <2> HIDE DEF o
  <2> QED
    BY <1>1 DEF Scanners
<1>6. es2 = Append(es, e) /\ es \in Seq(Events)
  BY <1>2, <1>5, EventsAppend
<1>7. /\ r \in References /\ ~s.skipping /\ ~s.inCreate /\ r.in = "copy" /\ r.table = s.open
      /\ OpenAt(es, s.open) /\ (s.dumpedBy => HasVersion(es)) /\ s.tables = TablesOf(es) /\ Bracketed(es)
  BY TracksIs
<1> HIDE DEF es, es2, o
<1>8. r2 = [r EXCEPT !.in = "sql"]
  BY <1>7 DEF ReadLine
<1>9. r2 \in References /\ r2.in = "sql" /\ r2.rows = r.rows
  BY <1>7, <1>8 DEF References
<1> HIDE DEF r2
<1>10. Bracketed(es2) /\ ClosedAt(es2) /\ TablesOf(es2) = TablesOf(es) /\ (HasVersion(es) => HasVersion(es2))
  BY <1>2, <1>6, <1>7, BracketsAppend, ContentsAppend
<1>11. Tracks(s2, es2, r2)
  BY <1>4, <1>5, <1>7, <1>9, <1>10, CutEmpty, TracksIs DEF Mode
<1>12. Decoded(es2).rows = Decoded(es).rows
  BY <1>2, <1>6, DecodedAppend
<1>13. RowsTrack(s, es, r) => RowsTrack(s2, es2, r2)
  BY <1>4, <1>9, <1>12, RowsOfEmpty DEF RowsTrack
<1> QED
  BY <1>4, <1>11, <1>13 DEF Follows, s2, r2, es, es2

(* So it is after any line inside a chunk.                                 *)
LEMMA ChunkLineFollows ==
    ASSUME NEW s \in Scanners, NEW E \in Seq(Events), NEW r, NEW raw \in LineTexts,
           s.err = "none", Tracks(s, E \o s.out, r)
    PROVE  LET s2 == ChunkLine(s, raw)
           IN  s2 \in Scanners /\ s2.pending = s.pending /\ Follows(E, s, r, s2, ReadLine(r, raw))
<1> DEFINE s2 == ChunkLine(s, raw)
           r2 == ReadLine(r, raw)
<1> USE ScannerFields
<1>1. CASE s.state = "Sql"
  <2>1. s2 = SqlLine(s, StripCr(raw))
    BY <1>1 DEF ChunkLine
  <2> QED
    BY <1>1, <2>1, SqlLineFollows DEF Same
<1>2. CASE s.state = "Copy" /\ StripCr(raw) = EndOfData
  <2> DEFINE f == FlushRun(s)
  <2>1. s2 = CloseCopy(f)
    BY <1>2 DEF ChunkLine
  <2>2. f \in Scanners /\ f.run = <<>> /\ f.err = "none" /\ f.pending = s.pending /\ f.state = "Copy"
          /\ Follows(E, s, r, f, r)
    BY <1>2, FlushRunFollows
  <2> HIDE DEF f, s2, r2
  <2>3. Tracks(f, E \o f.out, r) /\ (RowsTrack(s, E \o s.out, r) => RowsTrack(f, E \o f.out, r))
    BY <2>2 DEF Follows
  <2>4. s2 \in Scanners /\ s2.err = "none" /\ s2.pending = s.pending /\ Follows(E, f, r, s2, r2)
    BY <1>2, <2>1, <2>2, <2>3, CloseCopyFollows DEF r2
  <2>5. Follows(E, s, r, s2, r2)
    BY <2>3, <2>4 DEF Follows
  <2> QED
    BY <2>4, <2>5 DEF s2, r2
<1>3. CASE s.state = "Copy" /\ StripCr(raw) # EndOfData
  <2> DEFINE u == s.run \o Append(raw, "n")
             w == [table |-> s.open, row |-> StripCr(raw)]
             es == E \o s.out
             es2 == E \o s2.out
  <2>1. s2 = [s EXCEPT !.run = u]
    BY <1>3 DEF ChunkLine
  <2>2. /\ r \in References /\ ~s.skipping /\ ~s.inCreate /\ r.in = "copy" /\ r.table = s.open
        /\ OpenAt(es, s.open) /\ (s.dumpedBy => HasVersion(es)) /\ s.tables = TablesOf(es) /\ Bracketed(es)
        /\ AfterLines(s.run) = <<>>
    BY <1>3, TracksIs
  <2>3. u \in Seq(Bytes) /\ AfterLines(u) = <<>> /\ RowsOf(s.open, u) = Append(RowsOf(s.open, s.run), w)
    BY <2>2, LinesAddLine, RowsOfAddLine
  <2>4. w \in Rows
    BY StripCrLine DEF Rows
  <2>5. r2 = [r EXCEPT !.rows = Append(r.rows, w)]
    BY <1>3, <2>2 DEF ReadLine
  <2> HIDE DEF u, w, r2, s2
  <2>6. Append(r.rows, w) \in Seq(Rows)
    BY <2>2, <2>4, AppendProperties, ReferenceFields
  <2>7. r2 \in References /\ r2.in = "copy" /\ r2.table = s.open /\ r2.rows = Append(r.rows, w)
    BY <2>2, <2>5, <2>6 DEF References
  <2>8. s2 \in Scanners /\ s2.pending = s.pending /\ s2.run = u /\ s2.state = "Copy" /\ s2.open = s.open
    BY <1>3, <2>1, <2>3 DEF Scanners
  <2>9. s2.dumpedBy = s.dumpedBy /\ s2.tables = s.tables /\ s2.inCreate = s.inCreate /\ s2.skipping = s.skipping
          /\ s2.out = s.out
    BY <2>1 DEF Scanners
  <2>10. es2 = es /\ es \in Seq(Events)
    BY <2>9, ConcatProperties
  <2> HIDE DEF es, es2
  <2>11. Tracks(s2, es2, r2)
    BY <2>2, <2>3, <2>7, <2>8, <2>9, <2>10, TracksIs
  <2>12. Decoded(es).rows \in Seq(Rows) /\ RowsOf(s.open, s.run) \in Seq(Rows)
    BY <2>10, DecodedType, RowsOfType DEF Decodings
  <2>13. Decoded(es).rows \o Append(RowsOf(s.open, s.run), w) = Append(Decoded(es).rows \o RowsOf(s.open, s.run), w)
    <3> DEFINE d == Decoded(es).rows
               q == RowsOf(s.open, s.run)
    <3>1. d \in Seq(Rows) /\ q \in Seq(Rows)
      BY <2>12
    <3> HIDE DEF d, q
    <3>2. d \o Append(q, w) = Append(d \o q, w)
      BY <2>4, <3>1, ConcatAppend
    <3> QED
      BY <3>2 DEF d, q
  <2>14. RowsTrack(s, es, r) => RowsTrack(s2, es2, r2)
    BY <1>3, <2>3, <2>7, <2>8, <2>10, <2>13 DEF RowsTrack
  <2> QED
    BY <2>8, <2>11, <2>14 DEF Follows, s2, r2, es, es2
<1> QED
  BY <1>1, <1>2, <1>3

(* A line that came in two pieces: its one row is the reference's unless   *)
(* it ends in CR CR.                                                       *)
LEMMA PendingLineFollows ==
    ASSUME NEW s \in Scanners, NEW E \in Seq(Events), NEW r, NEW raw \in LineTexts,
           s.err = "none", s.run = <<>>, Tracks(s, E \o s.out, r)
    PROVE  LET s2 == PendingLine(s, raw)
               r2 == ReadLine(r, raw)
           IN  /\ s2 \in Scanners /\ s2.pending = s.pending
               /\ s2.err = "none" => Tracks(s2, E \o s2.out, r2)
               /\ s2.err = "none" /\ RowsTrack(s, E \o s.out, r) /\ StripCr(StripCr(raw)) = StripCr(raw) =>
                    RowsTrack(s2, E \o s2.out, r2)
<1> DEFINE s2 == PendingLine(s, raw)
           r2 == ReadLine(r, raw)
           line == StripCr(raw)
<1> USE ScannerFields
<1>1. CASE s.state = "Sql"
  <2>1. s2 = SqlLine(s, StripCr(raw))
    BY <1>1 DEF PendingLine
  <2> HIDE DEF s2, r2
  <2>2. s2 \in Scanners /\ Same(s, s2) /\ Follows(E, s, r, s2, r2)
    BY <1>1, <2>1, SqlLineFollows DEF r2
  <2> QED
    BY <2>2 DEF Same, Follows, s2, r2
<1>2. CASE s.state = "Copy" /\ line = EndOfData
  <2>1. s2 = CloseCopy(s)
    BY <1>2 DEF PendingLine
  <2> HIDE DEF s2, r2
  <2>2. s2 \in Scanners /\ s2.pending = s.pending /\ Follows(E, s, r, s2, r2)
    BY <1>2, <2>1, CloseCopyFollows DEF r2
  <2> QED
    BY <2>2 DEF Follows, s2, r2
<1>3. CASE s.state = "Copy" /\ line # EndOfData
  <2> DEFINE u == Append(line, "n")
             w == [table |-> s.open, row |-> line]
             e == [type |-> "CopyRows", bytes |-> u]
             o == Append(s.out, e)
             es == E \o s.out
             es2 == E \o s2.out
  <2>1. s2 = [s EXCEPT !.out = o]
    BY <1>3 DEF PendingLine, Emit
  <2>2. /\ r \in References /\ ~s.skipping /\ ~s.inCreate /\ r.in = "copy" /\ r.table = s.open
        /\ OpenAt(es, s.open) /\ (s.dumpedBy => HasVersion(es)) /\ s.tables = TablesOf(es) /\ Bracketed(es)
        /\ AfterLines(s.run) = <<>>
    BY <1>3, TracksIs
  <2>3. line \in LineTexts /\ line \in Seq(Bytes) /\ "n" \in Bytes
    BY StripCrLine, ByteFacts
  <2>4. w \in Rows
    BY <2>3 DEF Rows
  <2>5. r2 = [r EXCEPT !.rows = Append(r.rows, w)]
    BY <1>3, <2>2 DEF ReadLine
  <2>6. u \in Seq(Bytes) /\ <<>> \o u = u /\ <<>> \in Seq(Bytes)
    BY <2>3, AppendProperties, ConcatEmptySeq, EmptySeq
  <2>7. StripCr(line) = line => RowsOf(s.open, u) = Append(<<>>, w)
    <3>1. RowsOf(s.open, <<>> \o u) = Append(RowsOf(s.open, <<>>), [table |-> s.open, row |-> StripCr(line)])
      BY <2>3, <2>6, CutEmpty, RowsOfAddLine
    <3> QED
      BY <2>6, <3>1, RowsOfEmpty
  <2> HIDE DEF u, w, r2, s2
  <2>8. Append(r.rows, w) \in Seq(Rows)
    BY <2>2, <2>4, AppendProperties, ReferenceFields
  <2>9. r2 \in References /\ r2.in = "copy" /\ r2.table = s.open /\ r2.rows = Append(r.rows, w)
    BY <2>2, <2>5, <2>8 DEF References
  <2>10. e \in Events /\ e.type = "CopyRows" /\ e.bytes = u
    BY <2>6, EventFacts
  <2> HIDE DEF e
  <2>11. o \in Seq(Events)
    BY <2>10, AppendProperties
  <2>12. s2 \in Scanners /\ s2.pending = s.pending /\ s2.run = <<>> /\ s2.state = "Copy" /\ s2.open = s.open
    <3> HIDE DEF o
    <3> QED
      BY <1>3, <2>1, <2>11 DEF Scanners
  <2>13. s2.dumpedBy = s.dumpedBy /\ s2.tables = s.tables /\ s2.inCreate = s.inCreate /\ s2.skipping = s.skipping
          /\ s2.out = o
    <3> HIDE DEF o
    <3> QED
      BY <2>1 DEF Scanners
  <2>14. es2 = Append(es, e) /\ es \in Seq(Events)
    BY <2>10, <2>13, EventsAppend
  <2> HIDE DEF es, es2, o
  <2>15. Bracketed(es2) /\ OpenAt(es2, s.open) /\ TablesOf(es2) = TablesOf(es) /\ (HasVersion(es) => HasVersion(es2))
    BY <2>2, <2>10, <2>14, BracketsAppend, ContentsAppend
  <2>16. Tracks(s2, es2, r2)
    BY <2>2, <2>9, <2>12, <2>13, <2>15, CutEmpty, TracksIs
  <2>17. ASSUME RowsTrack(s, es, r), StripCr(line) = line PROVE RowsTrack(s2, es2, r2)
    <3>1. Decoded(es).table = s.open /\ r.rows = Decoded(es).rows \o RowsOf(s.open, <<>>)
      BY <1>3, <2>17 DEF RowsTrack
    <3> DEFINE d == Decoded(es).rows
    <3>2. d \in Seq(Rows) /\ d \o <<>> = d /\ <<>> \in Seq(Rows)
      BY <2>14, DecodedType, ConcatEmptySeq, EmptySeq DEF Decodings
    <3>3. Decoded(es2).table = s.open /\ Decoded(es2).rows = d \o Append(<<>>, w)
      <4>1. Decoded(es2).table = Decoded(es).table
              /\ Decoded(es2).rows = Decoded(es).rows \o RowsOf(Decoded(es).table, u)
        BY <2>10, <2>14, DecodedAppend
      <4>2. RowsOf(s.open, u) = Append(<<>>, w)
        BY <2>7, <2>17
      <4> QED
        BY <3>1, <4>1, <4>2
    <3>4. r.rows = d /\ RowsOf(s.open, <<>>) = <<>>
      BY <3>1, <3>2, RowsOfEmpty
    <3>5. d \o Append(<<>>, w) = Append(d, w) /\ Append(d, w) \o <<>> = Append(d, w)
      <4> HIDE DEF d
      <4>1. Append(d, w) \in Seq(Rows)
        BY <2>4, <3>2, AppendProperties
      <4> QED
        BY <2>4, <3>2, <4>1, ConcatAppend, ConcatEmptySeq
    <3> QED
      BY <2>9, <2>12, <3>3, <3>4, <3>5 DEF RowsTrack
  <2> QED
    BY <2>12, <2>16, <2>17 DEF s2, r2, es, es2
<1> QED
  BY <1>1, <1>2, <1>3

-----------------------------------------------------------------------------
(***************************************************************************)
(* All lines of a chunk                                                    *)
(***************************************************************************)
Start == [in |-> "sql", table |-> "none", rows |-> <<>>]
Read(ls) == Reading!Result(Start, ls)

(* The reference sees a text only through its lines.                       *)
LEMMA ReferenceIsRead == \A b : Reference(b) = Read(Lines(b))
  BY DEF Reference, Read, Start

Scanned(E, s, ls, s2, ls2) ==
    /\ s2 \in Scanners /\ s2.pending = s.pending
    /\ s2.err = "none" => /\ s.err = "none"
                          /\ Tracks(s2, E \o s2.out, Read(ls2))
                          /\ RowsTrack(s, E \o s.out, Read(ls)) => RowsTrack(s2, E \o s2.out, Read(ls2))

(* So it is after all lines of a chunk, by induction on their number.      *)
LEMMA ScanLinesFollow ==
    ASSUME NEW s \in Scanners, NEW E \in Seq(Events), NEW ls \in Seq(LineTexts), NEW b \in Seq(Bytes),
           s.err = "none" => Tracks(s, E \o s.out, Read(ls))
    PROVE  Scanned(E, s, ls, ScanLines(s, b), ls \o Lines(b)) /\ ScanLines(s, b).run = <<>>
<1> DEFINE S == {t \in Seq(LineTexts) : Scanned(E, s, ls, Scanning!Result(s, t), ls \o t)}
<1>1. <<>> \in S
  <2>1. <<>> \in Seq(LineTexts) /\ ls \o <<>> = ls
    BY EmptySeq, ConcatEmptySeq
  <2>2. Scanning!Result(s, <<>>) = s
    BY Scanning!ResultEmpty
  <2>3. Scanned(E, s, ls, s, ls)
    BY DEF Scanned
  <2> QED
    BY <2>1, <2>2, <2>3
<1>2. ASSUME NEW t \in S, NEW raw \in LineTexts PROVE Append(t, raw) \in S
  <2> DEFINE s1 == Scanning!Result(s, t)
             s2 == Scanning!Result(s, Append(t, raw))
             l1 == ls \o t
             l2 == ls \o Append(t, raw)
  <2>1. t \in Seq(LineTexts) /\ Append(t, raw) \in Seq(LineTexts) /\ Scanned(E, s, ls, s1, l1)
    BY AppendProperties
  <2>2. s2 = ChunkLine(s1, raw)
    BY <2>1, Scanning!ResultAppend
  <2>3. l1 \in Seq(LineTexts) /\ l2 = Append(l1, raw)
    BY <2>1, ConcatProperties, ConcatAppend
  <2> HIDE DEF s1, s2, l1, l2, S
  <2>4. Read(l2) = ReadLine(Read(l1), raw)
    BY <2>3, Reading!ResultAppend DEF Read
  <2>5. Scanned(E, s, ls, s2, l2)
    <3>1. CASE s1.err # "none"
      <4>1. s2 = s1
        BY <2>2, <3>1 DEF ChunkLine
      <4> QED
        BY <2>1, <3>1, <4>1 DEF Scanned
    <3>2. CASE s1.err = "none"
      <4>1. s1 \in Scanners /\ s1.pending = s.pending /\ s.err = "none" /\ Tracks(s1, E \o s1.out, Read(l1))
              /\ (RowsTrack(s, E \o s.out, Read(ls)) => RowsTrack(s1, E \o s1.out, Read(l1)))
        BY <2>1, <3>2 DEF Scanned
      <4>2. s2 \in Scanners /\ s2.pending = s1.pending /\ Follows(E, s1, Read(l1), s2, Read(l2))
        BY <2>2, <2>4, <3>2, <4>1, ChunkLineFollows
      <4> QED
        BY <4>1, <4>2 DEF Scanned, Follows
    <3> QED
      BY <3>1, <3>2
  <2> QED
    BY <2>1, <2>5 DEF s2, l2, S
<1>3. S = Seq(LineTexts)
  <2>1. S \subseteq Seq(LineTexts)
    OBVIOUS
  <2> HIDE DEF S
  <2> QED
    BY <1>1, <1>2, <2>1, Cutting!SequenceInduction
<1> DEFINE s1 == Scanning!Result(s, Lines(b))
           s2 == FlushRun(s1)
           l2 == ls \o Lines(b)
<1>4. Scanned(E, s, ls, s1, l2)
  BY <1>3, LinesAreLines
<1>5. ScanLines(s, b) = s2
  BY DEF ScanLines
<1> HIDE DEF s1, l2
<1>6. s1 \in Scanners
  BY <1>4 DEF Scanned
<1>7. s2 \in Scanners /\ s2.run = <<>> /\ s2.err = s1.err /\ s2.pending = s1.pending
        /\ (Tracks(s1, E \o s1.out, Read(l2)) => Follows(E, s1, Read(l2), s2, Read(l2)))
  BY <1>6, FlushRunFollows
<1> HIDE DEF s2
<1>8. Scanned(E, s, ls, s2, l2)
  BY <1>4, <1>7 DEF Scanned, Follows
<1> QED
  BY <1>5, <1>7, <1>8 DEF l2

-----------------------------------------------------------------------------
(***************************************************************************)
(* A chunk                                                                 *)
(***************************************************************************)
LEMMA FirstNewlineIs ==
    ASSUME NEW b \in Seq(Bytes)
    PROVE  LET nl == FirstNewline(b)
           IN  /\ nl = 0 => b \in LineTexts
               /\ nl # 0 => nl \in 1..Len(b) /\ b[nl] = "n" /\ \A i \in 1..(nl - 1) : b[i] # "n"
<1> DEFINE I == {i \in 1..Len(b) : b[i] = "n"}
<1>1. FirstNewline(b) = IF I # {} THEN Min(I) ELSE 0
  BY DEF FirstNewline, SelectInSeq
<1>2. Len(b) \in Nat /\ I \in SUBSET Nat /\ I \subseteq 1..Len(b)
  OBVIOUS
<1>3. CASE I = {}
  <2>1. \A i \in 1..Len(b) : b[i] # "n"
    BY <1>3
  <2>2. FirstNewline(b) = 0
    BY <1>1, <1>3
  <2> QED
    BY <2>1, <2>2 DEF LineTexts
<1>4. CASE I # {}
  <2> DEFINE m == Min(I)
  <2>1. \E k \in I : \A n \in I : k <= n
    <3> HIDE DEF I
    <3> QED
      BY <1>2, <1>4, Cutting!LeastNumber
  <2>2. m \in I /\ \A n \in I : m <= n
    <3> HIDE DEF I
    <3> QED
      BY <2>1 DEF Min
  <2>3. FirstNewline(b) = m
    BY <1>1, <1>4
  <2> HIDE DEF m
  <2>4. m \in 1..Len(b) /\ b[m] = "n"
    BY <2>2
  <2>5. ASSUME NEW i \in 1..(m - 1) PROVE b[i] # "n"
    <3>1. i \in 1..Len(b) /\ ~(m <= i)
      BY <1>2, <2>4
    <3> QED
      BY <2>2, <3>1
  <2> QED
    BY <1>2, <2>3, <2>4, <2>5
<1> QED
  BY <1>3, <1>4

(* A line that loses a second CR is one that ends in CR CR LF.             *)
LEMMA DoubleCrSeen ==
    ASSUME NEW b \in Seq(Bytes), NEW c \in Seq(Bytes),
           StripCr(StripCr(AfterLines(b))) # StripCr(AfterLines(b))
    PROVE  DoubleCr(Append(b, "n") \o c)
<1> DEFINE l == AfterLines(b)
           f == SubSeq(l, 1, Len(l) - 1)
           m == LastNewline(b)
           q == Len(b)
           z == Append(b, "n")
           x == z \o c
<1>1. l \in Seq(Bytes) /\ q \in Nat /\ m \in 0..q /\ l = SubSeq(b, m + 1, q)
  <2>1. l \in Seq(Bytes) /\ Suffix(b)
    BY CutType, LineEnds
  <2>2. m \in 0..q /\ l = SubSeq(b, m + 1, q)
    BY <2>1 DEF Suffix
  <2>3. q \in Nat
    BY LenProperties
  <2> HIDE DEF l, m, q
  <2> QED
    BY <2>1, <2>2, <2>3
<1>2. l # <<>> /\ l[Len(l)] = "cr" /\ StripCr(l) = f /\ f # <<>> /\ f[Len(f)] = "cr"
  <2>1. StripCr(l) # l
    OBVIOUS
  <2>2. l # <<>> /\ l[Len(l)] = "cr" /\ StripCr(l) = f
    BY <2>1 DEF StripCr, Last, Front
  <2>3. StripCr(f) # f
    BY <2>2
  <2> HIDE DEF f, l
  <2>4. f # <<>> /\ f[Len(f)] = "cr"
    BY <2>3 DEF StripCr, Last
  <2> QED
    BY <2>2, <2>4
<1>3. Len(SubSeq(b, m + 1, q)) = q - m /\ \A i \in 1..(q - m) : SubSeq(b, m + 1, q)[i] = b[m + i]
  <2>1. m \in Nat /\ q \in m..Len(b)
    BY <1>1
  <2> HIDE DEF m, q
  <2> QED
    BY <2>1, Slice
<1>4. Len(l) = q - m /\ \A i \in 1..(q - m) : l[i] = b[m + i]
  <2> HIDE DEF l, m, q
  <2> QED
    BY <1>1, <1>3
<1>5. Len(l) > 0 /\ f \in Seq(Bytes) /\ Len(f) = Len(l) - 1 /\ \A i \in 1..(Len(l) - 1) : f[i] = l[i]
  <2> HIDE DEF l, m, q
  <2>0. Len(l) \in Nat /\ Len(l) > 0
    BY <1>1, <1>2
  <2>1. Len(l) - 1 \in 0..Len(l) /\ 0 + 1 = 1 /\ (Len(l) - 1) - 0 = Len(l) - 1 /\ \A i \in 1..(Len(l) - 1) : 0 + i = i
    BY <2>0
  <2> QED
    BY <1>1, <2>0, <2>1, Slice
<1>6. "n" \in Bytes /\ z \in Seq(Bytes) /\ Len(z) = q + 1 /\ z[q + 1] = "n" /\ \A i \in 1..q : z[i] = b[i]
  BY ByteFacts
<1> HIDE DEF z
<1>7. x \in Seq(Bytes) /\ Len(x) = Len(z) + Len(c) /\ Len(c) \in Nat /\ \A i \in 1..Len(z) : x[i] = z[i]
  <2>1. Len(z) \in Nat /\ Len(c) \in Nat
    BY <1>6, LenProperties
  <2>2. \A i \in 1..Len(z) : i \in 1..(Len(z) + Len(c)) /\ i <= Len(z)
    BY <2>1
  <2> QED
    BY <1>6, <2>1, <2>2, ConcatProperties
<1> HIDE DEF x, f, l, m, q
<1>8. Len(f) > 0
  BY <1>2, <1>5
<1>9. q >= 2 /\ b[q] = "cr" /\ b[q - 1] = "cr"
  <2>1. Len(l) \in 1..(q - m) /\ Len(l) >= 2 /\ m + Len(l) = q /\ Len(f) \in 1..(Len(l) - 1) /\ Len(f) = Len(l) - 1
    BY <1>1, <1>4, <1>5, <1>8
  <2>2. b[q] = "cr"
    BY <1>2, <1>4, <2>1
  <2>3. f[Len(f)] = l[Len(f)] /\ Len(f) \in 1..(q - m) /\ m + Len(f) = q - 1
    BY <1>1, <1>4, <1>5, <2>1
  <2>4. b[q - 1] = "cr"
    BY <1>2, <1>4, <2>3
  <2> QED
    BY <1>1, <2>1, <2>2, <2>4
<1>10. x[q - 1] = "cr" /\ x[(q - 1) + 1] = "cr" /\ x[(q - 1) + 2] = "n"
  <2>1. q - 1 \in 1..q /\ q \in 1..q /\ (q - 1) + 1 = q /\ (q - 1) + 2 = q + 1
    BY <1>1, <1>9
  <2>2. q - 1 \in 1..Len(z) /\ q \in 1..Len(z) /\ q + 1 \in 1..Len(z)
    BY <1>6, <1>1, <1>9
  <2> QED
    BY <1>6, <1>7, <1>9, <2>1, <2>2
<1>11. q - 1 \in 1..(Len(x) - 2)
  BY <1>1, <1>6, <1>7, <1>9
<1>12. DoubleCr(x)
  BY <1>10, <1>11 DEF DoubleCr
<1> QED
  BY <1>12 DEF x, z

(* Nothing of the scanner but these fields matters to Tracks.              *)
Alike(s, t) == /\ s.state = t.state /\ s.run = t.run /\ s.skipping = t.skipping /\ s.inCreate = t.inCreate
               /\ s.open = t.open /\ s.dumpedBy = t.dumpedBy /\ s.tables = t.tables

(* The other fields may change freely.                                     *)
LEMMA AlikeTracks ==
    ASSUME NEW s, NEW t, Alike(s, t), NEW es, NEW r
    PROVE  (Tracks(s, es, r) <=> Tracks(t, es, r)) /\ (RowsTrack(s, es, r) <=> RowsTrack(t, es, r))
<1>1. Tracks(s, es, r) <=> Tracks(t, es, r)
  BY TracksIs DEF Alike, Mode
<1>2. RowsTrack(s, es, r) <=> RowsTrack(t, es, r)
  BY DEF Alike, RowsTrack
<1> QED
  BY <1>1, <1>2

(* Bytes up to a newline and the bytes after it.                           *)
LEMMA AppendThenConcat ==
    ASSUME NEW p \in Seq(Bytes), NEW a \in Seq(Bytes), NEW w \in Seq(Bytes)
    PROVE  p \o (Append(a, "n") \o w) = Append(p \o a, "n") \o w
<1>1. Append(a, "n") \in Seq(Bytes) /\ p \o Append(a, "n") = Append(p \o a, "n")
  BY ByteFacts, AppendProperties, ConcatAppend
<1>2. \A v \in Seq(Bytes) : p \o (v \o w) = (p \o v) \o w
  <2> SUFFICES ASSUME NEW v \in Seq(Bytes) PROVE (p \o v) \o w = p \o (v \o w)
    OBVIOUS
  <2> QED
    BY ConcatAssociative
<1>3. p \o (Append(a, "n") \o w) = (p \o Append(a, "n")) \o w
  BY <1>1, <1>2, ZenonT(20)
<1> QED
  BY <1>1, <1>3, ZenonT(20)

Fed(E, s, P, s2, P2) ==
    /\ s2 \in Scanners /\ s2.run = <<>> /\ s2.pending = AfterLines(P2)
    /\ s2.err = "none" => Tracks(s2, E \o s2.out, Reference(P2))
    /\ s2.err = "none" /\ RowsTrack(s, E, Reference(P)) /\ (s.pending = <<>> \/ ~DoubleCr(P2)) =>
         RowsTrack(s2, E \o s2.out, Reference(P2))

(* Scanner::feed, for any cut: with a carried line completed, lengthened   *)
(* or absent.                                                              *)
LEMMA FeedFollows ==
    ASSUME NEW s0 \in Scanners, s0.err = "none", s0.run = <<>>, NEW E \in Seq(Events),
           NEW P \in Seq(Bytes), NEW chunk \in Seq(Bytes),
           s0.pending = AfterLines(P), Tracks(s0, E, Reference(P))
    PROVE  Fed(E, s0, P, Feed(s0, chunk), P \o chunk)
<1> DEFINE s == [s0 EXCEPT !.out = <<>>]
           nl == FirstNewline(chunk)
           P2 == P \o chunk
           s2 == Feed(s0, chunk)
           R == Reference(P)
<1> USE ScannerFields
<1>1. s \in Scanners /\ s.pending = s0.pending /\ s.err = "none" /\ s.run = <<>> /\ s.out = <<>> /\ Alike(s0, s)
  <2>1. <<>> \in Seq(Events)
    BY EmptySeq
  <2> QED
    BY <2>1 DEF Scanners, Alike
<1>2. E \o <<>> = E
  BY ConcatEmptySeq
<1>3. Tracks(s, E, R) /\ (RowsTrack(s0, E, R) <=> RowsTrack(s, E, R))
  BY <1>1, AlikeTracks
<1>4. R = Read(Lines(P)) /\ Lines(P) \in Seq(LineTexts)
  BY ReferenceIsRead, LinesAreLines
<1>5. CASE s.pending # <<>> /\ nl = 0
  <2>1. s2 = [s EXCEPT !.pending = s.pending \o chunk]
    BY <1>5 DEF Feed, Scanners
  <2>2. Lines(P2) = Lines(P) /\ AfterLines(P2) = s.pending \o chunk
    BY <1>1, <1>5, FirstNewlineIs, CutConcatLine
  <2>3. Reference(P2) = R
    BY <2>2, ReferenceIsRead
  <2>4. s.pending \o chunk \in Seq(Bytes)
    BY <1>1, ConcatProperties
  <2> HIDE DEF s, s2, P2
  <2>5. s2 \in Scanners /\ s2.run = <<>> /\ s2.pending = AfterLines(P2) /\ s2.out = <<>> /\ Alike(s, s2)
    <3> DEFINE q == s.pending \o chunk
    <3> HIDE DEF q
    <3>1. s2 = [s EXCEPT !.pending = q] /\ q \in Seq(Bytes) /\ AfterLines(P2) = q
      BY <2>1, <2>2, <2>4 DEF q
    <3> QED
      BY <1>1, <3>1 DEF Scanners, Alike
  <2>6. Tracks(s2, E, R) /\ (RowsTrack(s, E, R) <=> RowsTrack(s2, E, R))
    BY <1>3, <2>5, AlikeTracks
  <2>7. Fed(E, s0, P, s2, P2)
    BY <1>2, <1>3, <2>3, <2>5, <2>6 DEF Fed
  <2> QED
    BY <2>7 DEF s2, P2
<1>6. CASE s.pending = <<>>
  <2> DEFINE z == ScanLines(s, chunk)
             ls == Lines(P) \o Lines(chunk)
  <2>1. s2 = [z EXCEPT !.pending = AfterLines(chunk)]
    BY <1>6 DEF Feed
  <2>2. Lines(P2) = ls /\ AfterLines(P2) = AfterLines(chunk)
    BY <1>1, <1>6, CutConcat
  <2>3. Reference(P2) = Read(ls) /\ AfterLines(chunk) \in Seq(Bytes)
    BY <2>2, ReferenceIsRead, CutType
  <2> HIDE DEF s, s2, P2
  <2>4. Scanned(E, s, Lines(P), z, ls) /\ z.run = <<>>
    BY <1>1, <1>2, <1>3, <1>4, ScanLinesFollow
  <2> HIDE DEF z, ls
  <2>5. z \in Scanners
    BY <2>4 DEF Scanned
  <2>6. s2 \in Scanners /\ s2.run = <<>> /\ s2.pending = AfterLines(P2) /\ s2.out = z.out /\ Alike(z, s2) /\ s2.err = z.err
    <3> DEFINE q == AfterLines(chunk)
    <3> HIDE DEF q
    <3>1. s2 = [z EXCEPT !.pending = q] /\ q \in Seq(Bytes) /\ AfterLines(P2) = q
      BY <2>1, <2>2, <2>3 DEF q
    <3> QED
      BY <2>4, <2>5, <3>1 DEF Scanners, Alike
  <2>7. \A es, r : (Tracks(z, es, r) <=> Tracks(s2, es, r)) /\ (RowsTrack(z, es, r) <=> RowsTrack(s2, es, r))
    BY <2>6, AlikeTracks
  <2>8. Fed(E, s0, P, s2, P2)
    BY <1>1, <1>2, <1>3, <1>4, <2>3, <2>4, <2>6, <2>7 DEF Fed, Scanned
  <2> QED
    BY <2>8 DEF s2, P2
<1>7. CASE s.pending # <<>> /\ nl # 0
  <2> DEFINE u == [s EXCEPT !.pending = <<>>]
             a == SubSeq(chunk, 1, nl - 1)
             rest == SubSeq(chunk, nl + 1, Len(chunk))
             raw == s.pending \o a
             first == PendingLine(u, raw)
             z == ScanLines(first, rest)
             l1 == Append(Lines(P), raw)
             ls == l1 \o Lines(rest)
             Q == P \o a
  <2>1. s2 = [z EXCEPT !.pending = AfterLines(rest)]
    BY <1>7 DEF Feed
  <2>2. nl \in 1..Len(chunk) /\ chunk[nl] = "n" /\ (\A i \in 1..(nl - 1) : chunk[i] # "n") /\ Len(chunk) \in Nat
    BY <1>7, FirstNewlineIs
  <2> HIDE DEF nl
  <2>3. a \in LineTexts /\ a \in Seq(Bytes) /\ rest \in Seq(Bytes)
    <3>1. nl - 1 \in 0..Len(chunk) /\ 0 + 1 = 1 /\ (nl - 1) - 0 = nl - 1 /\ (\A i \in 1..(nl - 1) : 0 + i = i)
            /\ nl \in Nat /\ Len(chunk) \in nl..Len(chunk)
      BY <2>2
    <3>2. a \in Seq(Bytes) /\ Len(a) = nl - 1 /\ \A i \in 1..(nl - 1) : a[i] = chunk[i]
      BY <3>1, Slice
    <3>3. rest \in Seq(Bytes)
      BY <3>1, Slice
    <3> HIDE DEF a
    <3> QED
      BY <2>2, <3>2, <3>3 DEF LineTexts
  <2>4. chunk = Append(a, "n") \o rest
    <3>1. 1 \in 1..(Len(chunk) + 1) /\ nl \in 0..Len(chunk) /\ Len(chunk) \in nl..Len(chunk) /\ nl \in 1..nl
      BY <2>2
    <3>2. SubSeq(chunk, 1, nl) \o rest = SubSeq(chunk, 1, Len(chunk)) /\ SubSeq(chunk, 1, Len(chunk)) = chunk
      BY <3>1, ConcatAdjacentSubSeq, SubSeqFull
    <3>3. SubSeq(chunk, 1, nl) = a \o <<"n">>
      BY <2>2, <3>1, SubSeqRecursiveSecond
    <3>4. Append(a, "n") = a \o <<"n">>
      BY <2>3, ByteFacts, AppendIsConcat
    <3> QED
      BY <3>2, <3>3, <3>4
  <2> HIDE DEF s, s2, a, rest
  <2>5. Q \in Seq(Bytes) /\ Lines(Q) = Lines(P) /\ AfterLines(Q) = raw /\ raw \in LineTexts
    <3>1. Q \in Seq(Bytes) /\ Lines(Q) = Lines(P) /\ AfterLines(Q) = raw
      BY <1>1, <2>3, CutConcatLine, ConcatProperties
    <3> QED
      BY <3>1, AfterLinesIsLine
  <2>6. P2 = Append(Q, "n") \o rest
    <3>0. a \in Seq(Bytes) /\ rest \in Seq(Bytes)
      BY <2>3
    <3>1. P \o (Append(a, "n") \o rest) = Append(P \o a, "n") \o rest
      BY <3>0, AppendThenConcat, ZenonT(20)
    <3> QED
      BY <2>4, <3>1, ZenonT(20)
  <2> HIDE DEF Q, P2, raw
  <2>7. Append(Q, "n") \in Seq(Bytes) /\ Lines(Append(Q, "n")) = l1 /\ AfterLines(Append(Q, "n")) = <<>>
    BY <2>5, ByteFacts, AppendProperties, CutAppend
  <2>8. Lines(P2) = ls /\ AfterLines(P2) = AfterLines(rest)
    BY <2>3, <2>6, <2>7, CutConcat
  <2>9. Reference(P2) = Read(ls) /\ AfterLines(rest) \in Seq(Bytes)
    BY <2>3, <2>8, ReferenceIsRead, CutType
  <2>10. l1 \in Seq(LineTexts) /\ Read(l1) = ReadLine(R, raw)
    BY <1>4, <2>5, AppendProperties, Reading!ResultAppend DEF Read
  <2>11. u \in Scanners /\ u.err = "none" /\ u.run = <<>> /\ u.out = <<>> /\ Alike(s, u)
    <3>1. <<>> \in Seq(Bytes)
      BY EmptySeq
    <3> QED
      BY <1>1, <3>1 DEF Scanners, Alike
  <2> HIDE DEF u, R
  <2>12. Tracks(u, E, R) /\ (RowsTrack(s, E, R) <=> RowsTrack(u, E, R))
    BY <1>3, <2>11, AlikeTracks
  <2>13. /\ first \in Scanners
         /\ first.err = "none" => Tracks(first, E \o first.out, Read(l1))
         /\ first.err = "none" /\ RowsTrack(u, E, R) /\ StripCr(StripCr(raw)) = StripCr(raw) =>
              RowsTrack(first, E \o first.out, Read(l1))
    <3>1. E \o u.out = E
      BY <1>2, <2>11
    <3>2. Tracks(u, E \o u.out, R) /\ (RowsTrack(u, E, R) => RowsTrack(u, E \o u.out, R))
      BY <2>12, <3>1
    <3>3. /\ first \in Scanners
          /\ first.err = "none" => Tracks(first, E \o first.out, ReadLine(R, raw))
          /\ first.err = "none" /\ RowsTrack(u, E \o u.out, R) /\ StripCr(StripCr(raw)) = StripCr(raw) =>
               RowsTrack(first, E \o first.out, ReadLine(R, raw))
      BY <2>5, <2>11, <3>2, PendingLineFollows
    <3> HIDE DEF l1, first
    <3> QED
      BY <2>10, <3>2, <3>3
  <2>14. ~DoubleCr(P2) => StripCr(StripCr(raw)) = StripCr(raw)
    BY <2>3, <2>5, <2>6, DoubleCrSeen
  <2> HIDE DEF first, l1
  <2>15. Scanned(E, first, l1, z, ls) /\ z.run = <<>>
    BY <2>3, <2>10, <2>13, ScanLinesFollow
  <2> HIDE DEF z, ls
  <2>16. z \in Scanners
    BY <2>15 DEF Scanned
  <2>17. s2 \in Scanners /\ s2.run = <<>> /\ s2.pending = AfterLines(P2) /\ s2.out = z.out /\ Alike(z, s2) /\ s2.err = z.err
    <3> DEFINE q == AfterLines(rest)
    <3> HIDE DEF q
    <3>1. s2 = [z EXCEPT !.pending = q] /\ q \in Seq(Bytes) /\ AfterLines(P2) = q
      BY <2>1, <2>8, <2>9 DEF q
    <3> QED
      BY <2>15, <2>16, <3>1 DEF Scanners, Alike
  <2>18. \A es, r : (Tracks(z, es, r) <=> Tracks(s2, es, r)) /\ (RowsTrack(z, es, r) <=> RowsTrack(s2, es, r))
    BY <2>17, AlikeTracks
  <2>19. /\ z.err = "none" => first.err = "none" /\ Tracks(z, E \o z.out, Read(ls))
         /\ z.err = "none" /\ RowsTrack(first, E \o first.out, Read(l1)) => RowsTrack(z, E \o z.out, Read(ls))
    BY <2>15 DEF Scanned
  <2>20. s0.pending # <<>>
    BY <1>1, <1>7
  <2>21. ASSUME s2.err = "none", RowsTrack(s0, E, Reference(P)), ~DoubleCr(P2)
         PROVE  RowsTrack(s2, E \o s2.out, Reference(P2))
    <3>1. RowsTrack(u, E, R) /\ first.err = "none"
      BY <1>3, <2>12, <2>17, <2>19, <2>21 DEF R
    <3>2. RowsTrack(z, E \o z.out, Read(ls))
      BY <2>13, <2>14, <2>17, <2>19, <2>21, <3>1
    <3> QED
      BY <2>9, <2>17, <2>18, <3>2
  <2>22. s2.err = "none" => Tracks(s2, E \o s2.out, Reference(P2))
    BY <2>9, <2>17, <2>18, <2>19
  <2>23. Fed(E, s0, P, s2, P2)
    BY <2>17, <2>20, <2>21, <2>22 DEF Fed
  <2> QED
    BY <2>23 DEF s2, P2
<1> QED
  BY <1>5, <1>6, <1>7

-----------------------------------------------------------------------------
(***************************************************************************)
(* The steps                                                               *)
(***************************************************************************)
LEMMA SliceOfSlice ==
    ASSUME NEW T, NEW s \in Seq(T), NEW a \in Nat, NEW z \in a..Len(s), NEW m \in Nat, NEW n \in m..(z - a)
    PROVE  SubSeq(SubSeq(s, a + 1, z), m + 1, n) = SubSeq(s, (a + m) + 1, a + n)
<1> DEFINE u == SubSeq(s, a + 1, z)
           v == SubSeq(u, m + 1, n)
           w == SubSeq(s, (a + m) + 1, a + n)
<1>0. Len(s) \in Nat /\ z \in Nat /\ n \in Nat
  OBVIOUS
<1>1. u \in Seq(T) /\ Len(u) = z - a /\ \A i \in 1..(z - a) : u[i] = s[a + i]
  BY Slice
<1> HIDE DEF u
<1>2. v \in Seq(T) /\ Len(v) = n - m /\ \A i \in 1..(n - m) : v[i] = u[m + i]
  <2>1. n \in m..Len(u)
    BY <1>1
  <2> QED
    BY <1>1, <2>1, Slice
<1> HIDE DEF v
<1>3. w \in Seq(T) /\ Len(w) = n - m /\ \A i \in 1..(n - m) : w[i] = s[(a + m) + i]
  <2>1. a + m \in Nat /\ a + n \in (a + m)..Len(s) /\ (a + n) - (a + m) = n - m
    BY <1>0
  <2> QED
    BY <2>1, Slice
<1> HIDE DEF w
<1>4. ASSUME NEW i \in 1..(n - m) PROVE v[i] = w[i]
  <2>1. m + i \in 1..(z - a) /\ a + (m + i) = (a + m) + i
    BY <1>0
  <2> QED
    BY <1>1, <1>2, <1>3, <2>1
<1>5. v = w
  BY <1>2, <1>3, <1>4, SeqEqual
<1> QED
  BY <1>5 DEF u, v, w

(* CR CR LF in a prefix is in the whole.                                   *)
LEMMA DoubleCrPrefix ==
    ASSUME NEW b \in Seq(Bytes), NEW n \in 0..Len(b), DoubleCr(SubSeq(b, 1, n))
    PROVE  DoubleCr(b)
<1> DEFINE p == SubSeq(b, 1, n)
<1>1. Len(b) \in Nat /\ n \in Nat /\ Len(p) = n /\ \A i \in 1..n : p[i] = b[i]
  <2>1. n \in 0..Len(b) /\ 0 \in Nat /\ 0 + 1 = 1 /\ n - 0 = n /\ (\A i \in 1..n : 0 + i = i) /\ Len(b) \in Nat /\ n \in Nat
    OBVIOUS
  <2> QED
    BY <2>1, Slice
<1> HIDE DEF p
<1>2. PICK i \in 1..(Len(p) - 2) : p[i] = "cr" /\ p[i + 1] = "cr" /\ p[i + 2] = "n"
  BY DEF DoubleCr, p
<1>3. i \in 1..(Len(b) - 2) /\ i \in 1..n /\ i + 1 \in 1..n /\ i + 2 \in 1..n
  BY <1>1
<1>4. b[i] = "cr" /\ b[i + 1] = "cr" /\ b[i + 2] = "n"
  BY <1>1, <1>2, <1>3
<1> QED
  BY <1>3, <1>4 DEF DoubleCr

(* Nothing is fed at first.                                                *)
LEMMA PrefixEmpty == \A b : SubSeq(b, 1, 0) = <<>>
  BY SubSeqEmpty

(* Where the positions are.                                                *)
Placed ==
    /\ input \in Seq(Bytes) /\ Len(input) \in Nat /\ fed \in Nat /\ pos \in Nat
    /\ fed <= pos /\ pos <= Len(input)
    /\ buf = SubSeq(input, fed + 1, pos) /\ buf \in Seq(Bytes) /\ Len(buf) = pos - fed
    /\ \A i \in 1..(pos - fed) : buf[i] = input[fed + i]
    /\ target \in Nat /\ target >= Target /\ target <= MaxChunk
    /\ Target \in Nat /\ Target > 0 /\ MaxChunk \in Nat

(* Types and reader together place the buffer in the stream.               *)
LEMMA Positions == TypeOK /\ ReaderInv => Placed
<1> SUFFICES ASSUME TypeOK, ReaderInv PROVE Placed
  OBVIOUS
<1>1. input \in Seq(Bytes) /\ buf = SubSeq(input, fed + 1, pos)
  BY InputsAssumption DEF ReaderInv
<1>2. Len(input) \in Nat
  BY <1>1, LenProperties
<1>3. fed \in Nat /\ pos \in fed..Len(input) /\ pos \in Nat /\ fed <= pos /\ pos <= Len(input)
  BY <1>2 DEF TypeOK
<1>4. buf \in Seq(Bytes) /\ Len(buf) = pos - fed /\ \A i \in 1..(pos - fed) : buf[i] = input[fed + i]
  BY <1>1, <1>3, Slice
<1>5. target \in Nat /\ target >= Target /\ target <= MaxChunk /\ Target \in Nat /\ Target > 0 /\ MaxChunk \in Nat
  BY SizesAssumption DEF TypeOK
<1> QED
  BY <1>1, <1>2, <1>3, <1>4, <1>5 DEF Placed

(* The reference of an empty text.                                         *)
LEMMA ReferenceStart == Reference(<<>>) = Start
  BY CutEmpty, Reading!ResultEmpty DEF Reference, Start

(* The invariant holds at first.                                           *)
LEMMA InitInv == Init => IInv
<1> SUFFICES ASSUME Init PROVE IInv
  OBVIOUS
<1>1. input \in Inputs /\ feeder \in Feeders /\ pos = 0 /\ buf = <<>> /\ target = Target /\ eof = FALSE
        /\ sc = NewScanner /\ fed = 0 /\ events = <<>> /\ status = "reading"
  BY DEF Init
<1>2. input \in Seq(Bytes) /\ Len(input) \in Nat
  BY <1>1, InputsAssumption, LenProperties
<1>3. "none" \in Names /\ <<>> \in Seq(Bytes) /\ <<>> \in Seq(Events) /\ <<>> \in Seq(Rows) /\ Len(<<>>) = 0
  BY EmptySeq DEF Names
<1>4. NewScanner \in Scanners
  BY <1>3 DEF NewScanner, Scanners
<1>5. TypeOK
  <2>1. target \in Target..MaxChunk /\ 0 <= target
    BY <1>1, SizesAssumption
  <2> QED
    <3>1. pos \in 0..Len(input) /\ fed \in 0..pos /\ Len(buf) <= target
      BY <1>1, <1>2, <1>3, <2>1
    <3>2. sc \in Scanners /\ events \in Seq(Events) /\ eof \in BOOLEAN
      BY <1>1, <1>3, <1>4
    <3> QED
      BY <1>1, <2>1, <3>1, <3>2 DEF TypeOK
<1>6. ReaderInv
  <2>1. SubSeq(input, 0 + 1, 0) = <<>>
    BY SubSeqEmpty
  <2> QED
    BY <1>1, <2>1 DEF ReaderInv
<1>7. Bracketed(<<>>) /\ TablesOf(<<>>) = {}
  <2>1. DOMAIN <<>> = {}
    OBVIOUS
  <2>2. Bracketed(<<>>)
    BY <2>1 DEF Bracketed
  <2>3. TablesOf(<<>>) = {}
    BY <2>1 DEF TablesOf
  <2> QED
    BY <2>2, <2>3
<1>8. Start \in References /\ Start.in = "sql" /\ Start.rows = <<>>
  BY <1>3 DEF Start, References
<1>9. Tracks(NewScanner, <<>>, Start)
  <2>1. NewScanner.state = "Sql" /\ NewScanner.run = <<>> /\ ~NewScanner.skipping /\ ~NewScanner.inCreate
          /\ ~NewScanner.dumpedBy /\ NewScanner.tables = {}
    BY DEF NewScanner
  <2> QED
    BY <1>7, <1>8, <2>1, CutEmpty, TracksIs DEF Mode
<1>10. RowsTrack(NewScanner, <<>>, Start)
  <2>1. NewScanner.state = "Sql" /\ NewScanner.run = <<>>
    BY DEF NewScanner
  <2>2. <<>> = Decoded(<<>>).rows \o RowsOf(NewScanner.open, <<>>)
    <3>1. Decoded(<<>>).rows = <<>> /\ RowsOf(NewScanner.open, <<>>) = <<>>
      BY DecodedEmpty, RowsOfEmpty
    <3>2. <<>> \o <<>> = <<>>
      OBVIOUS
    <3> QED
      BY <3>1, <3>2
  <2> QED
    BY <1>8, <2>1, <2>2 DEF RowsTrack
<1>11. ScanInv
  <2>1. NewScanner.run = <<>> /\ NewScanner.err = "none" /\ NewScanner.pending = <<>>
    BY DEF NewScanner
  <2>2. SubSeq(input, 1, fed) = <<>>
    BY <1>1, PrefixEmpty
  <2> QED
    BY <1>1, <1>9, <1>10, <2>1, <2>2, CutEmpty, ReferenceStart DEF ScanInv
<1>12. ChunksAreAligned /\ OkMeansComplete /\ TooLargeIsReal /\ EventsAreBracketed
  BY <1>1, <1>7 DEF ChunksAreAligned, OkMeansComplete, TooLargeIsReal, EventsAreBracketed, NewScanner
<1> QED
  BY <1>5, <1>6, <1>11, <1>12 DEF IInv

(* Feeding a chunk that continues the bytes fed so far.                    *)
LEMMA FeedChunkStep ==
    ASSUME IInv, status = "reading", NEW n \in fed..Len(input), FeedChunk(SubSeq(input, fed + 1, n)),
           input' = input, feeder' = feeder, feeder = "reader" => sc.pending = <<>>
    PROVE  /\ fed' = n /\ sc' \in Scanners /\ events' \in Seq(Events)
           /\ sc'.pending = AfterLines(SubSeq(input, 1, n))
           /\ ScanInv' /\ EventsAreBracketed'
           /\ status' \in {"reading"} \cup ScanErrors
<1> DEFINE chunk == SubSeq(input, fed + 1, n)
           P == SubSeq(input, 1, fed)
           P2 == SubSeq(input, 1, n)
<1>1. TypeOK /\ ReaderInv /\ ScanInv /\ EventsAreBracketed
  BY DEF IInv
<1>2. input \in Seq(Bytes) /\ Len(input) \in Nat /\ fed \in Nat /\ fed <= Len(input) /\ n \in Nat /\ n <= Len(input)
  <2>1. input \in Seq(Bytes) /\ Len(input) \in Nat /\ fed \in Nat /\ pos \in Nat /\ fed <= pos /\ pos <= Len(input)
    BY <1>1, Positions DEF Placed
  <2> QED
    BY <2>1
<1>3. sc \in Scanners /\ events \in Seq(Events)
  BY <1>1 DEF TypeOK
<1>4. /\ sc.run = <<>> /\ sc.err = "none" /\ sc.pending = AfterLines(P) /\ Tracks(sc, events, Reference(P))
      /\ feeder = "reader" \/ ~DoubleCr(input) => RowsTrack(sc, events, Reference(P))
  BY <1>1 DEF ScanInv
<1>5. chunk \in Seq(Bytes) /\ Len(chunk) = n - fed
  BY <1>2, Slice
<1>6. P \in Seq(Bytes)
  <2>1. fed \in 0..Len(input) /\ 0 + 1 = 1
    BY <1>2
  <2> QED
    BY <1>2, <2>1, Slice
<1>7. P \o chunk = P2
  <2>1. 1 \in 1..(Len(input) + 1) /\ fed \in (1 - 1)..Len(input)
    BY <1>2
  <2> QED
    BY <1>2, <2>1, ConcatAdjacentSubSeq
<1>8. sc' = Feed(sc, chunk) /\ fed' = fed + Len(chunk)
        /\ events' = (IF sc'.err = "none" THEN events \o sc'.out ELSE events)
        /\ status' = (IF sc'.err = "none" THEN status ELSE sc'.err)
  BY DEF FeedChunk
<1>9. fed' = n
  BY <1>2, <1>5, <1>8
<1>10. DoubleCr(P2) => DoubleCr(input)
  <2>1. n \in 0..Len(input)
    BY <1>2
  <2> QED
    BY <1>2, <2>1, DoubleCrPrefix
<1> HIDE DEF chunk, P
<1>11. Fed(events, sc, P, sc', P2)
  BY <1>3, <1>4, <1>5, <1>6, <1>7, <1>8, FeedFollows
<1>12. SubSeq(input', 1, fed') = P2
  BY <1>9
<1> HIDE DEF P2
<1>13. sc' \in Scanners /\ sc'.run = <<>> /\ sc'.pending = AfterLines(P2)
  BY <1>11 DEF Fed
<1>14. sc'.out \in Seq(Events) /\ sc'.err \in {"none"} \cup ScanErrors
  BY <1>13, ScannerFields
<1>15. events' \in Seq(Events) /\ status' \in {"reading"} \cup ScanErrors
  <2>1. events \o sc'.out \in Seq(Events)
    BY <1>3, <1>14, ConcatProperties
  <2> QED
    BY <1>3, <1>8, <1>14, <2>1
<1>16. EventsAreBracketed'
  <2>1. CASE sc'.err = "none"
    <3>1. Tracks(sc', events', Reference(P2))
      BY <1>8, <1>11, <2>1 DEF Fed
    <3> QED
      BY <3>1, TracksIs DEF EventsAreBracketed
  <2>2. CASE sc'.err # "none"
    BY <1>1, <1>8, <2>2 DEF EventsAreBracketed
  <2> QED
    BY <2>1, <2>2
<1>17. ScanInv'
  <2> SUFFICES ASSUME status' = "reading"
               PROVE  /\ sc'.err = "none"
                      /\ Tracks(sc', events', Reference(P2))
                      /\ feeder = "reader" \/ ~DoubleCr(input) => RowsTrack(sc', events', Reference(P2))
    BY <1>12, <1>13 DEF ScanInv
  <2>1. sc'.err = "none"
    BY <1>8, <1>14 DEF ScanErrors
  <2>2. events' = events \o sc'.out
    BY <1>8, <2>1
  <2>3. Tracks(sc', events', Reference(P2))
    BY <1>11, <2>1, <2>2 DEF Fed
  <2>4. ASSUME feeder = "reader" \/ ~DoubleCr(input) PROVE RowsTrack(sc', events', Reference(P2))
    BY <1>4, <1>10, <1>11, <2>1, <2>2, <2>4 DEF Fed
  <2> QED
    BY <2>1, <2>3, <2>4
<1> QED
  BY <1>9, <1>13, <1>15, <1>16, <1>17 DEF P2

(* A read appends the next bytes of the stream, and never more than        *)
(* the target.                                                             *)
LEMMA FillStep == IInv /\ Fill => IInv'
<1> SUFFICES ASSUME IInv, Fill PROVE IInv'
  OBVIOUS
<1>1. TypeOK /\ ReaderInv /\ ScanInv /\ ChunksAreAligned /\ EventsAreBracketed
  BY DEF IInv
<1>2. status = "reading" /\ feeder = "reader" /\ Len(buf) < target /\ ~eof
        /\ UNCHANGED <<input, feeder, target, sc, fed, events>>
  BY DEF Fill
<1>3. PICK n \in Nat : /\ pos + n <= Len(input) /\ Len(buf) + n <= target
                       /\ buf' = buf \o SubSeq(input, pos + 1, pos + n) /\ pos' = pos + n
                       /\ eof' \in BOOLEAN /\ (eof' => pos' = Len(input))
                       /\ status' \in {"reading", "ReadFailed"}
  <2>p. Placed
    BY <1>1, Positions
  <2> USE <2>p DEF Placed
  <2> USE <1>1
  <2>0. eof = FALSE /\ buf \o SubSeq(input, pos + 1, pos + 0) = buf /\ pos + 0 = pos /\ 0 \in Nat /\ Len(buf) + 0 <= target
    <3>1. SubSeq(input, pos + 1, pos) = <<>>
      BY SubSeqEmpty
    <3>2. buf \o <<>> = buf
      BY ConcatEmptySeq
    <3>3. eof = FALSE
      BY <1>2 DEF TypeOK
    <3>4. pos + 0 = pos /\ Len(buf) + 0 <= target
      BY <1>2
    <3> QED
      BY <3>1, <3>2, <3>3, <3>4
  <2>1. CASE pos = Len(input) /\ eof' = TRUE /\ UNCHANGED <<pos, buf, status>>
    <3>1. /\ pos + 0 <= Len(input) /\ Len(buf) + 0 <= target
          /\ buf' = buf \o SubSeq(input, pos + 1, pos + 0) /\ pos' = pos + 0
      <4>1. buf' = buf /\ pos' = pos /\ pos <= Len(input)
        BY <2>1
      <4>2. buf' = buf \o SubSeq(input, pos + 1, pos + 0)
        BY <2>0, <4>1
      <4> QED
        BY <2>0, <4>1, <4>2
    <3>2. eof' \in BOOLEAN /\ (eof' => pos' = Len(input)) /\ status' \in {"reading", "ReadFailed"}
      BY <1>2, <2>1
    <3> QED
      BY <2>0, <3>1, <3>2
  <2>2. CASE \E n \in 1..(target - Len(buf)) :
                /\ pos + n <= Len(input)
                /\ buf' = buf \o SubSeq(input, pos + 1, pos + n)
                /\ pos' = pos + n
                /\ UNCHANGED <<eof, status>>
    <3>1. PICK n \in 1..(target - Len(buf)) :
                /\ pos + n <= Len(input)
                /\ buf' = buf \o SubSeq(input, pos + 1, pos + n)
                /\ pos' = pos + n
                /\ UNCHANGED <<eof, status>>
      BY <2>2
    <3>2. n \in Nat /\ Len(buf) + n <= target
      BY <3>1
    <3> QED
      BY <1>2, <2>0, <3>1, <3>2
  <2>3. CASE status' = "ReadFailed" /\ UNCHANGED <<pos, buf, eof>>
    BY <1>2, <2>0, <2>3
  <2> QED
    BY <2>1, <2>2, <2>3 DEF Fill
<1>4. buf' = SubSeq(input, fed + 1, pos + n) /\ Len(buf') = Len(buf) + n /\ pos + n \in 0..Len(input) /\ fed \in 0..(pos + n)
  <2>p. Placed
    BY <1>1, Positions
  <2> USE <2>p DEF Placed
  <2> USE <1>1
  <2>1. fed + 1 \in 1..(Len(input) + 1) /\ pos \in ((fed + 1) - 1)..Len(input) /\ pos + n \in pos..Len(input)
          /\ pos + n \in fed..Len(input) /\ pos + n \in 0..Len(input) /\ fed \in 0..(pos + n)
    BY <1>3
  <2>2. buf' = SubSeq(input, fed + 1, pos + n)
    BY <1>3, <2>1, ConcatAdjacentSubSeq
  <2>3. Len(SubSeq(input, fed + 1, pos + n)) = (pos + n) - fed
    BY <2>1, Slice
  <2>4. (pos + n) - fed = Len(buf) + n
    BY <1>3
  <2>5. Len(buf') = (pos + n) - fed
    BY <2>2, <2>3
  <2> QED
    BY <2>1, <2>2, <2>4, <2>5
<1>5. TypeOK'
  BY <1>1, <1>2, <1>3, <1>4 DEF TypeOK
<1>6. ReaderInv'
  BY <1>1, <1>2, <1>3, <1>4 DEF ReaderInv
<1>7. ScanInv'
  BY <1>1, <1>2 DEF ScanInv
<1>8. ChunksAreAligned' /\ EventsAreBracketed'
  BY <1>1, <1>2 DEF ChunksAreAligned, EventsAreBracketed
<1>9. OkMeansComplete' /\ TooLargeIsReal'
  BY <1>3 DEF OkMeansComplete, TooLargeIsReal
<1> QED
  BY <1>5, <1>6, <1>7, <1>8, <1>9 DEF IInv

(* A chunk handed out ends in a newline, or is the last one.               *)
LEMMA HandOutStep == IInv /\ HandOut => IInv'
<1> SUFFICES ASSUME IInv, HandOut PROVE IInv'
  OBVIOUS
<1>1. TypeOK /\ ReaderInv /\ ScanInv /\ ChunksAreAligned /\ EventsAreBracketed
  BY DEF IInv
<1>2. status = "reading" /\ feeder = "reader" /\ UNCHANGED <<input, feeder, pos, target, eof>>
  BY DEF HandOut, Filled
<1>p. Placed
  BY <1>1, Positions
<1> USE <1>p DEF Placed
<1> USE <1>1
<1>3. PICK n \in fed..pos : /\ n > fed
                            /\ FeedChunk(SubSeq(input, fed + 1, n)) /\ buf' = SubSeq(input, n + 1, pos)
                            /\ AfterLines(SubSeq(input, fed + 1, n)) = <<>> \/ n = Len(input)
  <2>1. CASE /\ LastNewline(buf) > 0
             /\ FeedChunk(SubSeq(buf, 1, LastNewline(buf)))
             /\ buf' = AfterLines(buf)
    <3> DEFINE m == LastNewline(buf)
    <3>1. Suffix(buf)
      BY LineEnds
    <3>2. m \in 0..Len(buf) /\ AfterLines(buf) = SubSeq(buf, m + 1, Len(buf)) /\ AfterLines(SubSeq(buf, 1, m)) = <<>>
      BY <3>1 DEF Suffix
    <3> HIDE DEF m
    <3>3. m \in 0..(pos - fed) /\ pos \in fed..Len(input) /\ m \in Nat /\ pos - fed \in m..(pos - fed) /\ 0 \in Nat
            /\ 0 + 1 = 1 /\ (fed + 0) + 1 = fed + 1 /\ fed + (pos - fed) = pos
      BY <3>2
    <3>4. SubSeq(buf, 1, m) = SubSeq(input, fed + 1, fed + m)
      BY <3>3, SliceOfSlice
    <3>5. SubSeq(buf, m + 1, pos - fed) = SubSeq(input, (fed + m) + 1, pos)
      BY <3>3, SliceOfSlice
    <3>6. fed + m \in fed..pos /\ fed + m > fed
      BY <2>1, <3>3 DEF m
    <3> QED
      BY <2>1, <3>2, <3>4, <3>5, <3>6 DEF m
  <2>2. CASE /\ buf # <<>>
             /\ eof
             /\ FeedChunk(buf)
             /\ buf' = <<>>
    <3>1. pos = Len(input)
      BY <2>2 DEF ReaderInv
    <3>2. Len(buf) # 0
      BY <2>2
    <3>3. pos \in fed..pos /\ pos > fed
      BY <3>2
    <3>4. SubSeq(input, pos + 1, pos) = <<>>
      BY SubSeqEmpty
    <3> QED
      BY <2>2, <3>1, <3>3, <3>4
  <2> QED
    BY <2>1, <2>2 DEF HandOut
<1>4. n \in fed..Len(input) /\ n \in Nat /\ fed < Len(input) /\ pos \in n..Len(input)
  BY <1>3
<1>5. sc.pending = <<>>
  BY <1>2, <1>4 DEF ChunksAreAligned
<1>6. /\ fed' = n /\ sc' \in Scanners /\ events' \in Seq(Events)
      /\ sc'.pending = AfterLines(SubSeq(input, 1, n))
      /\ ScanInv' /\ EventsAreBracketed'
      /\ status' \in {"reading"} \cup ScanErrors
  BY <1>2, <1>3, <1>4, <1>5, FeedChunkStep
<1>7. TypeOK'
  <2>1. Len(buf') <= target
    <3>1. Len(SubSeq(input, n + 1, pos)) = pos - n
      BY <1>4, Slice
    <3>2. Len(buf) <= target
      BY DEF TypeOK
    <3> QED
      BY <1>3, <1>4, <3>1, <3>2
  <2>2. fed' \in 0..pos' /\ pos' \in 0..Len(input')
    BY <1>2, <1>3, <1>4, <1>6
  <2>3. target' \in Target..MaxChunk /\ eof' \in BOOLEAN /\ target' = target
    BY <1>2 DEF TypeOK
  <2> QED
    BY <1>6, <2>1, <2>2, <2>3 DEF TypeOK
<1>8. ReaderInv'
  BY <1>2, <1>3, <1>6 DEF ReaderInv
<1>9. ChunksAreAligned'
  <2>1. CASE n = Len(input)
    BY <1>2, <1>6, <2>1 DEF ChunksAreAligned
  <2>2. CASE AfterLines(SubSeq(input, fed + 1, n)) = <<>>
    <3> DEFINE P == SubSeq(input, 1, fed)
               c == SubSeq(input, fed + 1, n)
    <3>1. AfterLines(P) = <<>>
      BY <1>2, <1>5 DEF ScanInv
    <3>2. 1 \in 1..(Len(input) + 1) /\ fed \in (1 - 1)..Len(input) /\ fed \in 0..Len(input) /\ 0 + 1 = 1
      BY <1>4
    <3>3. P \o c = SubSeq(input, 1, n)
      BY <1>4, <3>2, ConcatAdjacentSubSeq
    <3>4. P \in Seq(Bytes) /\ c \in Seq(Bytes)
      BY <1>4, <3>2, Slice
    <3> HIDE DEF P, c
    <3>5. AfterLines(P \o c) = AfterLines(c)
      BY <3>1, <3>4, CutConcat
    <3>6. sc'.pending = <<>>
      BY <1>6, <2>2, <3>3, <3>5 DEF c
    <3> QED
      BY <3>6 DEF ChunksAreAligned
  <2> QED
    BY <1>3, <2>1, <2>2
<1>10. OkMeansComplete' /\ TooLargeIsReal'
  BY <1>6 DEF OkMeansComplete, TooLargeIsReal, ScanErrors
<1> QED
  BY <1>6, <1>7, <1>8, <1>9, <1>10 DEF IInv

(* A full buffer without a newline doubles its target up to the ceiling.   *)
LEMMA GrowStep == IInv /\ Grow => IInv'
<1> SUFFICES ASSUME IInv, Grow PROVE IInv'
  OBVIOUS
<1>1. TypeOK /\ ReaderInv /\ ScanInv /\ ChunksAreAligned /\ EventsAreBracketed
  BY DEF IInv
<1>2. /\ status = "reading" /\ feeder = "reader" /\ Len(buf) >= target /\ LastNewline(buf) = 0
      /\ UNCHANGED <<input, feeder, pos, buf, eof, sc, fed, events>>
  BY DEF Grow, Filled
<1>3. \/ target >= MaxChunk /\ status' = "RowTooLarge" /\ target' = target
      \/ target < MaxChunk /\ status' = status /\ target' = IF target * 2 < MaxChunk THEN target * 2 ELSE MaxChunk
  BY DEF Grow
<1>p. Placed
  BY <1>1, Positions
<1> USE <1>p DEF Placed
<1> USE <1>1
<1>4. target' \in Target..MaxChunk /\ target' >= target
  BY <1>3
<1>5. TypeOK'
  <2>1. Len(buf') <= target' /\ fed' \in 0..pos' /\ pos' \in 0..Len(input')
    BY <1>2, <1>4 DEF TypeOK
  <2>2. sc' \in Scanners /\ events' \in Seq(Events) /\ eof' \in BOOLEAN
    BY <1>2 DEF TypeOK
  <2>3. status' \in {"reading", "RowTooLarge"}
    BY <1>2, <1>3
  <2> QED
    BY <1>4, <2>1, <2>2, <2>3 DEF TypeOK
<1>6. ReaderInv' /\ ChunksAreAligned' /\ EventsAreBracketed'
  BY <1>2 DEF ReaderInv, ChunksAreAligned, EventsAreBracketed
<1>7. ScanInv'
  BY <1>2 DEF ScanInv
<1>8. OkMeansComplete'
  BY <1>2, <1>3 DEF OkMeansComplete
<1>9. TooLargeIsReal'
  <2> SUFFICES ASSUME status' = "RowTooLarge"
               PROVE  \E i \in DOMAIN input : /\ i + MaxChunk - 1 <= Len(input)
                                              /\ \A j \in i..(i + MaxChunk - 1) : input[j] # "n"
    BY <1>2 DEF TooLargeIsReal
  <2>1. target >= MaxChunk
    BY <1>2, <1>3
  <2>2. Len(buf) >= MaxChunk /\ MaxChunk > 0
    BY <1>2, <2>1
  <2>3. Suffix(buf)
    BY LineEnds
  <2>4. \A i \in 1..Len(buf) : buf[i] # "n"
    <3>1. \A i \in 1..Len(buf) : i > LastNewline(buf) => buf[i] # "n"
      BY <2>3 DEF Suffix
    <3> QED
      BY <1>2, <3>1
  <2>5. fed + 1 \in DOMAIN input /\ (fed + 1) + MaxChunk - 1 <= Len(input)
    <3>1. fed + 1 \in 1..Len(input) /\ (fed + 1) + MaxChunk - 1 <= Len(input)
      BY <2>2
    <3> QED
      BY <3>1, LenProperties
  <2>6. ASSUME NEW j \in (fed + 1)..((fed + 1) + MaxChunk - 1) PROVE input[j] # "n"
    <3>1. j - fed \in 1..(pos - fed) /\ fed + (j - fed) = j
      BY <2>2
    <3>2. buf[j - fed] = input[j]
      BY <3>1
    <3>3. j - fed \in 1..Len(buf)
      BY <3>1
    <3> QED
      BY <2>4, <3>2, <3>3
  <2> QED
    BY <2>5, <2>6
<1> QED
  BY <1>5, <1>6, <1>7, <1>8, <1>9 DEF IInv

(* The end of the stream: what finish and the version say.                 *)
LEMMA EndStep ==
    ASSUME IInv, status = "reading", fed = Len(input), status' = Verdict,
           UNCHANGED <<input, feeder, pos, buf, target, eof, sc, fed, events>>
    PROVE  IInv'
<1>1. TypeOK /\ ReaderInv /\ ScanInv /\ ChunksAreAligned /\ EventsAreBracketed
  BY DEF IInv
<1>p. Placed
  BY <1>1, Positions
<1> USE <1>p DEF Placed
<1> USE <1>1
<1>2. /\ status' \in {"UnterminatedCopy", "MissingDumpVersion", "ok"}
      /\ status' = "ok" => sc.state # "Copy" /\ sc.dumpedBy
  BY DEF Verdict
<1>3. TypeOK'
  BY <1>2 DEF TypeOK
<1>4. ReaderInv' /\ ChunksAreAligned' /\ EventsAreBracketed' /\ TooLargeIsReal'
  BY <1>2 DEF ReaderInv, ChunksAreAligned, EventsAreBracketed, TooLargeIsReal
<1>5. ScanInv'
  BY <1>2 DEF ScanInv
<1>6. OkMeansComplete'
  <2> SUFFICES ASSUME status' = "ok"
               PROVE  Reference(input).in # "copy" /\ HasVersion(events)
    BY DEF OkMeansComplete, HasVersion
  <2>1. SubSeq(input, 1, fed) = input
    BY SubSeqFull
  <2>2. Tracks(sc, events, Reference(input))
    BY <2>1 DEF ScanInv
  <2>3. sc.state = "Sql" /\ sc.dumpedBy
    <3>1. sc \in Scanners
      BY DEF TypeOK
    <3> QED
      BY <1>2, <3>1, ScannerFields
  <2>4. Reference(input).in = Mode(sc) /\ HasVersion(events)
    BY <2>2, <2>3, TracksIs
  <2> QED
    BY <2>4 DEF Mode
<1> QED
  BY <1>3, <1>4, <1>5, <1>6 DEF IInv

(* next_chunk returns None only when every byte was fed.                   *)
LEMMA FinishStep == IInv /\ Finish => IInv'
<1> SUFFICES ASSUME IInv, Finish PROVE IInv'
  OBVIOUS
<1>1. TypeOK /\ ReaderInv
  BY DEF IInv
<1>2. status = "reading" /\ (Len(buf) >= target \/ eof) /\ buf = <<>> /\ status' = Verdict
        /\ UNCHANGED <<input, feeder, pos, buf, target, eof, sc, fed, events>>
  BY DEF Finish, Filled
<1>3. Len(buf) = 0 /\ eof
  BY <1>1, <1>2, Positions DEF Placed
<1>4. fed = Len(input)
  <2>1. pos = Len(input)
    BY <1>1, <1>3 DEF ReaderInv
  <2> QED
    BY <1>1, <1>3, <2>1, Positions DEF Placed
<1> QED
  BY <1>2, <1>4, EndStep

(* The same for a caller that cuts the chunks itself.                      *)
LEMMA FinishAnyStep == IInv /\ FinishAny => IInv'
  BY EndStep DEF FinishAny

(* A chunk cut anywhere.                                                   *)
LEMMA FeedAnyStep == IInv /\ FeedAny => IInv'
<1> SUFFICES ASSUME IInv, FeedAny PROVE IInv'
  OBVIOUS
<1>1. TypeOK /\ ReaderInv /\ ScanInv /\ ChunksAreAligned /\ EventsAreBracketed
  BY DEF IInv
<1>2. status = "reading" /\ feeder = "any" /\ UNCHANGED <<input, feeder, buf, target, eof>>
  BY DEF FeedAny
<1>3. PICK k \in 1..(Len(input) - fed) : FeedChunk(SubSeq(input, fed + 1, fed + k)) /\ pos' = pos + k
  BY DEF FeedAny
<1>p. Placed
  BY <1>1, Positions
<1> USE <1>p DEF Placed
<1> USE <1>1
<1>4. pos = fed
  BY <1>2 DEF ReaderInv
<1>5. fed + k \in fed..Len(input) /\ fed + k \in Nat
  BY <1>3
<1>6. /\ fed' = fed + k /\ sc' \in Scanners /\ events' \in Seq(Events)
      /\ ScanInv' /\ EventsAreBracketed'
      /\ status' \in {"reading"} \cup ScanErrors
  BY <1>2, <1>3, <1>5, FeedChunkStep
<1>7. TypeOK'
  <2>1. fed' \in 0..pos' /\ pos' \in 0..Len(input')
    <3>1. fed' = fed + k /\ pos' = fed + k /\ Len(input') = Len(input)
      BY <1>2, <1>3, <1>4, <1>6
    <3>2. fed + k \in 0..(fed + k) /\ fed + k \in 0..Len(input)
      BY <1>5
    <3> QED
      BY <3>1, <3>2
  <2>2. target' \in Target..MaxChunk /\ eof' \in BOOLEAN /\ Len(buf') <= target'
    BY <1>2 DEF TypeOK
  <2> QED
    BY <1>6, <2>1, <2>2 DEF TypeOK
<1>8. ReaderInv'
  <2>1. SubSeq(input, (fed + k) + 1, fed + k) = <<>> /\ SubSeq(input, fed + 1, fed) = <<>>
    <3>1. \A i \in Nat : i + 1 \in Int /\ i \in Int /\ i < i + 1
      OBVIOUS
    <3>2. \A i \in Nat : SubSeq(input, i + 1, i) = <<>>
      BY <3>1, SubSeqEmpty
    <3>3. fed \in Nat /\ fed + k \in Nat
      BY <1>5
    <3> QED
      BY <3>2, <3>3
  <2>2. buf' = SubSeq(input', fed' + 1, pos')
    BY <1>2, <1>3, <1>4, <1>6, <2>1
  <2>3. eof' => pos' = Len(input')
    BY <1>2, <1>3, <1>4 DEF ReaderInv
  <2>4. pos' = fed' /\ input' \in Inputs /\ feeder' \in Feeders
    BY <1>2, <1>3, <1>4, <1>6 DEF ReaderInv
  <2> QED
    BY <2>2, <2>3, <2>4 DEF ReaderInv
<1>9. ChunksAreAligned' /\ OkMeansComplete' /\ TooLargeIsReal'
  BY <1>2, <1>6 DEF ChunksAreAligned, OkMeansComplete, TooLargeIsReal, ScanErrors
<1> QED
  BY <1>6, <1>7, <1>8, <1>9 DEF IInv

-----------------------------------------------------------------------------
(***************************************************************************)
(* The theorems                                                            *)
(***************************************************************************)

(* Whatever the stream, the chunk sizes and the cuts, the scanner is where *)
(* a reader of the whole text would be.                                    *)
THEOREM Invariance == Spec => []IInv
<1>1. IInv /\ [Next]_vars => IInv'
  <2> SUFFICES ASSUME IInv, [Next]_vars PROVE IInv'
    OBVIOUS
  <2>1. CASE Next
    BY <2>1, FillStep, HandOutStep, GrowStep, FinishStep, FeedAnyStep, FinishAnyStep DEF Next
  <2>2. CASE UNCHANGED vars
    BY <2>2 DEF vars, IInv, TypeOK, ReaderInv, ScanInv, ChunksAreAligned, EventsAreBracketed,
                OkMeansComplete, TooLargeIsReal
  <2> QED
    BY <2>1, <2>2
<1> QED
  BY <1>1, InitInv, PTL DEF Spec

(* Scanner::feed and copy::rows: the rows the workers decode are the rows  *)
(* of the text read so far, wherever the chunks are cut.                   *)
THEOREM RowsAreText == Spec => []RowsAreTheText
<1>1. IInv => RowsAreTheText
  <2> SUFFICES ASSUME IInv, status = "reading", feeder = "reader" \/ ~DoubleCr(input)
               PROVE  Decoded(events).rows = Reference(SubSeq(input, 1, fed)).rows
    BY DEF RowsAreTheText
  <2> DEFINE r == Reference(SubSeq(input, 1, fed))
  <2>1. sc.run = <<>> /\ RowsTrack(sc, events, r) /\ events \in Seq(Events)
    BY DEF IInv, ScanInv, TypeOK
  <2> HIDE DEF r
  <2>2. r.rows = Decoded(events).rows \o <<>>
    BY <2>1, RowsOfEmpty DEF RowsTrack
  <2>3. Decoded(events).rows \in Seq(Rows)
    BY <2>1, DecodedType DEF Decodings
  <2>4. Decoded(events).rows \o <<>> = Decoded(events).rows
    BY <2>3, ConcatEmptySeq
  <2> QED
    BY <2>2, <2>4 DEF r
<1> QED
  BY <1>1, Invariance, PTL

(* ChunkReader::next_chunk never splits a row across two chunks.           *)
THEOREM Aligned == Spec => []ChunksAreAligned
<1>1. IInv => ChunksAreAligned
  BY DEF IInv
<1> QED
  BY <1>1, Invariance, PTL

(* The events Scanner::feed returns come bracketed, which drive relies on. *)
THEOREM Bracketing == Spec => []EventsAreBracketed
<1>1. IInv => EventsAreBracketed
  BY DEF IInv
<1> QED
  BY <1>1, Invariance, PTL

(* Scanner::finish: a truncated dump, or one without a version, never      *)
(* passes for a complete one.                                              *)
THEOREM OkIsComplete == Spec => []OkMeansComplete
<1>1. IInv => OkMeansComplete
  BY DEF IInv
<1> QED
  BY <1>1, Invariance, PTL

(* next_chunk reports RowTooLarge only for a line that fills the ceiling.  *)
THEOREM TooLarge == Spec => []TooLargeIsReal
<1>1. IInv => TooLargeIsReal
  BY DEF IInv
<1> QED
  BY <1>1, Invariance, PTL
=============================================================================
