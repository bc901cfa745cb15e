-------------------------- MODULE RowDecodeProofs --------------------------
(***************************************************************************)
(* For any loads, any bytes in the rows and any limits: what a worker has  *)
(* stored, and what its builders hold, is what each row says when nothing  *)
(* else was ever read.  The scratch buffer and its ranges, kept from row   *)
(* to row, the builders, filled over many rows and emptied when a batch is *)
(* cut, and the failures in between change none of it; batches are valid   *)
(* and bounded.                                                            *)
(***************************************************************************)
EXTENDS RowDecode, SequenceTheorems, FiniteSetTheorems, TLAPS

-----------------------------------------------------------------------------
(***************************************************************************)
(* Sequences, of whatever                                                  *)
(***************************************************************************)
(* A sequence of elements of T is one of Seq(T). *)
LEMMA AnySeq ==
    ASSUME NEW s, IsSeq(s), NEW T, \A k \in 1..Len(s) : s[k] \in T
    PROVE  s \in Seq(T)
<1>1. s \in [1..Len(s) -> T] /\ Len(s) \in Nat
  BY DEF IsSeq
<1> QED
  BY <1>1, SeqDef

(* A sequence of Seq(T) is a sequence. *)
LEMMA SeqIsSeq ==
    ASSUME NEW T, NEW s \in Seq(T)
    PROVE  IsSeq(s) /\ DOMAIN s = 1..Len(s)
  BY DEF IsSeq

(* The empty sequence. *)
LEMMA EmptyIsSeq == IsSeq(<<>>) /\ Len(<<>>) = 0 /\ DOMAIN <<>> = {}
<1>1. <<>> \in Seq({}) /\ Len(<<>>) = 0
  OBVIOUS
<1>2. IsSeq(<<>>)
  BY <1>1, SeqIsSeq
<1>3. DOMAIN <<>> = {}
  OBVIOUS
<1> QED
  BY <1>1, <1>2, <1>3

(* The indices of a sequence. *)
LEMMA DomainOfSeq ==
    ASSUME NEW s, IsSeq(s)
    PROVE  DOMAIN s = 1..Len(s) /\ Len(s) \in Nat
  BY DEF IsSeq

(* What Append makes of any sequence. *)
LEMMA AppendAny ==
    ASSUME NEW s, IsSeq(s), NEW e
    PROVE  /\ IsSeq(Append(s, e))
           /\ Len(Append(s, e)) = Len(s) + 1
           /\ \A k \in 1..Len(s) : Append(s, e)[k] = s[k]
           /\ Append(s, e)[Len(s) + 1] = e
<1> DEFINE T == {s[k] : k \in 1..Len(s)} \cup {e}
<1>1. s \in Seq(T) /\ e \in T
  BY AnySeq
<1> HIDE DEF T
<1>2. Append(s, e) \in Seq(T)
  BY <1>1
<1>3. IsSeq(Append(s, e))
  BY <1>2, SeqIsSeq
<1> QED
  BY <1>1, <1>3

(* What joining makes of any two sequences. *)
LEMMA ConcatAny ==
    ASSUME NEW s, IsSeq(s), NEW t, IsSeq(t)
    PROVE  /\ IsSeq(s \o t)
           /\ Len(s \o t) = Len(s) + Len(t)
           /\ \A k \in 1..Len(s) : (s \o t)[k] = s[k]
           /\ \A k \in 1..Len(t) : (s \o t)[Len(s) + k] = t[k]
<1> DEFINE T == {s[k] : k \in 1..Len(s)} \cup {t[k] : k \in 1..Len(t)}
<1>1. s \in Seq(T) /\ t \in Seq(T)
  BY AnySeq
<1> HIDE DEF T
<1>2. s \o t \in Seq(T) /\ Len(s) \in Nat /\ Len(t) \in Nat
  BY <1>1
<1>3. IsSeq(s \o t)
  BY <1>2, SeqIsSeq
<1>4. Len(s \o t) = Len(s) + Len(t) /\ \A k \in 1..(Len(s) + Len(t)) : (s \o t)[k] = IF k <= Len(s) THEN s[k] ELSE t[k - Len(s)]
  BY <1>1, ConcatProperties
<1>5. ASSUME NEW k \in 1..Len(t) PROVE (s \o t)[Len(s) + k] = t[k]
  <2>1. Len(s) + k \in 1..(Len(s) + Len(t)) /\ ~(Len(s) + k <= Len(s)) /\ (Len(s) + k) - Len(s) = k
    BY <1>2
  <2> QED
    BY <1>4, <2>1
<1>6. \A k \in 1..Len(s) : k \in 1..(Len(s) + Len(t)) /\ k <= Len(s)
  BY <1>2
<1> QED
  BY <1>3, <1>4, <1>5, <1>6

(* What a part of any sequence is. *)
LEMMA SubSeqAny ==
    ASSUME NEW s, IsSeq(s), NEW m \in 1..(Len(s) + 1), NEW n \in (m - 1)..Len(s)
    PROVE  /\ IsSeq(SubSeq(s, m, n))
           /\ Len(SubSeq(s, m, n)) = n - m + 1
           /\ \A k \in 1..(n - m + 1) : SubSeq(s, m, n)[k] = s[m + k - 1]
<1> DEFINE T == {s[k] : k \in 1..Len(s)}
<1>1. s \in Seq(T)
  BY AnySeq
<1> HIDE DEF T
<1>2. Len(s) \in Nat
  BY <1>1
<1>3. SubSeq(s, m, n) \in Seq(T) /\ Len(SubSeq(s, m, n)) = n - m + 1
  BY <1>1, <1>2, SubSeqProperties
<1>4. \A k \in 1..(n - m + 1) : SubSeq(s, m, n)[k] = s[m + k - 1]
  BY <1>1, <1>2, SubSeqProperties
<1> QED
  BY <1>3, <1>4, SeqIsSeq

(* Sequences of the same elements are equal. *)
LEMMA EqualAny ==
    ASSUME NEW s, IsSeq(s), NEW t, IsSeq(t), Len(s) = Len(t), \A k \in 1..Len(s) : s[k] = t[k]
    PROVE  s = t
  BY DEF IsSeq

(* A function over 1..n is a sequence of length n. *)
LEMMA MappedIsSeq ==
    ASSUME NEW n \in Nat, NEW s, s = [k \in 1..n |-> s[k]]
    PROVE  IsSeq(s) /\ Len(s) = n
<1> DEFINE T == {s[k] : k \in 1..n}
<1>1. s \in [1..n -> T]
  OBVIOUS
<1>2. s \in Seq(T)
  BY <1>1, SeqDef
<1>3. DOMAIN s = 1..n /\ DOMAIN s = 1..Len(s) /\ Len(s) \in Nat
  BY <1>1, <1>2
<1>4. Len(s) = n
  BY <1>2, <1>3
<1> QED
  BY <1>4 DEF IsSeq

-----------------------------------------------------------------------------
(***************************************************************************)
(* Bytes: what an escape and a field are                                   *)
(***************************************************************************)
(* A named escape is a byte. *)
LEMMA NamedRange == \A c \in DOMAIN Named : Named[c] \in 0..255
<1>1. DOMAIN Named = {98, 102, 110, 114, 116, 118}
  BY DEF Named
<1>2. Named[98] = 8 /\ Named[102] = 12 /\ Named[110] = 10
  BY DEF Named
<1>3. Named[114] = 13 /\ Named[116] = 9 /\ Named[118] = 11
  BY DEF Named
<1>4. ASSUME NEW c \in DOMAIN Named PROVE Named[c] \in {8, 9, 10, 11, 12, 13}
  <2>1. c = 98 \/ c = 102 \/ c = 110 \/ c = 114 \/ c = 116 \/ c = 118
    BY <1>1
  <2> QED
    BY <1>2, <1>3, <2>1
<1>5. \A n \in {8, 9, 10, 11, 12, 13} : n \in 0..255
  OBVIOUS
<1> QED
  BY <1>4, <1>5

(* Two hexadecimal digits are a byte. *)
LEMMA TwoDigits ==
    ASSUME NEW x \in 0..15, NEW y \in 0..15
    PROVE  x * 16 + y \in 0..255
  OBVIOUS

(* Three octal digits are a number. *)
LEMMA ThreeDigits ==
    ASSUME NEW x \in Nat, NEW y \in Nat, NEW z \in Nat
    PROVE  (x * 8 + y) * 8 + z \in Nat
  OBVIOUS

(* The low byte of a number is a byte. *)
LEMMA LowByte ==
    ASSUME NEW n \in Nat
    PROVE  n % 256 \in 0..255
  OBVIOUS

(* A run of digits stays within the text and the most that may be taken. *)
LEMMA RunLengthBound ==
    ASSUME NEW b \in Seq(0..255), NEW i \in 1..(Len(b) + 1), NEW S, NEW most \in {2, 3}
    PROVE  LET n == RunLength(b, i, S, most)
           IN  n \in 0..most /\ i + n - 1 <= Len(b) /\ \A j \in i..(i + n - 1) : b[j] \in S
<1> DEFINE N == {n \in 0..most : i + n - 1 <= Len(b) /\ \A j \in i..(i + n - 1) : b[j] \in S}
<1>1. Len(b) \in Nat
  OBVIOUS
<1>2. 0 \in N /\ N \subseteq 0..3
  BY <1>1
<1>3. \E n \in N : \A m \in N : n >= m
  <2> HIDE DEF N
  <2>1. CASE 3 \in N
    BY <1>2, <2>1
  <2>2. CASE 3 \notin N /\ 2 \in N
    BY <1>2, <2>2
  <2>3. CASE 3 \notin N /\ 2 \notin N /\ 1 \in N
    <3>1. \A m \in N : m = 0 \/ m = 1
      BY <1>2, <2>3
    <3>2. \A m \in N : 1 >= m
      BY <3>1
    <3> QED
      BY <2>3, <3>2
  <2>4. CASE 3 \notin N /\ 2 \notin N /\ 1 \notin N
    <3>1. \A m \in N : m = 0
      BY <1>2, <2>4
    <3> QED
      BY <1>2, <3>1
  <2> QED
    BY <2>1, <2>2, <2>3, <2>4
<1>4. RunLength(b, i, S, most) = Max(N)
  BY DEF RunLength
<1>5. Max(N) \in N
  <2> HIDE DEF N
  <2> QED
    BY <1>3 DEF Max
<1> QED
  BY <1>4, <1>5

(* The value of a digit is below its base. *)
LEMMA DigitRange ==
    /\ \A d \in HexDigits : DigitValue(d) \in 0..15
    /\ \A d \in OctalDigits : DigitValue(d) \in 0..7
  BY DEF HexDigits, OctalDigits, DigitValue, hex_val, Digits

(* An escape is a byte and a place further on, or a hex escape without digits. *)
LEMMA EscapeTyped ==
    ASSUME NEW b \in Seq(0..255), NEW i \in 1..Len(b)
    PROVE  LET e == Escape(b, i)
           IN  \/ e.err = "InvalidHexEscape"
               \/ e.err = "none" /\ e.byte \in 0..255 /\ e.after \in (i + 1)..(Len(b) + 1)
<1> DEFINE c == b[i]
           hex == RunLength(b, i + 1, HexDigits, 2)
           oct == RunLength(b, i, OctalDigits, 3)
<1>1. Len(b) \in Nat /\ c \in 0..255 /\ i \in Nat /\ i >= 1 /\ i <= Len(b)
  <2>1. b[i] \in 0..255
    BY ElementOfSeq
  <2>2. Len(b) \in Nat /\ i \in Nat /\ i >= 1 /\ i <= Len(b)
    OBVIOUS
  <2> QED
    BY <2>1, <2>2
<1>2. /\ hex \in 0..2 /\ (i + 1) + hex - 1 <= Len(b)
      /\ \A j \in (i + 1)..((i + 1) + hex - 1) : b[j] \in HexDigits
  <2>1. i + 1 \in 1..(Len(b) + 1)
    BY <1>1
  <2> QED
    BY <2>1, RunLengthBound
<1>3. oct \in 0..3 /\ i + oct - 1 <= Len(b) /\ \A j \in i..(i + oct - 1) : b[j] \in OctalDigits
  <2>1. i \in 1..(Len(b) + 1)
    BY <1>1
  <2> QED
    BY <2>1, RunLengthBound
<1>4. CASE c \in DOMAIN Named
  <2>1. Named[c] \in 0..255
    BY <1>4, NamedRange
  <2>2. Escape(b, i) = [err |-> "none", byte |-> Named[c], after |-> i + 1]
    <3>1. c # 120 /\ c \notin OctalDigits
      BY <1>4 DEF Named, OctalDigits
    <3> QED
      BY <1>4, <3>1 DEF Escape
  <2> QED
    BY <1>1, <2>1, <2>2
<1>5. CASE c = 120
  <2>0. c \notin DOMAIN Named /\ c \notin OctalDigits
    BY <1>5 DEF Named, OctalDigits
  <2>1. CASE hex = 0
    <3>1. Escape(b, i) = [err |-> "InvalidHexEscape"]
      BY <1>5, <2>0, <2>1 DEF Escape
    <3> QED
      BY <3>1
  <2>2. CASE hex > 0
    <3>1. Escape(b, i) = [err |-> "none", byte |-> Number(b, i + 1, hex, 16), after |-> i + 1 + hex]
      BY <1>5, <1>2, <2>0, <2>2 DEF Escape
    <3>2. CASE hex = 1
      <4>1. b[i + 1] \in HexDigits
        BY <1>1, <1>2, <3>2
      <4>2. Number(b, i + 1, 1, 16) = DigitValue(b[i + 1])
        BY DEF Number
      <4>3. Number(b, i + 1, 1, 16) \in 0..255
        <5>1. DigitValue(b[i + 1]) \in 0..15
          BY <4>1, DigitRange
        <5>2. \A x \in 0..15 : x \in 0..255
          OBVIOUS
        <5> QED
          BY <4>2, <5>1, <5>2
      <4> HIDE DEF hex
      <4> QED
        BY <1>1, <1>2, <3>1, <3>2, <4>3
    <3>3. CASE hex = 2
      <4>1. b[i + 1] \in HexDigits /\ b[(i + 1) + 1] \in HexDigits
        BY <1>1, <1>2, <3>3
      <4>2. Number(b, i + 1, 2, 16) = DigitValue(b[i + 1]) * 16 + DigitValue(b[(i + 1) + 1])
        BY DEF Number
      <4>3. DigitValue(b[i + 1]) \in 0..15 /\ DigitValue(b[(i + 1) + 1]) \in 0..15
        BY <4>1, DigitRange
      <4>4. Number(b, i + 1, 2, 16) \in 0..255
        BY <4>2, <4>3, TwoDigits
      <4> HIDE DEF hex
      <4> QED
        BY <1>1, <1>2, <3>1, <3>3, <4>4
    <3> QED
      BY <1>2, <2>2, <3>2, <3>3
  <2> HIDE DEF hex
  <2> QED
    BY <1>2, <2>1, <2>2
<1>6. CASE c \in OctalDigits
  <2>0. c \notin DOMAIN Named /\ c # 120
    BY <1>6 DEF Named, OctalDigits
  <2>1. Escape(b, i) = [err |-> "none", byte |-> Number(b, i, oct, 8) % 256, after |-> i + oct]
    BY <1>6, <2>0 DEF Escape
  <2>2. oct >= 1
    <3> DEFINE N == {n \in 0..3 : i + n - 1 <= Len(b) /\ \A j \in i..(i + n - 1) : b[j] \in OctalDigits}
    <3>1. 1 \in N
      BY <1>1, <1>6
    <3>2. N \subseteq 0..3
      OBVIOUS
    <3>3. oct = Max(N)
      BY DEF RunLength
    <3> HIDE DEF N
    <3>4. \E n \in N : \A m \in N : n >= m
      <4>1. CASE 3 \in N
        BY <3>2, <4>1
      <4>2. CASE 3 \notin N /\ 2 \in N
        BY <3>2, <4>2
      <4>3. CASE 3 \notin N /\ 2 \notin N
        BY <3>1, <3>2, <4>3
      <4> QED
        BY <4>1, <4>2, <4>3
    <3>5. Max(N) >= 1
      BY <3>1, <3>4 DEF Max
    <3> QED
      BY <3>3, <3>5
  <2> HIDE DEF oct
  <2>3. Number(b, i, oct, 8) \in Nat
    <3>1. CASE oct = 1
      <4>1. DigitValue(b[i]) \in 0..7
        BY <1>1, <1>3, <3>1, DigitRange
      <4> QED
        BY <3>1, <4>1 DEF Number
    <3>2. CASE oct = 2
      <4>1. DigitValue(b[i]) \in 0..7 /\ DigitValue(b[i + 1]) \in 0..7
        BY <1>1, <1>3, <3>2, DigitRange
      <4> QED
        <5>1. \A x, y \in 0..7 : x * 8 + y \in Nat
          OBVIOUS
        <5>2. Number(b, i, 2, 8) = DigitValue(b[i]) * 8 + DigitValue(b[i + 1])
          BY DEF Number
        <5> QED
          BY <3>2, <4>1, <5>1, <5>2
    <3>3. CASE oct = 3
      <4>1. DigitValue(b[i]) \in 0..7 /\ DigitValue(b[i + 1]) \in 0..7 /\ DigitValue(b[i + 2]) \in 0..7
        BY <1>1, <1>3, <3>3, DigitRange
      <4>2. Number(b, i, 3, 8) = (DigitValue(b[i]) * 8 + DigitValue(b[i + 1])) * 8 + DigitValue(b[i + 2])
        BY DEF Number
      <4>3. DigitValue(b[i]) \in Nat /\ DigitValue(b[i + 1]) \in Nat /\ DigitValue(b[i + 2]) \in Nat
        BY <4>1
      <4> QED
        BY <3>3, <4>2, <4>3, ThreeDigits
    <3> QED
      BY <1>3, <2>2, <3>1, <3>2, <3>3
  <2>4. Number(b, i, oct, 8) % 256 \in 0..255
    BY <2>3, LowByte
  <2> QED
    BY <1>1, <1>3, <2>1, <2>2, <2>4
<1>7. CASE c \notin DOMAIN Named /\ c # 120 /\ c \notin OctalDigits
  <2>1. Escape(b, i) = [err |-> "none", byte |-> c, after |-> i + 1]
    BY <1>7 DEF Escape
  <2> QED
    BY <1>1, <2>1
<1> HIDE DEF c
<1> QED
  BY <1>4, <1>5, <1>6, <1>7

(* How a field's escapes may fail. *)
EscapeErrors == {"none", "TruncatedEscape", "InvalidHexEscape"}

(* What the loop keeps: the text; a place in it; and no more bytes than it has read. *)
UnescapeOK(s, text) ==
    /\ s \in [text : {text}, err : EscapeErrors, out : Seq(0..255), i : 1..(Len(text) + 1)]
    /\ Len(s.out) < s.i

(* A turn of unescape_into keeps that. *)
LEMMA UnescapeTurnOK ==
    ASSUME NEW text \in Seq(0..255), NEW s, UnescapeOK(s, text), NEW turn
    PROVE  UnescapeOK(UnescapeTurn(s, turn), text)
<1>0. Len(text) \in Nat /\ s.text = text /\ s.i \in Nat /\ Len(s.out) \in Nat
  BY DEF UnescapeOK
<1>1. CASE s.err # "none" \/ s.i > Len(s.text)
  BY <1>1 DEF UnescapeTurn
<1>2. ASSUME s.err = "none", s.i \in 1..Len(text), NEW byte \in 0..255, NEW after \in (s.i + 1)..(Len(text) + 1)
      PROVE  UnescapeOK([s EXCEPT !.out = Append(@, byte), !.i = after], text)
  <2>1. s.out \in Seq(0..255) /\ Len(s.out) < s.i
    BY DEF UnescapeOK
  <2>2. Append(s.out, byte) \in Seq(0..255) /\ Len(Append(s.out, byte)) = Len(s.out) + 1
    BY <2>1
  <2>3. after \in 1..(Len(text) + 1) /\ Len(s.out) + 1 < after
    BY <1>0, <1>2, <2>1
  <2> QED
    BY <2>2, <2>3 DEF UnescapeOK
<1>3. ASSUME NEW e \in EscapeErrors
      PROVE  UnescapeOK([s EXCEPT !.err = e], text)
  BY DEF UnescapeOK
<1>4. CASE s.err = "none" /\ s.i <= Len(text) /\ s.text[s.i] # Backslash
  <2>1. text[s.i] \in 0..255 /\ s.i + 1 \in (s.i + 1)..(Len(text) + 1) /\ s.i \in 1..Len(text)
    <3>1. s.i + 1 \in (s.i + 1)..(Len(text) + 1) /\ s.i \in 1..Len(text)
      BY <1>0, <1>4 DEF UnescapeOK
    <3> QED
      BY <3>1, ElementOfSeq
  <2>2. UnescapeTurn(s, turn) = [s EXCEPT !.out = Append(@, text[s.i]), !.i = s.i + 1]
    BY <1>0, <1>4 DEF UnescapeTurn
  <2> QED
    BY <1>2, <1>4, <2>1, <2>2
<1>5. CASE s.err = "none" /\ s.i = Len(text) /\ s.text[s.i] = Backslash
  <2>1. UnescapeTurn(s, turn) = [s EXCEPT !.err = "TruncatedEscape"]
    BY <1>0, <1>5 DEF UnescapeTurn
  <2> QED
    BY <1>3, <2>1 DEF EscapeErrors
<1>6. CASE s.err = "none" /\ s.i < Len(text) /\ s.text[s.i] = Backslash
  <2> DEFINE e == Escape(text, s.i + 1)
  <2>1. s.i + 1 \in 1..Len(text) /\ s.i \in 1..Len(text)
    BY <1>0, <1>6 DEF UnescapeOK
  <2>2. \/ e.err = "InvalidHexEscape"
        \/ e.err = "none" /\ e.byte \in 0..255 /\ e.after \in ((s.i + 1) + 1)..(Len(text) + 1)
    BY <2>1, EscapeTyped
  <2>3. UnescapeTurn(s, turn) = IF e.err = "none" THEN [s EXCEPT !.out = Append(@, e.byte), !.i = e.after]
                                                 ELSE [s EXCEPT !.err = e.err]
    BY <1>0, <1>6 DEF UnescapeTurn
  <2> HIDE DEF e
  <2>4. CASE e.err = "none"
    <3>1. e.after \in (s.i + 1)..(Len(text) + 1) /\ e.byte \in 0..255
      BY <1>0, <2>2, <2>4
    <3> QED
      BY <1>2, <1>6, <2>1, <2>3, <2>4, <3>1
  <2>5. CASE e.err # "none"
    <3>1. e.err \in EscapeErrors
      BY <2>2, <2>5 DEF EscapeErrors
    <3> QED
      BY <1>3, <2>3, <2>5, <3>1
  <2> QED
    BY <2>4, <2>5
<1> QED
  BY <1>0, <1>1, <1>4, <1>5, <1>6

(* unescape_into gives bytes, and no more of them than the field has; it fails in two ways. *)
LEMMA UnescapeTyped ==
    ASSUME NEW text \in Seq(0..255)
    PROVE  /\ Unescape(text).out \in Seq(0..255)
           /\ Len(Unescape(text).out) <= Len(text)
           /\ Unescape(text).err \in EscapeErrors
<1> DEFINE base == [text |-> text, err |-> "none", out |-> <<>>, i |-> 1]
           A == Unescaping!After(base, text)
           S == {k \in 0..Len(text) : UnescapeOK(A[k], text)}
<1>0. Len(text) \in Nat
  OBVIOUS
<1>1. A[0] = base /\ \A k \in 1..Len(text) : A[k] = UnescapeTurn(A[k - 1], text[k])
  BY <1>0, Unescaping!AfterStep
<1>2. UnescapeOK(base, text)
  <2>1. <<>> \in Seq(0..255) /\ Len(<<>>) = 0
    OBVIOUS
  <2> QED
    BY <1>0, <2>1 DEF UnescapeOK, EscapeErrors
<1> HIDE DEF A, base
<1>3. 0 \in S
  BY <1>0, <1>1, <1>2
<1>4. ASSUME NEW k \in S, k < Len(text) PROVE k + 1 \in S
  <2>1. k + 1 \in 1..Len(text) /\ (k + 1) - 1 = k /\ k + 1 \in 0..Len(text)
    BY <1>0, <1>4
  <2>2. A[k + 1] = UnescapeTurn(A[k], text[k + 1])
    BY <1>1, <2>1
  <2>3. UnescapeOK(A[k + 1], text)
    BY <2>2, UnescapeTurnOK
  <2> QED
    BY <2>1, <2>3
<1>5. S = 0..Len(text)
  <2>1. S \subseteq 0..Len(text)
    OBVIOUS
  <2> HIDE DEF S
  <2> QED
    BY <1>0, <1>3, <1>4, <2>1, Unescaping!BoundedInduction
<1>6. UnescapeOK(A[Len(text)], text)
  BY <1>0, <1>5
<1>7. Unescape(text) = A[Len(text)]
  BY DEF Unescape, Unescaping!Result, A, base
<1>8. Len(A[Len(text)].out) \in Nat
  BY <1>6 DEF UnescapeOK
<1> QED
  BY <1>0, <1>6, <1>7, <1>8 DEF UnescapeOK

-----------------------------------------------------------------------------
(***************************************************************************)
(* A row: its fields, cut at the tabs                                      *)
(***************************************************************************)
(* States of the cutting of a row. *)
Cuts == [fields : Seq(Seq(0..255)), rest : Seq(0..255)]

(* Cut(raw)[k] is the state after k bytes. *)
LEMMA CutStep ==
    ASSUME NEW raw \in Seq(0..255)
    PROVE  /\ Cut(raw)[0] = [fields |-> <<>>, rest |-> <<>>]
           /\ \A k \in 1..Len(raw) : Cut(raw)[k] = SplitByte(Cut(raw)[k - 1], raw[k])
  BY Splitting!AfterStep DEF Cut

(* One byte more. *)
LEMMA SplitByteTyped ==
    ASSUME NEW c \in Cuts, NEW byte \in 0..255
    PROVE  SplitByte(c, byte) \in Cuts
<1>1. c.fields \in Seq(Seq(0..255)) /\ c.rest \in Seq(0..255)
  BY DEF Cuts
<1> DEFINE T == 0..255
<1>2. c.fields \in Seq(Seq(T)) /\ c.rest \in Seq(T) /\ byte \in T
  BY <1>1
<1> HIDE DEF T
<1>3. Append(c.fields, c.rest) \in Seq(Seq(T)) /\ Append(c.rest, byte) \in Seq(T) /\ <<>> \in Seq(T)
  BY <1>2, AppendProperties
<1>4. CASE byte = Tab
  BY <1>3, <1>4 DEF SplitByte, Cuts, T
<1>5. CASE byte # Tab
  <2>1. SplitByte(c, byte) = [c EXCEPT !.rest = Append(c.rest, byte)]
    BY <1>5 DEF SplitByte
  <2> QED
    BY <1>3, <2>1 DEF Cuts, T
<1> QED
  BY <1>4, <1>5

(* The cutting of a row of bytes is over fields of bytes. *)
LEMMA CutTyped ==
    ASSUME NEW raw \in Seq(0..255)
    PROVE  \A k \in 0..Len(raw) : Cut(raw)[k] \in Cuts
<1> DEFINE S == {k \in 0..Len(raw) : Cut(raw)[k] \in Cuts}
<1>0. Len(raw) \in Nat
  OBVIOUS
<1>1. 0 \in S
  <2>1. <<>> \in Seq(Seq(0..255)) /\ <<>> \in Seq(0..255)
    OBVIOUS
  <2>2. [fields |-> <<>>, rest |-> <<>>] \in Cuts
    BY <2>1, Zenon DEF Cuts
  <2>3. Cut(raw)[0] \in Cuts
    BY <2>2, CutStep
  <2> QED
    BY <1>0, <2>3
<1>2. ASSUME NEW k \in S, k < Len(raw) PROVE k + 1 \in S
  <2>1. k + 1 \in 1..Len(raw) /\ (k + 1) - 1 = k /\ k + 1 \in 0..Len(raw)
    BY <1>0, <1>2
  <2>2. Cut(raw)[k + 1] = SplitByte(Cut(raw)[k], raw[k + 1])
    BY <2>1, CutStep
  <2>3. raw[k + 1] \in 0..255
    BY <2>1, ElementOfSeq
  <2>4. Cut(raw)[k + 1] \in Cuts
    BY <2>2, <2>3, SplitByteTyped
  <2> QED
    BY <2>1, <2>4
<1>3. S \subseteq 0..Len(raw)
  OBVIOUS
<1>4. S = 0..Len(raw)
  <2> HIDE DEF S
  <2> QED
    BY <1>0, <1>1, <1>2, <1>3, Splitting!BoundedInduction
<1> QED
  BY <1>4

(* The bytes between two tabs are the rest at the second. *)
LEMMA CutRun ==
    ASSUME NEW raw \in Seq(0..255), NEW p \in 1..(Len(raw) + 1), NEW e \in (p - 1)..Len(raw),
           \A j \in p..e : raw[j] # Tab,
           Cut(raw)[p - 1].rest = <<>>
    PROVE  /\ Cut(raw)[e].fields = Cut(raw)[p - 1].fields
           /\ Cut(raw)[e].rest = SubSeq(raw, p, e)
<1> DEFINE S == {n \in 0..(e - p + 1) : /\ Cut(raw)[p - 1 + n].fields = Cut(raw)[p - 1].fields
                                        /\ Cut(raw)[p - 1 + n].rest = SubSeq(raw, p, p - 1 + n)}
<1>0. Len(raw) \in Nat /\ p \in Nat /\ e \in Nat /\ e - p + 1 \in Nat /\ p >= 1
  OBVIOUS
<1>1. 0 \in S
  <2>1. SubSeq(raw, p, p - 1) = <<>>
    BY <1>0
  <2>2. p - 1 + 0 = p - 1 /\ 0 \in 0..(e - p + 1)
    BY <1>0
  <2>3. ASSUME NEW q, q = p - 1
        PROVE  Cut(raw)[q].fields = Cut(raw)[p - 1].fields /\ Cut(raw)[q].rest = SubSeq(raw, p, q)
    BY <2>1, <2>3
  <2>4. Cut(raw)[p - 1 + 0].fields = Cut(raw)[p - 1].fields /\ Cut(raw)[p - 1 + 0].rest = SubSeq(raw, p, p - 1 + 0)
    BY <2>2, <2>3
  <2> QED
    BY <2>2, <2>4
<1>2. ASSUME NEW n \in S, n < e - p + 1 PROVE n + 1 \in S
  <2> DEFINE k == p - 1 + n
  <2>1. k + 1 \in 1..Len(raw) /\ k + 1 \in p..e /\ (k + 1) - 1 = k /\ k \in 0..Len(raw) /\ p - 1 + (n + 1) = k + 1
        /\ n + 1 \in 0..(e - p + 1)
    BY <1>0, <1>2
  <2>2. Cut(raw)[k].fields = Cut(raw)[p - 1].fields /\ Cut(raw)[k].rest = SubSeq(raw, p, k)
    OBVIOUS
  <2>2a. n \in Nat
    BY <1>0
  <2> HIDE DEF k
  <2>3. Cut(raw)[k + 1] = SplitByte(Cut(raw)[k], raw[k + 1])
    BY <2>1, CutStep
  <2>4. raw[k + 1] # Tab
    BY <2>1
  <2>5. Cut(raw)[k] \in Cuts
    BY <2>1, CutTyped
  <2>6. Cut(raw)[k + 1].fields = Cut(raw)[k].fields /\ Cut(raw)[k + 1].rest = Append(Cut(raw)[k].rest, raw[k + 1])
    BY <2>3, <2>4, <2>5 DEF SplitByte, Cuts
  <2>7. SubSeq(raw, p, k + 1) = Append(SubSeq(raw, p, k), raw[k + 1])
    <3>1. IsSeq(raw) /\ Len(raw) \in Nat
      BY SeqIsSeq
    <3>2. p \in 1..(Len(raw) + 1) /\ k \in (p - 1)..Len(raw) /\ k + 1 \in (p - 1)..Len(raw)
      BY <1>0, <2>1, <2>2a DEF k
    <3>3. /\ IsSeq(SubSeq(raw, p, k)) /\ Len(SubSeq(raw, p, k)) = k - p + 1
          /\ \A j \in 1..(k - p + 1) : SubSeq(raw, p, k)[j] = raw[p + j - 1]
      BY <3>1, <3>2, SubSeqAny
    <3>4. /\ IsSeq(SubSeq(raw, p, k + 1)) /\ Len(SubSeq(raw, p, k + 1)) = (k + 1) - p + 1
          /\ \A j \in 1..((k + 1) - p + 1) : SubSeq(raw, p, k + 1)[j] = raw[p + j - 1]
      BY <3>1, <3>2, SubSeqAny
    <3> DEFINE a == SubSeq(raw, p, k)
               b == SubSeq(raw, p, k + 1)
               c == Append(a, raw[k + 1])
    <3>50. IsSeq(a)
      BY <3>3
    <3> HIDE DEF a, b
    <3>5. IsSeq(c) /\ Len(c) = Len(a) + 1 /\ (\A j \in 1..Len(a) : c[j] = a[j]) /\ c[Len(a) + 1] = raw[k + 1]
      BY <3>50, AppendAny
    <3> HIDE DEF c
    <3>6. k \in Nat /\ k - p + 1 \in Nat /\ (k - p + 1) + 1 = (k + 1) - p + 1
      BY <1>0, <3>2
    <3>7. Len(b) = Len(c)
      BY <3>3, <3>4, <3>5, <3>6 DEF a, b
    <3>8. ASSUME NEW j \in 1..Len(b) PROVE b[j] = c[j]
      <4>1. CASE j \in 1..(k - p + 1)
        BY <3>3, <3>4, <3>5, <3>6, <4>1 DEF a, b
      <4>2. CASE j = (k - p + 1) + 1
        <5>1. p + j - 1 = k + 1
          BY <1>0, <3>6, <4>2
        <5> QED
          BY <3>3, <3>4, <3>5, <3>6, <4>2, <5>1 DEF a, b
      <4>3. j \in 1..((k - p + 1) + 1)
        BY <3>4, <3>6 DEF b
      <4>4. \A m \in Nat : j \in 1..(m + 1) => j \in 1..m \/ j = m + 1
        OBVIOUS
      <4> QED
        BY <3>6, <4>1, <4>2, <4>3, <4>4
    <3>9. b = c
      BY <3>4, <3>5, <3>7, <3>8, EqualAny DEF b
    <3> QED
      BY <3>9 DEF a, b, c
  <2> QED
    BY <2>1, <2>2, <2>6, <2>7
<1>3. S \subseteq 0..(e - p + 1)
  OBVIOUS
<1>4. S = 0..(e - p + 1)
  <2> HIDE DEF S
  <2> QED
    BY <1>0, <1>1, <1>2, <1>3, Splitting!BoundedInduction
<1>5. e - p + 1 \in 0..(e - p + 1) /\ p - 1 + (e - p + 1) = e
  BY <1>0
<1>6. e - p + 1 \in S
  <2> HIDE DEF S
  <2> QED
    BY <1>4, <1>5
<1> QED
  BY <1>5, <1>6

(* Fields that are complete stay. *)
LEMMA CutKeeps ==
    ASSUME NEW raw \in Seq(0..255), NEW k \in 0..Len(raw)
    PROVE  \A m \in k..Len(raw) :
              /\ Len(Cut(raw)[k].fields) <= Len(Cut(raw)[m].fields)
              /\ \A j \in 1..Len(Cut(raw)[k].fields) : Cut(raw)[m].fields[j] = Cut(raw)[k].fields[j]
<1> DEFINE P(m) == /\ Len(Cut(raw)[k].fields) <= Len(Cut(raw)[m].fields)
                   /\ \A j \in 1..Len(Cut(raw)[k].fields) : Cut(raw)[m].fields[j] = Cut(raw)[k].fields[j]
           S == {n \in 0..(Len(raw) - k) : P(k + n)}
<1>0. Len(raw) \in Nat /\ k \in Nat /\ Len(raw) - k \in Nat
  OBVIOUS
<1>00. \A m \in 0..Len(raw) : Cut(raw)[m].fields \in Seq(Seq(0..255)) /\ Len(Cut(raw)[m].fields) \in Nat
  BY CutTyped DEF Cuts
<1>1. 0 \in S
  <2>1. k + 0 = k
    BY <1>0
  <2>2. P(k)
    BY <1>0, <1>00
  <2> HIDE DEF P
  <2> QED
    BY <1>0, <2>1, <2>2
<1>2. ASSUME NEW n \in S, n < Len(raw) - k PROVE n + 1 \in S
  <2> DEFINE m == k + n
  <2>1. m \in 0..Len(raw) /\ m + 1 \in 1..Len(raw) /\ (m + 1) - 1 = m /\ k + (n + 1) = m + 1 /\ n + 1 \in 0..(Len(raw) - k)
    BY <1>0, <1>2
  <2>2. P(m)
    OBVIOUS
  <2> HIDE DEF m
  <2>3. Cut(raw)[m + 1] = SplitByte(Cut(raw)[m], raw[m + 1])
    BY <2>1, CutStep
  <2> DEFINE c == Cut(raw)[m]
  <2>4. c \in Cuts /\ IsSeq(c.fields) /\ Len(c.fields) \in Nat
    <3>1. c \in Cuts
      BY <2>1, CutTyped
    <3>2. c.fields \in Seq(Seq(0..255))
      BY <3>1 DEF Cuts
    <3> QED
      BY <3>1, <3>2, SeqIsSeq
  <2>5. Cut(raw)[m + 1].fields = c.fields \/ Cut(raw)[m + 1].fields = Append(c.fields, c.rest)
    BY <2>3, <2>4 DEF SplitByte, Cuts
  <2>6. P(m + 1)
    <3>1. CASE Cut(raw)[m + 1].fields = c.fields
      BY <2>2, <3>1
    <3>2. CASE Cut(raw)[m + 1].fields = Append(c.fields, c.rest)
      <4>1. Len(Append(c.fields, c.rest)) = Len(c.fields) + 1
            /\ \A j \in 1..Len(c.fields) : Append(c.fields, c.rest)[j] = c.fields[j]
        BY <2>4, AppendAny
      <4>2. Len(Cut(raw)[k].fields) \in Nat
        BY <1>00
      <4> QED
        BY <2>2, <2>4, <3>2, <4>1, <4>2
    <3> QED
      BY <2>5, <3>1, <3>2
  <2> HIDE DEF P
  <2> QED
    BY <2>1, <2>6
<1>3. S \subseteq 0..(Len(raw) - k)
  OBVIOUS
<1>4. S = 0..(Len(raw) - k)
  <2> HIDE DEF S
  <2> QED
    BY <1>0, <1>1, <1>2, <1>3, Splitting!BoundedInduction
<1>5. ASSUME NEW m \in k..Len(raw) PROVE P(m)
  <2>1. m - k \in S /\ k + (m - k) = m
    <3> HIDE DEF S
    <3> QED
      BY <1>0, <1>4
  <2> HIDE DEF P
  <2> QED
    BY <2>1
<1> QED
  BY <1>5

(* The fields of a row of bytes are of bytes. *)
LEMMA FieldsTyped ==
    ASSUME NEW raw \in Seq(0..255)
    PROVE  /\ Fields(raw) \in Seq(Seq(0..255))
           /\ Len(Fields(raw)) \in Nat
<1>1. Len(raw) \in 0..Len(raw)
  OBVIOUS
<1> DEFINE c == Cut(raw)[Len(raw)]
           T == Seq(0..255)
<1>2. c \in Cuts
  BY <1>1, CutTyped
<1>3. c.fields \in Seq(T) /\ c.rest \in T
  BY <1>2 DEF Cuts
<1> HIDE DEF c, T
<1>4. Append(c.fields, c.rest) \in Seq(T)
  BY <1>3
<1> QED
  BY <1>4 DEF Fields, c, T

(* What is complete after k bytes are the first fields of the row, and there is one more at least. *)
LEMMA FieldsKeep ==
    ASSUME NEW raw \in Seq(0..255), NEW k \in 0..Len(raw)
    PROVE  /\ Len(Fields(raw)) > Len(Cut(raw)[k].fields)
           /\ \A j \in 1..Len(Cut(raw)[k].fields) : Fields(raw)[j] = Cut(raw)[k].fields[j]
<1> DEFINE c == Cut(raw)[Len(raw)]
           d == Cut(raw)[k]
<1>1. Len(raw) \in k..Len(raw) /\ Len(raw) \in 0..Len(raw)
  OBVIOUS
<1>2. IsSeq(c.fields) /\ Len(c.fields) \in Nat /\ Len(d.fields) \in Nat
  <2>1. c \in Cuts /\ d \in Cuts
    BY <1>1, CutTyped
  <2>2. c.fields \in Seq(Seq(0..255)) /\ d.fields \in Seq(Seq(0..255))
    BY <2>1 DEF Cuts
  <2> QED
    BY <2>2, SeqIsSeq
<1>3. Len(d.fields) <= Len(c.fields) /\ \A j \in 1..Len(d.fields) : c.fields[j] = d.fields[j]
  BY <1>1, CutKeeps
<1>4. Fields(raw) = Append(c.fields, c.rest)
  BY DEF Fields
<1>5. Len(Fields(raw)) = Len(c.fields) + 1 /\ \A j \in 1..Len(c.fields) : Fields(raw)[j] = c.fields[j]
  BY <1>2, <1>4, AppendAny
<1> HIDE DEF c, d
<1>6. \A j \in 1..Len(d.fields) : j \in 1..Len(c.fields)
  BY <1>2, <1>3
<1>7. Len(Fields(raw)) > Len(d.fields)
  BY <1>2, <1>3, <1>5
<1> QED
  BY <1>3, <1>5, <1>6, <1>7 DEF d

-----------------------------------------------------------------------------
(***************************************************************************)
(* Scalars: what a value is read as, and where it is put                   *)
(***************************************************************************)
NonUtf8 == [Bad EXCEPT !.err = "NonUtf8Text"]
(* What a value parser may return. *)
IsParsed(p) == p = Bad \/ p = NonUtf8 \/ p = NotRepresentable \/ \E x : p = Some(x)

(* An integer, or an error. *)
LEMMA ParseInt == ASSUME NEW v, NEW width PROVE IsParsed(parse_int(v, width))
  BY DEF parse_int, IsParsed
(* A float, or an error. *)
LEMMA ParseFloat == ASSUME NEW v PROVE IsParsed(parse_float(v))
  BY DEF parse_float, IsParsed
(* A boolean, or an error. *)
LEMMA ParseBool == ASSUME NEW v PROVE IsParsed(parse_bool(v))
  BY DEF parse_bool, IsParsed
(* A decimal, NULL in place of NaN, or an error. *)
LEMMA ParseDecimal == ASSUME NEW v, NEW p, NEW s PROVE IsParsed(parse_decimal(v, p, s))
  BY DEF parse_decimal, IsParsed
(* A date, NULL in place of an infinite one, or an error. *)
LEMMA ParseDate == ASSUME NEW v PROVE IsParsed(parse_date(v))
  BY DEF parse_date, IsParsed
(* A timestamp, NULL in place of one beyond an i64, or an error. *)
LEMMA ParseTimestamp == ASSUME NEW v, NEW tz PROVE IsParsed(parse_timestamp(v, tz))
  BY DEF parse_timestamp, IsParsed
(* A time, or an error. *)
LEMMA ParseTime == ASSUME NEW v PROVE IsParsed(parse_time(v))
  BY DEF parse_time, IsParsed
(* Bytes, or an error. *)
LEMMA ParseBytea == ASSUME NEW v PROVE IsParsed(parse_bytea(v))
  BY DEF parse_bytea, HexBytes, IsParsed

(* The kinds of builders that are no lists. *)
ScalarKinds == {"Int", "Float", "Decimal", "Boolean", "Date", "Timestamp", "Time", "Binary", "Utf8"}

(* A builder of scalars: a record with what its kind needs. *)
IsScalar(b) ==
    /\ b = [x \in DOMAIN b |-> b[x]]
    /\ "kind" \in DOMAIN b /\ "vals" \in DOMAIN b
    /\ b.kind \in ScalarKinds
    /\ b.kind \in {"Int", "Float"} => "width" \in DOMAIN b
    /\ b.kind = "Decimal" => "precision" \in DOMAIN b /\ "scale" \in DOMAIN b
    /\ b.kind = "Timestamp" => "tz" \in DOMAIN b

(* The builder with the values s. *)
With(b, s) == [b EXCEPT !.vals = s]

(* Other values change nothing else of a builder. *)
LEMMA WithScalar ==
    ASSUME NEW b, IsScalar(b), NEW s
    PROVE  /\ IsScalar(With(b, s))
           /\ With(b, s).vals = s
           /\ With(b, s).kind = b.kind
           /\ With(b, b.vals) = b
           /\ \A t : With(With(b, s), t) = With(b, t)
           /\ \A t : [With(b, s) EXCEPT !.vals = Append(@, t)] = With(b, Append(s, t))
           /\ b.kind \in {"Int", "Float"} => With(b, s).width = b.width
           /\ b.kind = "Decimal" => With(b, s).precision = b.precision /\ With(b, s).scale = b.scale
           /\ b.kind = "Timestamp" => With(b, s).tz = b.tz
<1>1. /\ DOMAIN With(b, s) = DOMAIN b
      /\ With(b, s) = [x \in DOMAIN b |-> IF x = "vals" THEN s ELSE b[x]]
  BY DEF With
<1>2. With(b, s).vals = s /\ With(b, s).kind = b.kind
  BY <1>1 DEF IsScalar
<1>3. /\ b.kind \in {"Int", "Float"} => With(b, s).width = b.width
      /\ b.kind = "Decimal" => With(b, s).precision = b.precision /\ With(b, s).scale = b.scale
      /\ b.kind = "Timestamp" => With(b, s).tz = b.tz
  BY <1>1 DEF IsScalar
<1>4. IsScalar(With(b, s))
  BY <1>1, <1>2 DEF IsScalar
<1>5. With(b, b.vals) = b
  BY DEF With, IsScalar
<1>6. ASSUME NEW t PROVE With(With(b, s), t) = With(b, t)
  BY <1>1 DEF With, IsScalar
<1>7. ASSUME NEW t PROVE [With(b, s) EXCEPT !.vals = Append(@, t)] = With(b, Append(s, t))
  <2>1. [With(b, s) EXCEPT !.vals = Append(@, t)] = With(With(b, s), Append(With(b, s).vals, t))
    BY DEF With
  <2> QED
    BY <1>2, <1>6, <2>1
<1> QED
  BY <1>2, <1>3, <1>4, <1>5, <1>6, <1>7

(* What a builder reads a value as. *)
ParsedBy(b, v) == IF v = Null THEN Some(Null) ELSE ParseScalar(b, v)

(* How a value is read does not depend on the values held. *)
LEMMA ParsedByScalar ==
    ASSUME NEW b, IsScalar(b), NEW v
    PROVE  /\ IsParsed(ParsedBy(b, v))
           /\ \A s : ParsedBy(With(b, s), v) = ParsedBy(b, v)
<1>0. b.kind \in ScalarKinds
  BY DEF IsScalar
<1>1. IsParsed(Some(Null))
  BY DEF IsParsed
<1>2. IsParsed(ParseScalar(b, v))
  <2>1. CASE b.kind = "Int"
    BY <2>1, ParseInt DEF ParseScalar
  <2>2. CASE b.kind = "Float"
    BY <2>2, ParseFloat DEF ParseScalar
  <2>3. CASE b.kind = "Decimal"
    BY <2>3, ParseDecimal DEF ParseScalar
  <2>4. CASE b.kind = "Boolean"
    BY <2>4, ParseBool DEF ParseScalar
  <2>5. CASE b.kind = "Date"
    BY <2>5, ParseDate DEF ParseScalar
  <2>6. CASE b.kind = "Timestamp"
    BY <2>6, ParseTimestamp DEF ParseScalar
  <2>7. CASE b.kind = "Time"
    BY <2>7, ParseTime DEF ParseScalar
  <2>8. CASE b.kind = "Binary"
    BY <2>8, ParseBytea DEF ParseScalar
  <2>9. CASE b.kind = "Utf8"
    BY <2>9 DEF ParseScalar, IsParsed, NonUtf8
  <2> QED
    BY <1>0, <2>1, <2>2, <2>3, <2>4, <2>5, <2>6, <2>7, <2>8, <2>9 DEF ScalarKinds
<1>3. ASSUME NEW s PROVE ParseScalar(With(b, s), v) = ParseScalar(b, v)
  <2> DEFINE c == With(b, s)
  <2>0. c.kind = b.kind
        /\ (b.kind \in {"Int", "Float"} => c.width = b.width)
        /\ (b.kind = "Decimal" => c.precision = b.precision /\ c.scale = b.scale)
        /\ (b.kind = "Timestamp" => c.tz = b.tz)
    BY WithScalar
  <2> SUFFICES ParseScalar(c, v) = ParseScalar(b, v)
    OBVIOUS
  <2> HIDE DEF c
  <2>1. CASE b.kind = "Int"
    BY <2>0, <2>1 DEF ParseScalar
  <2>2. CASE b.kind = "Float"
    BY <2>0, <2>2 DEF ParseScalar
  <2>3. CASE b.kind = "Decimal"
    BY <2>0, <2>3 DEF ParseScalar
  <2>4. CASE b.kind = "Boolean"
    BY <2>0, <2>4 DEF ParseScalar
  <2>5. CASE b.kind = "Date"
    BY <2>0, <2>5 DEF ParseScalar
  <2>6. CASE b.kind = "Timestamp"
    BY <2>0, <2>6 DEF ParseScalar
  <2>7. CASE b.kind = "Time"
    BY <2>0, <2>7 DEF ParseScalar
  <2>8. CASE b.kind = "Binary"
    BY <2>0, <2>8 DEF ParseScalar
  <2>9. CASE b.kind = "Utf8"
    BY <2>0, <2>9 DEF ParseScalar
  <2> QED
    BY <1>0, <2>1, <2>2, <2>3, <2>4, <2>5, <2>6, <2>7, <2>8, <2>9 DEF ScalarKinds
<1> QED
  BY <1>1, <1>2, <1>3 DEF ParsedBy

(* How a value may fail. *)
ValueErrors == {"none", "UnparsableValue", "NonUtf8Text"}

(* The error and the substitution of what was read. *)
LEMMA ParsedTyped ==
    ASSUME NEW p, IsParsed(p)
    PROVE  p.err \in ValueErrors /\ p.subst \in BOOLEAN
<1>1. CASE p = Bad
  BY <1>1 DEF Bad, ValueErrors
<1>3. CASE p = NonUtf8
  <2>1. NonUtf8.err = "NonUtf8Text"
    BY DEF NonUtf8, Bad
  <2>2. NonUtf8.subst = Bad.subst
    BY DEF NonUtf8, Bad
  <2>3. Bad.subst = FALSE
    BY DEF Bad
  <2> QED
    BY <1>3, <2>1, <2>2, <2>3 DEF ValueErrors
<1>4. CASE p = NotRepresentable
  BY <1>4 DEF NotRepresentable, ValueErrors
<1>2. CASE \E x : p = Some(x)
  BY <1>2 DEF Some, ValueErrors
<1> QED
  BY <1>1, <1>2, <1>3, <1>4 DEF IsParsed

(* A value is read the same whatever the builder holds, and becomes its last entry. *)
LEMMA AppendScalarShape ==
    ASSUME NEW b, IsScalar(b), NEW s, NEW v
    PROVE  LET p == ParsedBy(b, v)
           IN  /\ AppendScalar(With(b, s), v) =
                      [err |-> p.err, subst |-> p.subst, builder |-> With(b, Append(s, p.stored))]
               /\ p.err \in ValueErrors /\ p.subst \in BOOLEAN
<1> DEFINE p == ParsedBy(b, v)
           c == With(b, s)
<1>1. ParsedBy(c, v) = p /\ IsParsed(p)
  BY ParsedByScalar
<1>2. [c EXCEPT !.vals = Append(@, p.stored)] = With(b, Append(s, p.stored))
  <2>1. \A t : [With(b, s) EXCEPT !.vals = Append(@, t)] = With(b, Append(s, t))
    BY WithScalar
  <2> QED
    BY <2>1
<1>3. p.err \in ValueErrors /\ p.subst \in BOOLEAN
  BY <1>1, ParsedTyped
<1>4. (IF v = Null THEN Some(Null) ELSE ParseScalar(c, v)) = p
  BY <1>1 DEF ParsedBy
<1> HIDE DEF p, c
<1>5. AppendScalar(c, v) = [err |-> p.err, subst |-> p.subst, builder |-> [c EXCEPT !.vals = Append(@, p.stored)]]
  BY <1>4 DEF AppendScalar
<1> QED
  BY <1>2, <1>3, <1>5 DEF p, c

-----------------------------------------------------------------------------
(***************************************************************************)
(* Elements of a list                                                      *)
(***************************************************************************)
(* One more element of the second of two joined sequences. *)
LEMMA ConcatAppend ==
    ASSUME NEW w, IsSeq(w), NEW u, IsSeq(u), NEW x
    PROVE  w \o Append(u, x) = Append(w \o u, x)
<1> DEFINE a == Append(u, x)
           l == w \o a
           c == w \o u
           r == Append(c, x)
<1>0. Len(w) \in Nat /\ Len(u) \in Nat
  BY DomainOfSeq
<1>1. IsSeq(a) /\ Len(a) = Len(u) + 1 /\ (\A k \in 1..Len(u) : a[k] = u[k]) /\ a[Len(u) + 1] = x
  BY AppendAny
<1> HIDE DEF a
<1>11. IsSeq(a)
  BY <1>1
<1>2. IsSeq(l) /\ Len(l) = Len(w) + Len(a) /\ (\A k \in 1..Len(w) : l[k] = w[k]) /\ \A k \in 1..Len(a) : l[Len(w) + k] = a[k]
  <2>1. \A t : IsSeq(t) => /\ IsSeq(w \o t)
                           /\ Len(w \o t) = Len(w) + Len(t)
                           /\ \A k \in 1..Len(w) : (w \o t)[k] = w[k]
                           /\ \A k \in 1..Len(t) : (w \o t)[Len(w) + k] = t[k]
    BY ConcatAny
  <2> QED
    BY <1>11, <2>1
<1>3. IsSeq(c) /\ Len(c) = Len(w) + Len(u) /\ (\A k \in 1..Len(w) : c[k] = w[k]) /\ \A k \in 1..Len(u) : c[Len(w) + k] = u[k]
  BY ConcatAny
<1> HIDE DEF l, c
<1>4. IsSeq(r) /\ Len(r) = Len(c) + 1 /\ (\A k \in 1..Len(c) : r[k] = c[k]) /\ r[Len(c) + 1] = x
  BY <1>3, AppendAny
<1> HIDE DEF r
<1>5. ASSUME NEW k \in 1..Len(l) PROVE l[k] = r[k]
  <2>1. CASE k \in 1..Len(w)
    <3>1. k \in 1..Len(c)
      BY <1>0, <1>3, <2>1
    <3> QED
      BY <1>2, <1>3, <1>4, <2>1, <3>1
  <2>2. CASE k - Len(w) \in 1..Len(u)
    <3> DEFINE j == k - Len(w)
    <3>1. j \in 1..Len(a) /\ Len(w) + j = k /\ k \in 1..Len(c) /\ j \in 1..Len(u)
      BY <1>0, <1>1, <1>2, <1>3, <2>2
    <3> HIDE DEF j
    <3>2. l[k] = a[j] /\ a[j] = u[j] /\ r[k] = c[k] /\ c[k] = u[j]
      BY <1>1, <1>2, <1>3, <1>4, <3>1
    <3> QED
      BY <3>2
  <2>3. CASE k = Len(w) + (Len(u) + 1)
    <3>1. Len(u) + 1 \in 1..Len(a) /\ Len(c) + 1 = k
      BY <1>0, <1>1, <1>3, <2>3
    <3>2. l[k] = a[Len(u) + 1]
      BY <1>2, <2>3, <3>1
    <3> QED
      BY <1>1, <1>4, <3>1, <3>2
  <2>4. ASSUME NEW p \in Nat, NEW q \in Nat, k \in 1..(p + (q + 1))
        PROVE  k \in 1..p \/ k - p \in 1..q \/ k = p + (q + 1)
    BY <2>4
  <2>5. Len(l) = Len(w) + (Len(u) + 1)
    BY <1>1, <1>2
  <2> QED
    BY <1>0, <2>1, <2>2, <2>3, <2>4, <2>5
<1>6. Len(l) = Len(r)
  BY <1>0, <1>1, <1>2, <1>3, <1>4
<1>7. l = r
  BY <1>2, <1>4, <1>5, <1>6, EqualAny
<1> QED
  BY <1>7 DEF l, r, a, c

(* Joining nothing. *)
LEMMA ConcatEmpty ==
    ASSUME NEW w, IsSeq(w)
    PROVE  w \o <<>> = w /\ <<>> \o w = w
<1>1. w \in Seq({w[k] : k \in 1..Len(w)})
  BY AnySeq
<1> QED
  BY <1>1, ConcatEmptySeq

(* The part of a joined sequence that is its second half, and a part of the first. *)
LEMMA SubSeqOfConcat ==
    ASSUME NEW w, IsSeq(w), NEW u, IsSeq(u)
    PROVE  /\ SubSeq(w \o u, Len(w) + 1, Len(w) + Len(u)) = u
           /\ \A m \in 1..(Len(w) + 1) : \A n \in (m - 1)..Len(w) : SubSeq(w \o u, m, n) = SubSeq(w, m, n)
<1> DEFINE c == w \o u
<1>0. Len(w) \in Nat /\ Len(u) \in Nat
  BY DomainOfSeq
<1>1. IsSeq(c) /\ Len(c) = Len(w) + Len(u) /\ (\A k \in 1..Len(w) : c[k] = w[k]) /\ \A k \in 1..Len(u) : c[Len(w) + k] = u[k]
  BY ConcatAny
<1> SUFFICES /\ SubSeq(c, Len(w) + 1, Len(w) + Len(u)) = u
             /\ \A m \in 1..(Len(w) + 1) : \A n \in (m - 1)..Len(w) : SubSeq(c, m, n) = SubSeq(w, m, n)
  OBVIOUS
<1> HIDE DEF c
<1>2. SubSeq(c, Len(w) + 1, Len(w) + Len(u)) = u
  <2> DEFINE m == Len(w) + 1
             n == Len(w) + Len(u)
             d == SubSeq(c, m, n)
  <2>1. m \in 1..(Len(c) + 1) /\ n \in (m - 1)..Len(c) /\ n - m + 1 = Len(u)
    BY <1>0, <1>1
  <2>2. IsSeq(d) /\ Len(d) = n - m + 1 /\ \A k \in 1..(n - m + 1) : d[k] = c[m + k - 1]
    BY <1>1, <2>1, SubSeqAny
  <2>3. ASSUME NEW k \in 1..Len(u) PROVE d[k] = u[k]
    <3>1. m + k - 1 = Len(w) + k
      BY <1>0
    <3> QED
      BY <1>1, <2>1, <2>2, <3>1
  <2> HIDE DEF d, m, n
  <2>4. d = u
    BY <2>1, <2>2, <2>3, EqualAny
  <2> QED
    BY <2>4 DEF d, m, n
<1>3. ASSUME NEW m \in 1..(Len(w) + 1), NEW n \in (m - 1)..Len(w) PROVE SubSeq(c, m, n) = SubSeq(w, m, n)
  <2> DEFINE d == SubSeq(c, m, n)
             e == SubSeq(w, m, n)
  <2>1. m \in 1..(Len(c) + 1) /\ n \in (m - 1)..Len(c) /\ n - m + 1 \in Nat
    BY <1>0, <1>1
  <2>2. IsSeq(d) /\ Len(d) = n - m + 1 /\ \A k \in 1..(n - m + 1) : d[k] = c[m + k - 1]
    BY <1>1, <2>1, SubSeqAny
  <2>3. IsSeq(e) /\ Len(e) = n - m + 1 /\ \A k \in 1..(n - m + 1) : e[k] = w[m + k - 1]
    BY SubSeqAny
  <2> HIDE DEF d, e
  <2>4. ASSUME NEW k \in 1..Len(d) PROVE d[k] = e[k]
    <3>1. k \in 1..(n - m + 1) /\ m + k - 1 \in 1..Len(w)
      BY <1>0, <2>1, <2>2
    <3> QED
      BY <1>1, <2>2, <2>3, <3>1
  <2>5. d = e
    BY <2>2, <2>3, <2>4, EqualAny
  <2> QED
    BY <2>5 DEF d, e
<1> QED
  BY <1>2, <1>3

-----------------------------------------------------------------------------
(* A result with the builder b, that holds s. *)
Appended(er, sb, b, s) == [err |-> er, subst |-> sb, builder |-> With(b, s)]

(* One more element is one more value, unless one before it failed. *)
LEMMA AppendElementShape ==
    ASSUME NEW b, IsScalar(b), NEW s, NEW v, NEW sb \in BOOLEAN
    PROVE  LET p == ParsedBy(b, v)
           IN  AppendElement(Appended("none", sb, b, s), v) = Appended(p.err, sb \/ p.subst, b, Append(s, p.stored))
<1> DEFINE p == ParsedBy(b, v)
           d == Appended("none", sb, b, s)
           o == AppendScalar(With(b, s), v)
<1>1. d.err = "none" /\ d.subst = sb /\ d.builder = With(b, s)
  BY DEF Appended
<1>2. o = [err |-> p.err, subst |-> p.subst, builder |-> With(b, Append(s, p.stored))]
  BY AppendScalarShape
<1> HIDE DEF p, d, o
<1>3. AppendElement(d, v) = [o EXCEPT !.subst = sb \/ @]
  BY <1>1 DEF AppendElement, o
<1>4. [o EXCEPT !.subst = sb \/ @] = [err |-> p.err, subst |-> sb \/ p.subst, builder |-> With(b, Append(s, p.stored))]
  BY <1>2
<1> QED
  BY <1>3, <1>4 DEF Appended, p, d

(* Appended to a builder that holds w, or to an empty one: the same result. *)
SameElements(x, y, b, w, n) ==
    \E er, sb, u :
        /\ er \in ValueErrors /\ sb \in BOOLEAN /\ IsSeq(u)
        /\ x = Appended(er, sb, b, w \o u) /\ y = Appended(er, sb, b, u)
        /\ er = "none" => Len(u) = n

(* The next element keeps the two results the same. *)
LEMMA SameElementsStep ==
    ASSUME NEW b, IsScalar(b), NEW w, IsSeq(w), NEW n \in Nat, NEW x, NEW y, SameElements(x, y, b, w, n), NEW v
    PROVE  SameElements(AppendElement(x, v), AppendElement(y, v), b, w, n + 1)
<1>1. PICK er, sb, u :
        /\ er \in ValueErrors /\ sb \in BOOLEAN /\ IsSeq(u)
        /\ x = Appended(er, sb, b, w \o u) /\ y = Appended(er, sb, b, u)
        /\ er = "none" => Len(u) = n
  BY DEF SameElements
<1>2. CASE er # "none"
  <2>1. x.err = er /\ y.err = er
    BY <1>1 DEF Appended
  <2>2. AppendElement(x, v) = x /\ AppendElement(y, v) = y
    BY <1>2, <2>1 DEF AppendElement
  <2> QED
    BY <1>1, <1>2, <2>2 DEF SameElements
<1>3. CASE er = "none"
  <2> DEFINE p == ParsedBy(b, v)
             t == Append(u, p.stored)
  <2>1. p.err \in ValueErrors /\ p.subst \in BOOLEAN
    BY AppendScalarShape
  <2>2. AppendElement(x, v) = Appended(p.err, sb \/ p.subst, b, Append(w \o u, p.stored))
    BY <1>1, <1>3, AppendElementShape
  <2>3. AppendElement(y, v) = Appended(p.err, sb \/ p.subst, b, t)
    BY <1>1, <1>3, AppendElementShape
  <2>4. IsSeq(t) /\ Len(t) = n + 1
    BY <1>1, <1>3, AppendAny
  <2>5. w \o t = Append(w \o u, p.stored)
    BY <1>1, ConcatAppend
  <2>6. (sb \/ p.subst) \in BOOLEAN
    OBVIOUS
  <2> HIDE DEF p, t
  <2> QED
    BY <2>1, <2>2, <2>3, <2>4, <2>5, <2>6 DEF SameElements
<1> QED
  BY <1>2, <1>3

(* The elements of a list are read the same whatever the builder holds before them. *)
LEMMA SameElementsAll ==
    ASSUME NEW b, IsScalar(b), NEW w, IsSeq(w), NEW list, IsSeq(list)
    PROVE  SameElements(AppendElements(With(b, w), list), AppendElements(With(b, <<>>), list), b, w, Len(list))
<1> DEFINE base(s) == [err |-> "none", subst |-> FALSE, builder |-> With(b, s)]
           X == Appending!After(base(w), list)
           Y == Appending!After(base(<<>>), list)
           S == {k \in 0..Len(list) : SameElements(X[k], Y[k], b, w, k)}
<1>0. Len(list) \in Nat
  BY DomainOfSeq
<1>1. X[0] = base(w) /\ \A k \in 1..Len(list) : X[k] = AppendElement(X[k - 1], list[k])
  BY <1>0, Appending!AfterStep
<1>2. Y[0] = base(<<>>) /\ \A k \in 1..Len(list) : Y[k] = AppendElement(Y[k - 1], list[k])
  BY <1>0, Appending!AfterStep
<1>3. SameElements(base(w), base(<<>>), b, w, 0)
  <2>1. base(w) = Appended("none", FALSE, b, w \o <<>>) /\ base(<<>>) = Appended("none", FALSE, b, <<>>)
    BY ConcatEmpty DEF Appended
  <2>2. IsSeq(<<>>) /\ Len(<<>>) = 0 /\ "none" \in ValueErrors /\ FALSE \in BOOLEAN
    BY EmptyIsSeq DEF ValueErrors
  <2> HIDE DEF base
  <2> QED
    BY <2>1, <2>2 DEF SameElements
<1> HIDE DEF X, Y, base
<1>4. 0 \in S
  BY <1>0, <1>1, <1>2, <1>3
<1>5. ASSUME NEW k \in S, k < Len(list) PROVE k + 1 \in S
  <2>1. k + 1 \in 1..Len(list) /\ (k + 1) - 1 = k /\ k + 1 \in 0..Len(list) /\ k \in Nat
    BY <1>0, <1>5
  <2>2. X[k + 1] = AppendElement(X[k], list[k + 1]) /\ Y[k + 1] = AppendElement(Y[k], list[k + 1])
    BY <1>1, <1>2, <2>1
  <2>3. SameElements(X[k + 1], Y[k + 1], b, w, k + 1)
    BY <2>1, <2>2, SameElementsStep
  <2> QED
    BY <2>1, <2>3
<1>6. S \subseteq 0..Len(list)
  OBVIOUS
<1>7. S = 0..Len(list)
  <2> HIDE DEF S
  <2> QED
    BY <1>0, <1>4, <1>5, <1>6, Appending!BoundedInduction
<1>8. SameElements(X[Len(list)], Y[Len(list)], b, w, Len(list))
  <2>1. Len(list) \in S
    <3> HIDE DEF S
    <3> QED
      BY <1>0, <1>7
  <2> QED
    BY <2>1
<1>9. AppendElements(With(b, w), list) = X[Len(list)] /\ AppendElements(With(b, <<>>), list) = Y[Len(list)]
  BY DEF AppendElements, Appending!Result, X, Y, base
<1> QED
  BY <1>8, <1>9

-----------------------------------------------------------------------------
(***************************************************************************)
(* Lists: the elements that the offsets cut out                            *)
(***************************************************************************)
(* The loop over an array literal only ever adds elements. *)
IsReading(s) == "elements" \in DOMAIN s /\ IsSeq(s.elements)

(* A turn of the loop keeps that. *)
LEMMA ElementTurnReads ==
    ASSUME NEW s, IsReading(s), NEW turn
    PROVE  IsReading(ElementTurn(s, turn))
<1>1. "elements" \in DOMAIN s /\ IsSeq(s.elements)
  BY DEF IsReading
<1>2. IsReading([s EXCEPT !.state = "bad"])
  BY <1>1 DEF IsReading
<1>3. ASSUME NEW v, NEW st, NEW j
      PROVE  IsReading([s EXCEPT !.elements = Append(@, v), !.state = st, !.i = j])
  <2> DEFINE t == [s EXCEPT !.elements = Append(@, v), !.state = st, !.i = j]
  <2>1. "elements" \in DOMAIN t /\ t.elements = Append(s.elements, v)
    BY <1>1
  <2> HIDE DEF t
  <2>2. IsReading(t)
    BY <1>1, <2>1, AppendAny DEF IsReading
  <2> QED
    BY <2>2 DEF t
<1> QED
  BY <1>2, <1>3 DEF ElementTurn

(* What an array literal gives is a sequence, whatever its bytes. *)
LEMMA ArrayElements ==
    ASSUME NEW v, IsSeq(v)
    PROVE  IsSeq(parse_array_elements(v).elements)
<1> DEFINE Base(state, inner) == [text |-> inner, state |-> state, elements |-> <<>>, i |-> 1]
           inner == SubSeq(v, 2, Len(v) - 1)
           X == Listing!After(Base("more", inner), v)
           S == {k \in 0..Len(v) : IsReading(X[k])}
<1>0. Len(v) \in Nat
  BY DomainOfSeq
<1>1. ASSUME NEW state, NEW text PROVE IsReading(Base(state, text)) /\ IsSeq(Base(state, text).elements)
  BY EmptyIsSeq DEF IsReading
<1>2. X[0] = Base("more", inner) /\ \A k \in 1..Len(v) : X[k] = ElementTurn(X[k - 1], v[k])
  BY <1>0, Listing!AfterStep
<1>3. IsReading(X[0])
  BY <1>1, <1>2
<1> HIDE DEF X
<1>4. 0 \in S
  BY <1>0, <1>3
<1>5. ASSUME NEW k \in S, k < Len(v) PROVE k + 1 \in S
  <2>1. k + 1 \in 1..Len(v) /\ (k + 1) - 1 = k /\ k + 1 \in 0..Len(v)
    BY <1>0, <1>5
  <2>2. X[k + 1] = ElementTurn(X[k], v[k + 1])
    BY <1>2, <2>1
  <2> QED
    BY <2>1, <2>2, ElementTurnReads
<1>6. S \subseteq 0..Len(v)
  OBVIOUS
<1>7. S = 0..Len(v)
  <2> HIDE DEF S
  <2> QED
    BY <1>0, <1>4, <1>5, <1>6, Listing!BoundedInduction
<1>8. IsReading(X[Len(v)])
  <2>1. Len(v) \in S
    <3> HIDE DEF S
    <3> QED
      BY <1>0, <1>7
  <2> QED
    BY <2>1
<1>9. IsSeq(X[Len(v)].elements)
  BY <1>8 DEF IsReading
<1>10. \/ \E state, text : parse_array_elements(v) = Base(state, text)
       \/ parse_array_elements(v) = X[Len(v)]
  BY DEF parse_array_elements, Listing!Result, X
<1> HIDE DEF Base
<1> QED
  BY <1>1, <1>9, <1>10

-----------------------------------------------------------------------------
(* A list builder of the elements w, the offsets o and the validity va. *)
ListB(e, w, o, va) == [kind |-> "List", element |-> With(e, w), offsets |-> o, validity |-> va]

(* Elements, offsets and validity that fit each other. *)
ListParts(w, o, va) ==
    /\ IsSeq(w) /\ IsSeq(va) /\ IsSeq(o)
    /\ Len(o) = Len(va) + 1
    /\ o[1] = 0 /\ o[Len(o)] = Len(w)
    /\ \A r \in 1..Len(o) : o[r] \in 0..Len(w)
    /\ \A r \in 1..Len(va) : o[r] <= o[r + 1]

(* The parts fit when the builder is in order. *)
LEMMA ListPartsOK ==
    ASSUME NEW e, IsScalar(e), NEW w, NEW o, NEW va
    PROVE  ListOK(ListB(e, w, o, va)) <=> ListParts(w, o, va)
<1> DEFINE b == ListB(e, w, o, va)
<1>1. b.element = With(e, w) /\ b.offsets = o /\ b.validity = va
  BY DEF ListB
<1>2. b.element.vals = w
  BY <1>1, WithScalar
<1> HIDE DEF b
<1>3. ASSUME IsSeq(o), IsSeq(va) PROVE DOMAIN o = 1..Len(o) /\ DOMAIN va = 1..Len(va)
  BY <1>3, DomainOfSeq
<1>4. ListOK(b) <=> ListParts(w, o, va)
  BY <1>1, <1>2, <1>3 DEF ListOK, ListParts, Last
<1> QED
  BY <1>4 DEF b

(* An entry of a list is cut out by two offsets, or is NULL. *)
LEMMA EntryOfList ==
    ASSUME NEW e, IsScalar(e), NEW w, NEW o, NEW va, NEW r
    PROVE  /\ Entries(ListB(e, w, o, va)) = Len(va)
           /\ Entry(ListB(e, w, o, va), r) = IF va[r] THEN [list |-> SubSeq(w, o[r] + 1, o[r + 1])] ELSE Null
<1> DEFINE b == ListB(e, w, o, va)
<1>1. b.kind = "List" /\ b.element = With(e, w) /\ b.offsets = o /\ b.validity = va
  BY DEF ListB
<1>2. b.element.vals = w
  BY <1>1, WithScalar
<1> HIDE DEF b
<1>3. Entries(b) = Len(va) /\ Entry(b, r) = IF va[r] THEN [list |-> SubSeq(w, o[r] + 1, o[r + 1])] ELSE Null
  BY <1>1, <1>2 DEF Entries, Entry
<1> QED
  BY <1>3 DEF b

(* A list of the elements u after those of w. *)
LEMMA ListPartsAppend ==
    ASSUME NEW w, NEW o, NEW va, ListParts(w, o, va), NEW u, IsSeq(u), NEW x
    PROVE  /\ ListParts(w \o u, Append(o, Len(w) + Len(u)), Append(va, x))
           /\ \A r \in 1..Len(o) : Append(o, Len(w) + Len(u))[r] = o[r]
           /\ Append(o, Len(w) + Len(u))[Len(o) + 1] = Len(w) + Len(u)
           /\ Len(Append(va, x)) = Len(va) + 1
           /\ Append(va, x)[Len(va) + 1] = x
           /\ \A r \in 1..Len(va) : Append(va, x)[r] = va[r]
<1> DEFINE l == Len(w) + Len(u)
           c == w \o u
           p == Append(o, l)
           q == Append(va, x)
<1>0. IsSeq(w) /\ IsSeq(o) /\ IsSeq(va) /\ Len(w) \in Nat /\ Len(o) \in Nat /\ Len(va) \in Nat /\ Len(u) \in Nat
  BY DomainOfSeq DEF ListParts
<1>1. IsSeq(c) /\ Len(c) = l
  BY <1>0, ConcatAny
<1>2. IsSeq(p) /\ Len(p) = Len(o) + 1 /\ (\A k \in 1..Len(o) : p[k] = o[k]) /\ p[Len(o) + 1] = l
  BY <1>0, AppendAny
<1>3. IsSeq(q) /\ Len(q) = Len(va) + 1 /\ (\A k \in 1..Len(va) : q[k] = va[k]) /\ q[Len(va) + 1] = x
  BY <1>0, AppendAny
<1>4. l \in Nat /\ Len(w) <= l
  BY <1>0
<1> SUFFICES ListParts(c, p, q)
  BY <1>2, <1>3
<1> HIDE DEF l, c, p, q
<1>5. Len(o) = Len(va) + 1 /\ o[1] = 0 /\ o[Len(o)] = Len(w)
      /\ (\A r \in 1..Len(o) : o[r] \in 0..Len(w)) /\ \A r \in 1..Len(va) : o[r] <= o[r + 1]
  BY DEF ListParts
<1>6. Len(p) = Len(q) + 1 /\ p[1] = 0 /\ p[Len(p)] = Len(c)
  <2>1. 1 \in 1..Len(o)
    BY <1>0, <1>5
  <2> QED
    BY <1>0, <1>1, <1>2, <1>3, <1>5, <2>1
<1>7. ASSUME NEW r \in 1..Len(p) PROVE p[r] \in 0..Len(c)
  <2>1. CASE r \in 1..Len(o)
    BY <1>0, <1>1, <1>2, <1>4, <1>5, <2>1
  <2>2. CASE r = Len(o) + 1
    BY <1>1, <1>2, <1>4, <2>2
  <2> QED
    BY <1>0, <1>2, <2>1, <2>2
<1>8. ASSUME NEW r \in 1..Len(q) PROVE p[r] <= p[r + 1]
  <2>1. CASE r \in 1..Len(va)
    <3>1. r \in 1..Len(o) /\ r + 1 \in 1..Len(o)
      BY <1>0, <1>5, <2>1
    <3> QED
      BY <1>2, <1>5, <2>1, <3>1
  <2>2. CASE r = Len(o)
    <3>1. r \in 1..Len(o)
      BY <1>0, <1>5, <2>2
    <3>2. p[r] = o[r] /\ o[r] = Len(w) /\ p[r + 1] = l
      BY <1>2, <1>5, <2>2, <3>1
    <3> QED
      BY <1>4, <3>2
  <2> QED
    BY <1>0, <1>3, <1>5, <2>1, <2>2
<1> QED
  BY <1>1, <1>2, <1>3, <1>6, <1>7, <1>8 DEF ListParts

(* One list more leaves the entries before it as they were, and is the last. *)
LEMMA ListEntries ==
    ASSUME NEW e, IsScalar(e), NEW w, NEW o, NEW va, ListParts(w, o, va), NEW u, IsSeq(u), NEW x \in BOOLEAN
    PROVE  LET b == ListB(e, w, o, va)
               c == ListB(e, w \o u, Append(o, Len(w) + Len(u)), Append(va, x))
           IN  /\ Entries(c) = Len(va) + 1
               /\ \A r \in 1..Len(va) : Entry(c, r) = Entry(b, r)
               /\ Entry(c, Len(va) + 1) = IF x THEN [list |-> u] ELSE Null
<1> DEFINE b == ListB(e, w, o, va)
           t == w \o u
           p == Append(o, Len(w) + Len(u))
           q == Append(va, x)
           c == ListB(e, t, p, q)
<1>0. IsSeq(w) /\ IsSeq(o) /\ IsSeq(va) /\ Len(w) \in Nat /\ Len(o) \in Nat /\ Len(va) \in Nat /\ Len(u) \in Nat
      /\ Len(o) = Len(va) + 1 /\ o[Len(o)] = Len(w)
  BY DomainOfSeq DEF ListParts
<1>1. /\ \A r \in 1..Len(o) : p[r] = o[r]
      /\ p[Len(o) + 1] = Len(w) + Len(u)
      /\ Len(q) = Len(va) + 1 /\ q[Len(va) + 1] = x
      /\ \A r \in 1..Len(va) : q[r] = va[r]
  BY ListPartsAppend
<1>2. /\ SubSeq(t, Len(w) + 1, Len(w) + Len(u)) = u
      /\ \A m \in 1..(Len(w) + 1) : \A n \in (m - 1)..Len(w) : SubSeq(t, m, n) = SubSeq(w, m, n)
  BY <1>0, SubSeqOfConcat
<1>3. Entries(c) = Len(q) /\ \A r : Entry(c, r) = IF q[r] THEN [list |-> SubSeq(t, p[r] + 1, p[r + 1])] ELSE Null
  BY EntryOfList
<1>4. \A r : Entry(b, r) = IF va[r] THEN [list |-> SubSeq(w, o[r] + 1, o[r + 1])] ELSE Null
  BY EntryOfList
<1> HIDE DEF b, t, p, q, c
<1>5. ASSUME NEW r \in 1..Len(va) PROVE Entry(c, r) = Entry(b, r)
  <2>1. r \in 1..Len(o) /\ r + 1 \in 1..Len(o)
    BY <1>0
  <2>2. o[r] \in 0..Len(w) /\ o[r + 1] \in 0..Len(w) /\ o[r] <= o[r + 1]
    BY <2>1 DEF ListParts
  <2>3. o[r] + 1 \in 1..(Len(w) + 1) /\ o[r + 1] \in ((o[r] + 1) - 1)..Len(w)
    BY <1>0, <2>2
  <2>4. SubSeq(t, o[r] + 1, o[r + 1]) = SubSeq(w, o[r] + 1, o[r + 1])
    BY <1>2, <2>3
  <2>5. p[r] = o[r] /\ p[r + 1] = o[r + 1] /\ q[r] = va[r]
    BY <1>1, <2>1
  <2> QED
    BY <1>3, <1>4, <2>4, <2>5
<1>6. Entry(c, Len(va) + 1) = IF x THEN [list |-> u] ELSE Null
  <2>1. Len(va) + 1 = Len(o) /\ Len(o) \in 1..Len(o)
    BY <1>0
  <2>2. p[Len(va) + 1] = Len(w) /\ p[(Len(va) + 1) + 1] = Len(w) + Len(u) /\ q[Len(va) + 1] = x
    BY <1>0, <1>1, <2>1
  <2> QED
    BY <1>2, <1>3, <2>2
<1>7. Entries(c) = Len(va) + 1
  BY <1>1, <1>3
<1> QED
  BY <1>5, <1>6, <1>7 DEF b, t, p, q, c

-----------------------------------------------------------------------------
(***************************************************************************)
(* A builder reads a value as a new one does, whatever it holds            *)
(***************************************************************************)
(* A list builder with other parts. *)
Refilled(r, x, y, z) == [r EXCEPT !.element = x, !.offsets = y, !.validity = z]

(* Other parts, and nothing else, change. *)
LEMMA ListExcept ==
    ASSUME NEW a, NEW b, NEW c, NEW r, r = [kind |-> "List", element |-> a, offsets |-> b, validity |-> c],
           NEW x, NEW y, NEW z
    PROVE  Refilled(r, x, y, z) = [kind |-> "List", element |-> x, offsets |-> y, validity |-> z]
<1> DEFINE s == [r EXCEPT !.element = x, !.offsets = y, !.validity = z]
           t == [kind |-> "List", element |-> x, offsets |-> y, validity |-> z]
<1>1. DOMAIN r = {"kind", "element", "offsets", "validity"}
  OBVIOUS
<1>2. DOMAIN s = DOMAIN r /\ s = [f \in DOMAIN s |-> s[f]]
  OBVIOUS
<1>3. DOMAIN t = {"kind", "element", "offsets", "validity"} /\ t = [f \in DOMAIN t |-> t[f]]
  OBVIOUS
<1>4. s.kind = "List" /\ s.element = x /\ s.offsets = y /\ s.validity = z
  OBVIOUS
<1>5. t.kind = "List" /\ t.element = x /\ t.offsets = y /\ t.validity = z
  OBVIOUS
<1>6. s = t
  <2> HIDE DEF s, t
  <2> QED
    BY <1>1, <1>2, <1>3, <1>4, <1>5
<1> QED
  BY <1>6 DEF Refilled

(* The elements a field has for a list column: none for NULL. *)
LiteralOf(v) == IF v = Null THEN [state |-> "done", elements |-> <<>>] ELSE parse_array_elements(v)

(* They are a sequence. *)
LEMMA LiteralElements ==
    ASSUME NEW v, v = Null \/ IsSeq(v)
    PROVE  IsSeq(LiteralOf(v).elements)
<1>1. CASE v = Null
  BY <1>1, EmptyIsSeq DEF LiteralOf
<1>2. CASE v # Null
  BY <1>2, ArrayElements DEF LiteralOf
<1> QED
  BY <1>1, <1>2

(* A malformed literal leaves the builder as it was. *)
LEMMA AppendListBad ==
    ASSUME NEW b, NEW v, LiteralOf(v).state # "done"
    PROVE  AppendList(b, v) = [err |-> "UnparsableValue", subst |-> FALSE, builder |-> b]
<1> DEFINE read == LiteralOf(v)
<1>1. (IF v = Null THEN [state |-> "done", elements |-> <<>>] ELSE parse_array_elements(v)) = read
  BY DEF LiteralOf
<1> HIDE DEF read
<1>2. read.state # "done"
  BY DEF read
<1> QED
  BY <1>1, <1>2 DEF AppendList

(* A literal that is read adds its elements, an offset and a validity. *)
LEMMA AppendListDone ==
    ASSUME NEW e, IsScalar(e), NEW w, NEW o, NEW va, ListParts(w, o, va), NEW v, LiteralOf(v).state = "done",
           NEW er, NEW sb, NEW u,
           AppendElements(With(e, w), LiteralOf(v).elements) = Appended(er, sb, e, u)
    PROVE  AppendList(ListB(e, w, o, va), v) =
              [err |-> er, subst |-> sb,
               builder |-> ListB(e, u, Append(o, Len(w) + Len(LiteralOf(v).elements)), Append(va, v # Null))]
<1> DEFINE read == LiteralOf(v)
           b == ListB(e, w, o, va)
           n == Len(read.elements)
           all == AppendElements(With(e, w), read.elements)
<1>1. (IF v = Null THEN [state |-> "done", elements |-> <<>>] ELSE parse_array_elements(v)) = read
  BY DEF LiteralOf
<1>2. read.state = "done" /\ all = Appended(er, sb, e, u)
  OBVIOUS
<1>3. b.element = With(e, w) /\ b.offsets = o /\ b.validity = va
  BY DEF ListB
<1>4. Last(o) = Len(w)
  BY DEF Last, ListParts
<1>5. b = [kind |-> "List", element |-> With(e, w), offsets |-> o, validity |-> va]
  BY DEF ListB
<1> DEFINE c == [b EXCEPT !.element = all.builder, !.offsets = Append(@, Last(@) + n), !.validity = Append(@, v # Null)]
<1> HIDE DEF read
<1>6. AppendList(b, v) = [all EXCEPT !.builder = c]
  <2>1. AppendElements(b.element, read.elements) = all
    BY <1>3
  <2> HIDE DEF b, all
  <2> QED
    BY <1>1, <1>2, <2>1 DEF AppendList
<1> HIDE DEF b, all
<1>7. all.builder = With(e, u) /\ [all EXCEPT !.builder = c] = [err |-> er, subst |-> sb, builder |-> c]
  <2> HIDE DEF c
  <2> QED
    BY <1>2 DEF Appended
<1>8. c = ListB(e, u, Append(o, Len(w) + n), Append(va, v # Null))
  <2>1. c = Refilled(b, With(e, u), Append(o, Len(w) + n), Append(va, v # Null))
    BY <1>3, <1>4, <1>7 DEF Refilled
  <2>2. \A x, y, z : Refilled(b, x, y, z) = [kind |-> "List", element |-> x, offsets |-> y, validity |-> z]
    BY <1>5, ListExcept
  <2> DEFINE y0 == Append(o, Len(w) + n)
             z0 == Append(va, v # Null)
  <2>3. c = Refilled(b, With(e, u), y0, z0)
    BY <2>1
  <2> SUFFICES c = ListB(e, u, y0, z0)
    OBVIOUS
  <2> HIDE DEF c, n, y0, z0
  <2> QED
    BY <2>2, <2>3 DEF ListB
<1> QED
  BY <1>6, <1>7, <1>8 DEF read, b

(* A new list builder has one offset, 0. *)
LEMMA NewListParts ==
    ASSUME NEW e, IsScalar(e), e.vals = <<>>
    PROVE  /\ NewList(e) = ListB(e, <<>>, <<0>>, <<>>)
           /\ ListParts(<<>>, <<0>>, <<>>)
           /\ With(e, <<>>) = e
<1>1. With(e, <<>>) = e
  BY WithScalar
<1>2. IsSeq(<<>>) /\ Len(<<>>) = 0
  BY EmptyIsSeq
<1>3. <<0>> \in Seq(Nat) /\ Len(<<0>>) = 1 /\ <<0>>[1] = 0
  OBVIOUS
<1>4. IsSeq(<<0>>)
  BY <1>3, SeqIsSeq
<1>5. ListParts(<<>>, <<0>>, <<>>)
  <2>1. \A r \in 1..1 : r = 1
    OBVIOUS
  <2>2. \A r \in 1..0 : FALSE
    OBVIOUS
  <2>3. 0 \in 0..0 /\ 1 = 0 + 1
    OBVIOUS
  <2> QED
    BY <1>2, <1>3, <1>4, <2>1, <2>2, <2>3 DEF ListParts
<1> QED
  BY <1>1, <1>5 DEF NewList, ListB

(* Two results of appending a list, to a full builder and to a new one. *)
SameLists(a, g, e, w, o, va, y) ==
    \E er, sb, u :
       /\ er \in ValueErrors /\ sb \in BOOLEAN /\ IsSeq(u)
       /\ a.err = er /\ g.err = er /\ a.subst = sb /\ g.subst = sb
       /\ er = "none" =>
            /\ a.builder = ListB(e, w \o u, Append(o, Len(w) + Len(u)), Append(va, y))
            /\ g.builder = ListB(e, <<>> \o u, Append(<<0>>, Len(<<>>) + Len(u)), Append(<<>>, y))

(* A list is read the same whatever the builder holds. *)
LEMMA AppendListSame ==
    ASSUME NEW e, IsScalar(e), e.vals = <<>>, NEW w, NEW o, NEW va, ListParts(w, o, va), NEW v, v = Null \/ IsSeq(v)
    PROVE  SameLists(AppendList(ListB(e, w, o, va), v), AppendList(NewList(e), v), e, w, o, va, v # Null)
<1> DEFINE a == AppendList(ListB(e, w, o, va), v)
           g == AppendList(NewList(e), v)
           list == LiteralOf(v).elements
           E(er, sb, u) ==
                 /\ IsSeq(u)
                 /\ a.err = er /\ g.err = er /\ a.subst = sb /\ g.subst = sb
                 /\ er = "none" =>
                      /\ a.builder = ListB(e, w \o u, Append(o, Len(w) + Len(u)), Append(va, v # Null))
                      /\ g.builder = ListB(e, <<>> \o u, Append(<<0>>, Len(<<>>) + Len(u)), Append(<<>>, v # Null))
<1> SUFFICES \E er \in ValueErrors : \E sb \in BOOLEAN : \E u : E(er, sb, u)
  BY DEF SameLists
<1>1. CASE LiteralOf(v).state # "done"
  <2>1. a = [err |-> "UnparsableValue", subst |-> FALSE, builder |-> ListB(e, w, o, va)]
    BY <1>1, AppendListBad
  <2>2. g = [err |-> "UnparsableValue", subst |-> FALSE, builder |-> NewList(e)]
    BY <1>1, AppendListBad
  <2> HIDE DEF a, g
  <2>3. a.err = "UnparsableValue" /\ a.subst = FALSE /\ g.err = "UnparsableValue" /\ g.subst = FALSE
    BY <2>1, <2>2
  <2>4. E("UnparsableValue", FALSE, <<>>)
    BY <2>3, EmptyIsSeq
  <2>5. "UnparsableValue" \in ValueErrors /\ FALSE \in BOOLEAN
    BY DEF ValueErrors
  <2> HIDE DEF E
  <2> QED
    BY <2>4, <2>5
<1>2. CASE LiteralOf(v).state = "done"
  <2>1. IsSeq(list) /\ IsSeq(w)
    BY LiteralElements DEF ListParts
  <2>2. SameElements(AppendElements(With(e, w), list), AppendElements(With(e, <<>>), list), e, w, Len(list))
    BY <2>1, SameElementsAll
  <2>3. PICK er, sb, u :
           /\ er \in ValueErrors /\ sb \in BOOLEAN /\ IsSeq(u)
           /\ AppendElements(With(e, w), list) = Appended(er, sb, e, w \o u)
           /\ AppendElements(With(e, <<>>), list) = Appended(er, sb, e, u)
           /\ er = "none" => Len(u) = Len(list)
    BY <2>2 DEF SameElements
  <2>4. a = [err |-> er, subst |-> sb, builder |-> ListB(e, w \o u, Append(o, Len(w) + Len(list)), Append(va, v # Null))]
    BY <1>2, <2>3, AppendListDone
  <2>5. g = [err |-> er, subst |-> sb, builder |-> ListB(e, u, Append(<<0>>, Len(<<>>) + Len(list)), Append(<<>>, v # Null))]
    <3>1. g = AppendList(ListB(e, <<>>, <<0>>, <<>>), v)
      BY NewListParts
    <3>2. ListParts(<<>>, <<0>>, <<>>)
      BY NewListParts
    <3>3. ASSUME NEW w0, NEW o0, ListParts(w0, o0, w0), AppendElements(With(e, w0), list) = Appended(er, sb, e, u)
          PROVE  AppendList(ListB(e, w0, o0, w0), v) =
                    [err |-> er, subst |-> sb, builder |-> ListB(e, u, Append(o0, Len(w0) + Len(list)), Append(w0, v # Null))]
      BY <1>2, <3>3, AppendListDone
    <3> HIDE DEF g, list
    <3> QED
      BY <2>3, <3>1, <3>2, <3>3
  <2>6. <<>> \o u = u
    BY <2>3, ConcatEmpty
  <2> HIDE DEF a, g, list
  <2>7. a.err = er /\ g.err = er /\ a.subst = sb /\ g.subst = sb
        /\ a.builder = ListB(e, w \o u, Append(o, Len(w) + Len(list)), Append(va, v # Null))
        /\ g.builder = ListB(e, u, Append(<<0>>, Len(<<>>) + Len(list)), Append(<<>>, v # Null))
    BY <2>4, <2>5
  <2>8. E(er, sb, u)
    BY <2>3, <2>6, <2>7
  <2>9. er \in ValueErrors /\ sb \in BOOLEAN
    BY <2>3
  <2> HIDE DEF E
  <2> QED
    BY <2>8, <2>9
<1> QED
  BY <1>1, <1>2

-----------------------------------------------------------------------------
(* A builder that holds nothing. *)
IsFresh(f) == \/ IsScalar(f) /\ f.vals = <<>>
              \/ \E e : IsScalar(e) /\ e.vals = <<>> /\ f = NewList(e)

(* A builder of scalars is no list builder. *)
LEMMA ScalarIsNoList == \A b : IsScalar(b) => b.kind # "List"
  BY DEF IsScalar, ScalarKinds

(* A new list builder, filled with the parts of b. *)
LEMMA FilledList ==
    ASSUME NEW e, IsScalar(e), e.vals = <<>>, NEW b
    PROVE  /\ NewList(e).kind = "List"
           /\ Filled(NewList(e), b) = ListB(e, b.element.vals, b.offsets, b.validity)
<1> DEFINE f == NewList(e)
<1>1. f = [kind |-> "List", element |-> e, offsets |-> <<0>>, validity |-> <<>>]
  BY DEF NewList
<1> HIDE DEF f
<1>2. f.kind = "List" /\ f.element = e
  BY <1>1
<1>3. \A x, y, z : Refilled(f, x, y, z) = [kind |-> "List", element |-> x, offsets |-> y, validity |-> z]
  BY <1>1, ListExcept
<1>4. Filled(f, b) = Refilled(f, [e EXCEPT !.vals = b.element.vals], b.offsets, b.validity)
  BY <1>2 DEF Filled, Refilled
<1>5. Filled(f, b) = ListB(e, b.element.vals, b.offsets, b.validity)
  BY <1>3, <1>4 DEF ListB, With
<1> QED
  BY <1>2, <1>5 DEF f

(* The results a and g of appending v, to b and to the new f, say the same. *)
ReadsAs(f, b, v, a, g) ==
    /\ a.err = g.err /\ a.err \in ValueErrors
    /\ a.subst = g.subst /\ a.subst \in BOOLEAN
    /\ a.err = "none" =>
         /\ a.builder = Filled(f, a.builder)
         /\ BuilderOK(a.builder)
         /\ Entries(a.builder) = Entries(b) + 1
         /\ \A r \in 1..Entries(b) : Entry(a.builder, r) = Entry(b, r)
         /\ Entry(a.builder, Entries(b) + 1) = Entry(g.builder, 1)

(* What a builder makes of a value: what a new one would, as one more entry after the others. *)
LEMMA AppendValueReads ==
    ASSUME NEW f, IsFresh(f), NEW b, b = Filled(f, b), BuilderOK(b), NEW v, v = Null \/ IsSeq(v)
    PROVE  ReadsAs(f, b, v, AppendValue(b, v), AppendValue(f, v)) /\ Entries(b) \in Nat
<1>1. CASE IsScalar(f) /\ f.vals = <<>>
  <2> DEFINE s == b.vals
             p == ParsedBy(f, v)
             x == p.stored
  <2>1. f.kind # "List" /\ b = With(f, s)
    BY <1>1, ScalarIsNoList DEF Filled, With
  <2>2. f = With(f, <<>>)
    BY <1>1, WithScalar
  <2>3. b.kind # "List" /\ IsSeq(s)
    <3>1. With(f, s).kind = f.kind
      BY <1>1, WithScalar
    <3>2. b.kind # "List"
      BY <2>1, <3>1
    <3> QED
      BY <3>2 DEF BuilderOK
  <2> DEFINE a == AppendValue(b, v)
             g == AppendValue(f, v)
  <2>4. /\ a = [err |-> p.err, subst |-> p.subst, builder |-> With(f, Append(s, x))]
        /\ p.err \in ValueErrors /\ p.subst \in BOOLEAN
    <3>1. a = AppendScalar(With(f, s), v)
      BY <2>1, <2>3 DEF AppendValue
    <3> QED
      BY <1>1, <3>1, AppendScalarShape
  <2>5. g = [err |-> p.err, subst |-> p.subst, builder |-> With(f, Append(<<>>, x))]
    <3>1. g = AppendScalar(With(f, <<>>), v)
      BY <2>1, <2>2 DEF AppendValue
    <3> QED
      BY <1>1, <3>1, AppendScalarShape
  <2> HIDE DEF s, p, x, a, g
  <2> DEFINE t == Append(s, x)
             c == With(f, t)
             h == With(f, Append(<<>>, x))
  <2>6. a.err = p.err /\ a.subst = p.subst /\ a.builder = c /\ g.err = p.err /\ g.subst = p.subst /\ g.builder = h
    BY <2>4, <2>5
  <2>7. c.vals = t /\ c.kind = f.kind /\ h.vals = Append(<<>>, x) /\ h.kind = f.kind
    <3>1. \A z : With(f, z).vals = z /\ With(f, z).kind = f.kind
      BY <1>1, WithScalar
    <3> QED
      BY <3>1
  <2>8. IsSeq(t) /\ Len(t) = Len(s) + 1 /\ (\A k \in 1..Len(s) : t[k] = s[k]) /\ t[Len(s) + 1] = x
    BY <2>3, AppendAny
  <2>9. Append(<<>>, x)[1] = x
    BY EmptyIsSeq, AppendAny
  <2> HIDE DEF t, c, h
  <2>10. c = Filled(f, c) /\ BuilderOK(c)
    BY <2>1, <2>7, <2>8 DEF Filled, BuilderOK, c, With
  <2>11. Entries(b) = Len(s) /\ Entries(c) = Len(t) /\ Len(s) \in Nat
    BY <2>1, <2>3, <2>7, DomainOfSeq DEF Entries, s
  <2>12. ASSUME NEW r PROVE Entry(b, r) = s[r] /\ Entry(c, r) = t[r] /\ Entry(h, r) = Append(<<>>, x)[r]
    BY <2>1, <2>3, <2>7 DEF Entry, s
  <2>13. ReadsAs(f, b, v, a, g)
    BY <2>4, <2>6, <2>8, <2>9, <2>10, <2>11, <2>12 DEF ReadsAs
  <2> QED
    BY <2>11, <2>13 DEF a, g
<1>2. CASE \E e : IsScalar(e) /\ e.vals = <<>> /\ f = NewList(e)
  <2>1. PICK e : IsScalar(e) /\ e.vals = <<>> /\ f = NewList(e)
    BY <1>2
  <2> DEFINE w == b.element.vals
             o == b.offsets
             va == b.validity
  <2>2. f.kind = "List" /\ b = ListB(e, w, o, va)
    BY <2>1, FilledList
  <2>3. b.kind = "List"
    BY <2>2 DEF ListB
  <2>4. ListParts(w, o, va)
    <3>1. ListOK(b)
      BY <2>3 DEF BuilderOK
    <3>2. ListOK(ListB(e, w, o, va))
      BY <2>2, <3>1
    <3> HIDE DEF w, o, va
    <3> QED
      BY <2>1, <3>2, ListPartsOK
  <2> HIDE DEF w, o, va
  <2> DEFINE a == AppendValue(b, v)
             g == AppendValue(f, v)
             y == (v # Null)
  <2>5. a = AppendList(ListB(e, w, o, va), v) /\ g = AppendList(NewList(e), v)
    BY <2>1, <2>2, <2>3 DEF AppendValue
  <2>6. PICK er, sb, u :
                 /\ er \in ValueErrors /\ sb \in BOOLEAN /\ IsSeq(u)
                 /\ a.err = er /\ g.err = er /\ a.subst = sb /\ g.subst = sb
                 /\ er = "none" =>
                      /\ a.builder = ListB(e, w \o u, Append(o, Len(w) + Len(u)), Append(va, y))
                      /\ g.builder = ListB(e, <<>> \o u, Append(<<0>>, Len(<<>>) + Len(u)), Append(<<>>, y))
    <3>1. SameLists(AppendList(ListB(e, w, o, va), v), AppendList(NewList(e), v), e, w, o, va, v # Null)
      BY <2>1, <2>4, AppendListSame
    <3>2. SameLists(a, g, e, w, o, va, y)
      BY <2>5, <3>1
    <3> HIDE DEF a, g, y
    <3> QED
      BY <3>2 DEF SameLists
  <2>7. y \in BOOLEAN
    OBVIOUS
  <2>8. Entries(b) = Len(va) /\ Len(va) \in Nat
    BY <2>1, <2>2, <2>4, EntryOfList, DomainOfSeq DEF ListParts
  <2> SUFFICES ReadsAs(f, b, v, a, g)
    BY <2>8
  <2> HIDE DEF a, g, y
  <2>9. CASE er # "none"
    BY <2>6, <2>9 DEF ReadsAs
  <2>10. CASE er = "none"
    <3> DEFINE t == w \o u
               p == Append(o, Len(w) + Len(u))
               q == Append(va, y)
               c == ListB(e, t, p, q)
               h == ListB(e, <<>> \o u, Append(<<0>>, Len(<<>>) + Len(u)), Append(<<>>, y))
    <3>1. a.builder = c /\ g.builder = h
      BY <2>6, <2>10
    <3>2. ListParts(t, p, q)
      BY <2>4, <2>6, ListPartsAppend
    <3>3. /\ Entries(c) = Len(va) + 1
          /\ \A r \in 1..Len(va) : Entry(c, r) = Entry(b, r)
          /\ Entry(c, Len(va) + 1) = IF y THEN [list |-> u] ELSE Null
      BY <2>1, <2>2, <2>4, <2>6, <2>7, ListEntries
    <3>4. Entry(h, 1) = IF y THEN [list |-> u] ELSE Null
      <4>1. ListParts(<<>>, <<0>>, <<>>) /\ Len(<<>>) + 1 = 1
        BY <2>1, NewListParts
      <4>2. ASSUME NEW w0, NEW o0, ListParts(w0, o0, w0)
            PROVE  Entry(ListB(e, w0 \o u, Append(o0, Len(w0) + Len(u)), Append(w0, y)), Len(w0) + 1)
                      = IF y THEN [list |-> u] ELSE Null
        BY <2>1, <2>6, <2>7, <4>2, ListEntries
      <4>3. Entry(h, Len(<<>>) + 1) = IF y THEN [list |-> u] ELSE Null
        BY <4>1, <4>2
      <4> QED
        BY <4>1, <4>3
    <3> HIDE DEF t, p, q, h
    <3>5. c.kind = "List" /\ c.offsets = p /\ c.validity = q /\ c.element = With(e, t)
      BY DEF ListB
    <3>6. c.element.vals = t
      BY <2>1, <3>5, WithScalar
    <3>7. ListOK(c)
      BY <2>1, <3>2, ListPartsOK
    <3>8. Filled(f, c) = c
      BY <2>1, <3>5, <3>6, FilledList
    <3> HIDE DEF c
    <3>9. BuilderOK(c)
      BY <3>5, <3>7 DEF BuilderOK
    <3> QED
      BY <2>6, <2>8, <2>10, <3>1, <3>3, <3>4, <3>8, <3>9 DEF ReadsAs
  <2> QED
    BY <2>9, <2>10
<1> QED
  BY <1>1, <1>2 DEF IsFresh

(* The type of a list's array is a list of that of its elements. *)
LEMMA ArrayTypeList ==
    ASSUME NEW b, b.kind = "List", NEW d, b.element = d, d.kind # "List"
    PROVE  ArrayType(b) = ListOf(ArrayType(d))
  BY DEF ArrayType

(* The type of an array does not depend on its values. *)
LEMMA ScalarArrayType ==
    ASSUME NEW f, IsScalar(f), NEW s
    PROVE  ArrayType(With(f, s)) = ArrayType(f)
<1> DEFINE b == With(f, s)
<1>1. b.kind = f.kind /\ (f.kind \in {"Int", "Float"} => b.width = f.width)
      /\ (f.kind = "Decimal" => b.precision = f.precision /\ b.scale = f.scale)
  BY WithScalar
<1>2. f.kind # "List"
  BY ScalarIsNoList
<1> HIDE DEF b
<1>3. ArrayType(b) = ArrayType(f)
  <2>1. CASE f.kind = "Int"
    BY <1>1, <2>1 DEF ArrayType
  <2>2. CASE f.kind = "Float"
    BY <1>1, <2>2 DEF ArrayType
  <2>3. CASE f.kind = "Decimal"
    BY <1>1, <2>3 DEF ArrayType
  <2>4. CASE f.kind \notin {"Int", "Float", "Decimal"}
    BY <1>1, <1>2, <2>4 DEF ArrayType
  <2> QED
    BY <2>1, <2>2, <2>3, <2>4
<1> QED
  BY <1>3 DEF b

(* A new builder is itself, filled with nothing. *)
LEMMA FreshIsFilled ==
    ASSUME NEW f, IsFresh(f)
    PROVE  f = Filled(f, f)
<1>1. CASE IsScalar(f) /\ f.vals = <<>>
  <2>1. f.kind # "List" /\ With(f, f.vals) = f
    BY <1>1, ScalarIsNoList, WithScalar
  <2> QED
    BY <2>1 DEF Filled, With
<1>2. CASE \E e : IsScalar(e) /\ e.vals = <<>> /\ f = NewList(e)
  <2>1. PICK e : IsScalar(e) /\ e.vals = <<>> /\ f = NewList(e)
    BY <1>2
  <2>2. f.element = e /\ f.offsets = <<0>> /\ f.validity = <<>>
    BY <2>1 DEF NewList
  <2>3. Filled(f, f) = ListB(e, f.element.vals, f.offsets, f.validity)
    BY <2>1, FilledList
  <2>4. f = ListB(e, <<>>, <<0>>, <<>>)
    BY <2>1, NewListParts
  <2> QED
    BY <2>1, <2>2, <2>3, <2>4
<1> QED
  BY <1>1, <1>2 DEF IsFresh

(* A finished builder is a new one. *)
LEMMA FinishedIsFresh ==
    ASSUME NEW f, IsFresh(f), NEW b, b = Filled(f, b)
    PROVE  /\ FinishBuilder(b) = f
           /\ f = Filled(f, f) /\ BuilderOK(f) /\ Entries(f) = 0
           /\ ArrayType(b) = ArrayType(f)
           /\ b.kind = f.kind
<1>1. CASE IsScalar(f) /\ f.vals = <<>>
  <2>1. f.kind # "List" /\ b = With(f, b.vals)
    BY <1>1, ScalarIsNoList DEF Filled, With
  <2>2. With(f, b.vals).kind = f.kind /\ f = With(f, <<>>) /\ With(With(f, b.vals), <<>>) = With(f, <<>>)
        /\ (f.kind \in {"Int", "Float"} => With(f, b.vals).width = f.width)
        /\ (f.kind = "Decimal" => With(f, b.vals).precision = f.precision /\ With(f, b.vals).scale = f.scale)
    BY <1>1, WithScalar
  <2>3. b.kind = f.kind /\ (f.kind \in {"Int", "Float"} => b.width = f.width)
        /\ (f.kind = "Decimal" => b.precision = f.precision /\ b.scale = f.scale)
    BY <2>1, <2>2
  <2>4. FinishBuilder(b) = f
    BY <2>1, <2>2, <2>3 DEF FinishBuilder, With
  <2>5. f = Filled(f, f) /\ BuilderOK(f) /\ Entries(f) = 0
    BY <1>1, <2>1, <2>2, EmptyIsSeq DEF Filled, With, BuilderOK, Entries
  <2>6. ArrayType(b) = ArrayType(f)
    BY <1>1, <2>1, ScalarArrayType
  <2> QED
    BY <2>3, <2>4, <2>5, <2>6
<1>2. CASE \E e : IsScalar(e) /\ e.vals = <<>> /\ f = NewList(e)
  <2>1. PICK e : IsScalar(e) /\ e.vals = <<>> /\ f = NewList(e)
    BY <1>2
  <2> DEFINE w == b.element.vals
             o == b.offsets
             va == b.validity
  <2>2. f.kind = "List" /\ b = ListB(e, w, o, va) /\ f = ListB(e, <<>>, <<0>>, <<>>) /\ ListParts(<<>>, <<0>>, <<>>)
    BY <2>1, FilledList, NewListParts
  <2> HIDE DEF w, o, va
  <2>3. b.kind = "List" /\ b.element = With(e, w) /\ f.element = With(e, <<>>) /\ With(e, <<>>).vals = <<>>
        /\ f.offsets = <<0>> /\ f.validity = <<>>
    <3>1. With(e, <<>>).vals = <<>>
      BY <2>1, WithScalar
    <3> QED
      BY <2>2, <3>1 DEF ListB
  <2>4. With(With(e, w), <<>>) = e /\ With(e, w).kind = e.kind /\ With(e, <<>>) = e /\ e.kind \in ScalarKinds
        /\ (e.kind \in {"Int", "Float"} => With(e, w).width = e.width)
        /\ (e.kind = "Decimal" => With(e, w).precision = e.precision /\ With(e, w).scale = e.scale)
    <3>1. With(With(e, w), <<>>) = With(e, <<>>)
      BY <2>1, WithScalar
    <3> QED
      BY <2>1, <3>1, WithScalar DEF IsScalar
  <2>5. FinishBuilder(b) = f
    <3>1. FinishBuilder(b) = NewList(With(b.element, <<>>))
      BY <2>3 DEF FinishBuilder, With
    <3> QED
      BY <2>1, <2>3, <2>4, <3>1
  <2>6. f = Filled(f, f)
    BY <2>1, <2>2, <2>3, FilledList
  <2>7. BuilderOK(f) /\ Entries(f) = 0
    <3>1. ListOK(f)
      BY <2>1, <2>2, ListPartsOK
    <3> QED
      BY <2>2, <2>3, <3>1, EmptyIsSeq DEF BuilderOK, Entries
  <2>8. ArrayType(b) = ArrayType(f)
    <3>1. ArrayType(With(e, w)) = ArrayType(e) /\ e.kind # "List" /\ With(e, w).kind # "List"
      BY <2>1, <2>4, ScalarArrayType, ScalarIsNoList
    <3>2. ArrayType(b) = ListOf(ArrayType(With(e, w)))
      BY <2>3, <3>1, ArrayTypeList
    <3>3. ArrayType(f) = ListOf(ArrayType(e))
      BY <2>2, <2>3, <2>4, <3>1, ArrayTypeList
    <3> QED
      BY <3>1, <3>2, <3>3
  <2> QED
    BY <2>2, <2>3, <2>5, <2>6, <2>7, <2>8
<1> QED
  BY <1>1, <1>2 DEF IsFresh

-----------------------------------------------------------------------------
(***************************************************************************)
(* The builders of the declared types                                      *)
(***************************************************************************)
(* The types that resolve knows. *)
PlainTypes == {"smallint", "integer", "bigint", "real", "double", "boolean", "date", "bytea", "text"}

Scaled(p, s) == p \in 0..255 /\ s \in -128..127 /\ p # Null /\ (s = Null => s = 0)

KnownNumeric(pg) == \E p, s : /\ pg = [type |-> "numeric", precision |-> p, scale |-> s]
                              /\ (p = Null /\ s = Null) \/ Scaled(p, s)

KnownPg(pg) == \/ \E t \in PlainTypes : pg = [type |-> t]
               \/ \E t \in {"timestamp", "time"}, z \in BOOLEAN : pg = [type |-> t, tz |-> z]
               \/ KnownNumeric(pg)

KnownType(rt) == \E pg, d, z : KnownPg(pg) /\ rt = [pg |-> pg, dims |-> d, recognised |-> z]

(* The parameters of numeric give a precision and a scale, or none. *)
LEMMA NumericKnown ==
    ASSUME NEW params
    PROVE  KnownNumeric(numeric_params(params))
<1> DEFINE parts == SplitN(params, 3, ",")
           p == ParseNumber(parts[1], 0, 255)
           sc == IF Len(parts) > 1 THEN ParseNumber(parts[2], -128, 127) ELSE Null
           s == IF sc = Null THEN 0 ELSE sc
<1>2. numeric_params(params) = IF p = Null THEN [type |-> "numeric", precision |-> Null, scale |-> Null]
                               ELSE [type |-> "numeric", precision |-> p, scale |-> s]
  BY DEF numeric_params
<1> HIDE DEF parts
<1>3. p = Null \/ p \in 0..255
  BY DEF ParseNumber
<1>4. sc = Null \/ sc \in -128..127
  BY DEF ParseNumber
<1> HIDE DEF p, sc
<1>5. s \in -128..127 /\ (s = Null => s = 0)
  BY <1>4
<1> HIDE DEF s
<1>6. p # Null => Scaled(p, s)
  BY <1>3, <1>5 DEF Scaled
<1> QED
  BY <1>2, <1>6 DEF KnownNumeric

(* A type name gives one of these types. *)
LEMMA PgTypeKnown ==
    ASSUME NEW name, NEW params
    PROVE  KnownPg(PgType(name, params))
<1>1. \A t \in PlainTypes : KnownPg([type |-> t])
  BY DEF KnownPg
<1>2. \A t \in {"timestamp", "time"}, z \in BOOLEAN : KnownPg([type |-> t, tz |-> z])
  BY DEF KnownPg
<1>3. KnownPg(numeric_params(params))
  BY NumericKnown DEF KnownPg
<1>4. /\ KnownPg([type |-> "smallint"]) /\ KnownPg([type |-> "integer"]) /\ KnownPg([type |-> "bigint"])
      /\ KnownPg([type |-> "real"]) /\ KnownPg([type |-> "double"]) /\ KnownPg([type |-> "boolean"])
      /\ KnownPg([type |-> "date"]) /\ KnownPg([type |-> "bytea"]) /\ KnownPg([type |-> "text"])
  BY <1>1 DEF PlainTypes
<1>5. /\ KnownPg([type |-> "timestamp", tz |-> FALSE]) /\ KnownPg([type |-> "timestamp", tz |-> TRUE])
      /\ KnownPg([type |-> "time", tz |-> FALSE]) /\ KnownPg([type |-> "time", tz |-> TRUE])
  BY <1>2
<1> QED
  BY <1>3, <1>4, <1>5 DEF PgType

(* resolve gives one of these types for any text. *)
LEMMA ResolveKnown ==
    ASSUME NEW sql_type
    PROVE  KnownType(resolve(sql_type))
<1> DEFINE array == strip_array_suffix(Trim(sql_type, {" "}))
           split == split_params(array.base)
           name == normalise(split.name)
           pg == PgType(name, split.params)
<1>1. resolve(sql_type) = [pg |-> pg, dims |-> array.dims, recognised |-> pg.type # "text" \/ name \in TEXTUAL]
  BY DEF resolve
<1>2. KnownPg(pg)
  BY PgTypeKnown
<1> HIDE DEF array, split, name, pg
<1> QED
  BY <1>1, <1>2 DEF KnownType

-----------------------------------------------------------------------------
(* A new builder of scalars has the type of the column. *)
LEMMA DecimalBuilderType ==
    ASSUME NEW p \in Int, NEW s \in Int, ArrowAccepts(p, s)
    PROVE  LET b == DecimalBuilder(p, s)
           IN  IsScalar(b) /\ b.vals = <<>> /\ ArrayType(b) = Decimal128(p, s)
  BY DEF DecimalBuilder, IsScalar, ScalarKinds, ArrayType

(* A new text builder has the type of text. *)
LEMMA TextBuilderType == IsScalar(TextBuilder) /\ TextBuilder.vals = <<>> /\ ArrayType(TextBuilder) = Utf8
  BY DEF TextBuilder, IsScalar, ScalarKinds, ArrayType, Utf8

(* A new builder of the given type. *)
NewIsTyped(b, type) == IsScalar(b) /\ b.vals = <<>> /\ ArrayType(b) = type

(* A new builder of any scalar type has the type the schema declares. *)
LEMMA NewScalarType ==
    ASSUME NEW rt, NEW pg, KnownPg(pg), rt.pg = pg, rt.dims = 0, NEW wide
    PROVE  NewIsTyped(NewScalar(rt, wide), ScalarType(rt, wide))
<1>0. DOMAIN Native = {"smallint", "integer", "bigint", "real", "double", "boolean", "date", "timestamp", "time", "bytea"}
  BY DEF Native
<1>00. ~(rt.dims > 0)
  OBVIOUS
<1>1. CASE KnownNumeric(pg)
  <2>1. pg.type = "numeric"
    BY <1>1 DEF KnownNumeric
  <2>2. CASE wide /\ numeric_too_wide(pg.precision)
    <3>1. NewScalar(rt, wide) = DecimalBuilder(38, 18)
      BY <2>1, <2>2 DEF NewScalar, WIDE_NUMERIC_PRECISION, WIDE_NUMERIC_SCALE, MAX_DECIMAL_PRECISION
    <3>2. ScalarType(rt, wide) = Decimal128(38, 18)
      BY <1>0, <2>1, <2>2 DEF ScalarType, decimal_fits, numeric_too_wide, WIDE_NUMERIC_PRECISION, WIDE_NUMERIC_SCALE, MAX_DECIMAL_PRECISION
    <3>3. ArrowAccepts(38, 18)
      BY DEF ArrowAccepts
    <3> QED
      BY <3>1, <3>2, <3>3, DecimalBuilderType DEF NewIsTyped
  <2>3. CASE ~(wide /\ numeric_too_wide(pg.precision)) /\ decimal_fits(pg.precision, pg.scale)
    <3>1. NewScalar(rt, wide) = DecimalBuilder(pg.precision, pg.scale)
      BY <1>00, <2>1, <2>3 DEF NewScalar, is_textual
    <3>2. ScalarType(rt, wide) = Decimal128(pg.precision, pg.scale)
      BY <1>0, <2>1, <2>3 DEF ScalarType
    <3>3. PICK p, s : pg.precision = p /\ pg.scale = s /\ ((p = Null /\ s = Null) \/ Scaled(p, s))
      BY <1>1 DEF KnownNumeric
    <3>4. Scaled(p, s) /\ decimal_fits(p, s)
      BY <2>3, <3>3 DEF decimal_fits
    <3>5. p \in Int /\ s \in Int
      BY <3>4 DEF Scaled
    <3>6. ArrowAccepts(p, s)
      BY <3>4, <3>5 DEF Scaled, decimal_fits, ArrowAccepts, MAX_DECIMAL_PRECISION
    <3> QED
      BY <3>1, <3>2, <3>3, <3>5, <3>6, DecimalBuilderType DEF NewIsTyped
  <2>4. CASE ~(wide /\ numeric_too_wide(pg.precision)) /\ ~decimal_fits(pg.precision, pg.scale)
    <3>1. NewScalar(rt, wide) = TextBuilder
      BY <2>1, <2>4 DEF NewScalar, is_textual
    <3>2. ScalarType(rt, wide) = Utf8
      BY <1>0, <2>1, <2>4 DEF ScalarType
    <3> QED
      BY <3>1, <3>2, TextBuilderType DEF NewIsTyped
  <2> QED
    BY <2>2, <2>3, <2>4
<1>2. CASE \E t \in {"timestamp", "time"}, z \in BOOLEAN : pg = [type |-> t, tz |-> z]
  <2>1. pg.type \in {"timestamp", "time"}
    BY <1>2
  <2>2. ScalarType(rt, wide) = [arrow |-> Native[pg.type]]
    BY <1>0, <2>1 DEF ScalarType
  <2>3. CASE pg.type = "timestamp"
    BY <1>00, <2>2, <2>3 DEF NewScalar, is_textual, IsScalar, ScalarKinds, ArrayType, NewIsTyped, Native
  <2>4. CASE pg.type = "time"
    BY <1>00, <2>2, <2>4 DEF NewScalar, is_textual, IsScalar, ScalarKinds, ArrayType, NewIsTyped, Native
  <2> QED
    BY <2>1, <2>3, <2>4
<1>3. CASE \E t \in PlainTypes : pg = [type |-> t]
  <2>1. pg.type \in PlainTypes
    BY <1>3
  <2>2. CASE pg.type = "text"
    <3>1. NewScalar(rt, wide) = TextBuilder /\ ScalarType(rt, wide) = Utf8
      BY <1>0, <2>2 DEF NewScalar, is_textual, ScalarType
    <3> QED
      BY <3>1, TextBuilderType DEF NewIsTyped
  <2> DEFINE N == NewScalar(rt, wide)
  <2>3. pg.type # "text" => ScalarType(rt, wide) = [arrow |-> Native[pg.type]]
    BY <1>0, <2>1 DEF ScalarType, PlainTypes
  <2>4. CASE pg.type \in {"smallint", "integer", "bigint"}
    <3>1. N = [kind |-> "Int", width |-> pg.type, vals |-> <<>>]
      BY <1>00, <2>4 DEF NewScalar, is_textual
    <3> HIDE DEF N
    <3>2. N.kind = "Int" /\ N.width = pg.type /\ N.vals = <<>> /\ IsScalar(N)
      BY <3>1 DEF IsScalar, ScalarKinds
    <3>3. ArrayType(N) = [arrow |-> Native[pg.type]]
      BY <2>4, <3>2 DEF ArrayType, Native
    <3> QED
      BY <2>3, <2>4, <3>2, <3>3 DEF NewIsTyped, N
  <2>5. CASE pg.type \in {"real", "double"}
    <3>1. N = [kind |-> "Float", width |-> pg.type, vals |-> <<>>]
      BY <1>00, <2>5 DEF NewScalar, is_textual
    <3> HIDE DEF N
    <3>2. N.kind = "Float" /\ N.width = pg.type /\ N.vals = <<>> /\ IsScalar(N)
      BY <3>1 DEF IsScalar, ScalarKinds
    <3>3. ArrayType(N) = [arrow |-> Native[pg.type]]
      BY <2>5, <3>2 DEF ArrayType, Native
    <3> QED
      BY <2>3, <2>5, <3>2, <3>3 DEF NewIsTyped, N
  <2>6. ASSUME NEW k, \/ pg.type = "boolean" /\ k = "Boolean"
                      \/ pg.type = "date" /\ k = "Date"
                      \/ pg.type = "bytea" /\ k = "Binary"
        PROVE  NewIsTyped(N, ScalarType(rt, wide))
    <3>1. N = [kind |-> k, vals |-> <<>>]
      BY <1>00, <2>6 DEF NewScalar, is_textual
    <3> HIDE DEF N
    <3>2. N.kind = k /\ N.vals = <<>> /\ IsScalar(N)
      BY <2>6, <3>1 DEF IsScalar, ScalarKinds
    <3>3. ArrayType(N) = [arrow |-> Native[pg.type]]
      BY <2>6, <3>2 DEF ArrayType, Native
    <3> QED
      BY <2>3, <2>6, <3>2, <3>3 DEF NewIsTyped
  <2> QED
    BY <2>1, <2>2, <2>4, <2>5, <2>6 DEF PlainTypes
<1> QED
  BY <1>1, <1>2, <1>3 DEF KnownPg

(* A new builder is fresh and has the type of the column. *)
LEMMA NewBuilderType ==
    ASSUME NEW rt, KnownType(rt), NEW wide, NEW native
    PROVE  IsFresh(NewBuilder(rt, wide, native)) /\ ArrayType(NewBuilder(rt, wide, native)) = arrow_type(rt, wide, native)
<1> DEFINE B == NewBuilder(rt, wide, native)
           el == as_element(rt)
           E == NewScalar(el, wide)
<1>1. PICK pg, d, z : KnownPg(pg) /\ rt = [pg |-> pg, dims |-> d, recognised |-> z]
  BY DEF KnownType
<1>2. rt.pg = pg /\ el.pg = pg /\ el.dims = 0
  BY <1>1 DEF as_element
<1> HIDE DEF el
<1>3. NewIsTyped(E, ScalarType(el, wide))
  BY <1>1, <1>2, NewScalarType
<1> HIDE DEF E
<1>4. CASE rt.dims = 0
  <2>1. NewIsTyped(NewScalar(rt, wide), ScalarType(rt, wide))
    BY <1>1, <1>2, <1>4, NewScalarType
  <2>2. B = NewScalar(rt, wide) /\ arrow_type(rt, wide, native) = ScalarType(rt, wide)
    BY <1>4 DEF NewBuilder, arrow_type
  <2> QED
    BY <2>1, <2>2 DEF NewIsTyped, IsFresh
<1>5. CASE rt.dims # 0 /\ (native /\ rt.dims = 1 /\ array_element_type(el, wide) # Null)
  <2>1. B = NewList(E)
    BY <1>5 DEF NewBuilder, el, E
  <2>2. arrow_type(rt, wide, native) = ListOf(array_element_type(el, wide))
    BY <1>5 DEF arrow_type, el
  <2>3. array_element_type(el, wide) = ScalarType(el, wide)
    BY <1>5 DEF array_element_type
  <2>4. IsScalar(E) /\ E.vals = <<>> /\ ArrayType(E) = ScalarType(el, wide)
    BY <1>3 DEF NewIsTyped
  <2>5. NewList(E).kind = "List" /\ NewList(E).element = E
    BY DEF NewList
  <2>6. ArrayType(NewList(E)) = ListOf(ArrayType(E))
    BY <2>4, <2>5, ArrayTypeList, ScalarIsNoList
  <2>7. IsFresh(NewList(E))
    BY <2>4 DEF IsFresh
  <2> QED
    BY <2>1, <2>2, <2>3, <2>4, <2>6, <2>7
<1>6. CASE rt.dims # 0 /\ ~(native /\ rt.dims = 1 /\ array_element_type(el, wide) # Null)
  <2>1. B = TextBuilder /\ arrow_type(rt, wide, native) = Utf8
    BY <1>6 DEF NewBuilder, arrow_type, el
  <2> QED
    BY <2>1, TextBuilderType DEF IsFresh
<1> QED
  BY <1>4, <1>5, <1>6

-----------------------------------------------------------------------------
(***************************************************************************)
(* A row, a field and a value in a state                                   *)
(***************************************************************************)
(* A row is of bytes. *)
LEMMA RawBytes ==
    ASSUME TypeOK, NEW k \in DOMAIN load.rows
    PROVE  load.rows[k].raw \in Seq(0..255)
<1> DEFINE raw == load.rows[k].raw
<1>1. IsSeq(raw) /\ \A i \in DOMAIN raw : raw[i] \in 0..255
  BY DEF TypeOK, LoadOK
<1> HIDE DEF raw
<1>2. raw \in Seq(0..255)
  BY <1>1, AnySeq, DomainOfSeq
<1> QED
  BY <1>2 DEF raw

(* Min is the least element. *)
LEMMA LeastIsMin ==
    ASSUME NEW S, S \subseteq Nat, S # {}
    PROVE  Min(S) \in S /\ \A x \in S : Min(S) <= x
  BY Splitting!LeastNumber DEF Min

(* Where the field at hand ends. *)
LEMMA FieldEndOK ==
    ASSUME Raw \in Seq(0..255), pos \in 1..(Len(Raw) + 1)
    PROVE  /\ FieldEnd \in (pos - 1)..Len(Raw)
           /\ \A j \in pos..FieldEnd : Raw[j] # Tab
           /\ FieldEnd < Len(Raw) => FieldEnd + 1 \in 1..Len(Raw) /\ Raw[FieldEnd + 1] = Tab
<1> DEFINE S == {i \in pos..Len(Raw) : Raw[i] = Tab} \cup {Len(Raw) + 1}
           m == Min(S)
<1>0. Len(Raw) \in Nat /\ pos \in Nat /\ pos >= 1
  OBVIOUS
<1>1. S \subseteq Nat /\ S # {}
  BY <1>0
<1>2. m \in S /\ \A x \in S : m <= x
  <2> HIDE DEF S
  <2> QED
    BY <1>1, LeastIsMin
<1>3. FieldEnd = m - 1
  BY DEF FieldEnd
<1> HIDE DEF m
<1>4. m \in Nat /\ m >= pos /\ m <= Len(Raw) + 1 /\ (m <= Len(Raw) => Raw[m] = Tab)
  BY <1>0, <1>2
<1>5. \A j \in pos..(m - 1) : Raw[j] # Tab
  <2> SUFFICES ASSUME NEW j \in pos..(m - 1), Raw[j] = Tab PROVE FALSE
    OBVIOUS
  <2>1. j \in S
    BY <1>0, <1>4
  <2> QED
    BY <1>0, <1>2, <1>4, <2>1
<1>6. (m - 1) + 1 = m
  BY <1>4
<1> HIDE DEF S
<1> QED
  BY <1>0, <1>3, <1>4, <1>5, <1>6

(* The field at hand is the next of the fields that the row alone says. *)
NextIs(raw, before, field, at, end) ==
    /\ field \in Seq(0..255)
    /\ Len(field) = end - at + 1
    /\ Len(Fields(raw)) > Len(before)
    /\ Fields(raw)[Len(before) + 1] = field
    /\ \A j \in 1..Len(before) : Fields(raw)[j] = before[j]
    /\ end = Len(raw) => Len(Fields(raw)) = Len(before) + 1
    /\ end < Len(raw) => Cut(raw)[end + 1] = [fields |-> Append(before, field), rest |-> <<>>]

(* The bytes up to the next tab, or the end, are the row's next field. *)
LEMMA NextFieldIs ==
    ASSUME NEW raw \in Seq(0..255), NEW p \in 1..(Len(raw) + 1), NEW e \in (p - 1)..Len(raw),
           \A j \in p..e : raw[j] # Tab,
           e < Len(raw) => e + 1 \in 1..Len(raw) /\ raw[e + 1] = Tab,
           Cut(raw)[p - 1].rest = <<>>
    PROVE  NextIs(raw, Cut(raw)[p - 1].fields, SubSeq(raw, p, e), p, e)
<1> DEFINE before == Cut(raw)[p - 1].fields
           field == SubSeq(raw, p, e)
<1>0. Len(raw) \in Nat /\ p \in Nat /\ e \in Nat /\ p - 1 \in 0..Len(raw) /\ e \in 0..Len(raw)
  OBVIOUS
<1>1. field \in Seq(0..255) /\ Len(field) = e - p + 1
  <2> DEFINE T == 0..255
  <2>1. raw \in Seq(T)
    OBVIOUS
  <2> HIDE DEF T
  <2>2. SubSeq(raw, p, e) \in Seq(T) /\ Len(SubSeq(raw, p, e)) = e - p + 1
    BY <1>0, <2>1, SubSeqProperties
  <2> QED
    BY <2>2 DEF T
<1>2. Cut(raw)[e].fields = before /\ Cut(raw)[e].rest = field
  BY CutRun
<1>3. before \in Seq(Seq(0..255)) /\ Len(before) \in Nat
  BY <1>0, CutTyped DEF Cuts
<1>4. Len(Fields(raw)) > Len(before) /\ \A j \in 1..Len(before) : Fields(raw)[j] = before[j]
  BY <1>0, FieldsKeep
<1> SUFFICES NextIs(raw, before, field, p, e)
  OBVIOUS
<1> HIDE DEF before, field
<1>5. IsSeq(before)
  BY <1>3, SeqIsSeq
<1>6. CASE e = Len(raw)
  <2>1. Fields(raw) = Append(before, field)
    BY <1>2, <1>6 DEF Fields
  <2>2. Len(Append(before, field)) = Len(before) + 1 /\ Append(before, field)[Len(before) + 1] = field
    BY <1>5, AppendAny
  <2> QED
    BY <1>1, <1>4, <1>6, <2>1, <2>2 DEF NextIs
<1>7. CASE e < Len(raw)
  <2>1. e + 1 \in 1..Len(raw) /\ raw[e + 1] = Tab /\ (e + 1) - 1 = e /\ e + 1 \in 0..Len(raw)
    BY <1>0, <1>7
  <2>2. Cut(raw)[e + 1] = SplitByte(Cut(raw)[e], raw[e + 1])
    BY <2>1, CutStep
  <2>3. Cut(raw)[e + 1] = [fields |-> Append(before, field), rest |-> <<>>]
    BY <1>2, <2>1, <2>2 DEF SplitByte
  <2>4. Cut(raw)[e + 1].fields = Append(before, field)
    BY <2>3
  <2>5. Len(Append(before, field)) = Len(before) + 1 /\ Append(before, field)[Len(before) + 1] = field
    BY <1>5, AppendAny
  <2>6. Fields(raw)[Len(before) + 1] = field
    <3>1. \A j \in 1..Len(Cut(raw)[e + 1].fields) : Fields(raw)[j] = Cut(raw)[e + 1].fields[j]
      BY <2>1, FieldsKeep
    <3>2. Len(before) + 1 \in 1..Len(Cut(raw)[e + 1].fields)
      BY <1>3, <2>4, <2>5
    <3> QED
      BY <2>4, <2>5, <3>1, <3>2
  <2> QED
    BY <1>0, <1>1, <1>4, <1>7, <2>3, <2>6 DEF NextIs
<1> QED
  BY <1>0, <1>6, <1>7

-----------------------------------------------------------------------------
(* The value of a field. *)
LEMMA FieldValueOK ==
    ASSUME NEW field \in Seq(0..255)
    PROVE  /\ Unescape(field).err \in EscapeErrors
           /\ Unescape(field).out \in Seq(0..255)
           /\ Len(Unescape(field).out) <= Len(field)
           /\ FieldValue(field) = Null \/ IsSeq(FieldValue(field))
<1>1. /\ Unescape(field).err \in EscapeErrors
      /\ Unescape(field).out \in Seq(0..255)
      /\ Len(Unescape(field).out) <= Len(field)
  BY UnescapeTyped
<1>2. IsSeq(Unescape(field).out)
  BY <1>1, SeqIsSeq
<1> QED
  BY <1>1, <1>2 DEF FieldValue

(* The builders a block starts with. *)
LEMMA FreshOK ==
    ASSUME BlockOK, NEW i \in DOMAIN columns
    PROVE  /\ IsFresh(Fresh(i))
           /\ ArrayType(Fresh(i)) = schema[i]
           /\ FinishBuilder(Fresh(i)) = Fresh(i)
           /\ Fresh(i) = Filled(Fresh(i), Fresh(i)) /\ BuilderOK(Fresh(i)) /\ Entries(Fresh(i)) = 0
<1>1. KnownType(columns[i].type)
  BY ResolveKnown DEF BlockOK
<1>2. IsFresh(Fresh(i)) /\ ArrayType(Fresh(i)) = arrow_type(columns[i].type, load.wide, load.native)
  BY <1>1, NewBuilderType DEF Fresh
<1>3. schema[i] = arrow_type(columns[i].type, load.wide, load.native)
  BY DEF BlockOK
<1>4. Fresh(i) = Filled(Fresh(i), Fresh(i))
  BY <1>2, FreshIsFilled
<1> QED
  BY <1>2, <1>3, <1>4, FinishedIsFresh

(* How a field, read alone, may fail. *)
LEMMA ReadOK ==
    ASSUME TypeOK, BlockOK, NEW k \in DOMAIN load.rows, NEW i \in DOMAIN columns,
           i \in 1..Len(Fields(load.rows[k].raw))
    PROVE  Read(k, i).err \in ValueErrors /\ Read(k, i).subst \in BOOLEAN
<1> DEFINE f == Fresh(i)
           v == FieldValue(Fields(load.rows[k].raw)[i])
<1>1. Fields(load.rows[k].raw)[i] \in Seq(0..255)
  BY RawBytes, FieldsTyped, ElementOfSeq
<1>2. v = Null \/ IsSeq(v)
  BY <1>1, FieldValueOK
<1>3. IsFresh(f) /\ f = Filled(f, f) /\ BuilderOK(f)
  BY FreshOK
<1>4. Read(k, i) = AppendValue(f, v)
  BY DEF Read
<1> HIDE DEF f, v
<1>5. ReadsAs(f, f, v, AppendValue(f, v), AppendValue(f, v))
  BY <1>2, <1>3, AppendValueReads
<1> QED
  BY <1>4, <1>5 DEF ReadsAs

-----------------------------------------------------------------------------
(***************************************************************************)
(* The first state, and steps of others                                    *)
(***************************************************************************)
(* What a row says depends on the load and the block only. *)
LEMMA SameTable ==
    ASSUME load' = load, columns' = columns
    PROVE  /\ \A k, i : Read(k, i)' = Read(k, i)
           /\ \A i : Fresh(i)' = Fresh(i)
           /\ \A k : StoredRow(k)' = StoredRow(k)
           /\ \A k : RowIsGood(k)' = RowIsGood(k)
           /\ \A i, n : Substituted(i, n)' = Substituted(i, n)
<1>1. \A i : Fresh(i)' = Fresh(i)
  BY DEF Fresh
<1>2. \A k, i : Read(k, i)' = Read(k, i)
  BY <1>1 DEF Read
<1>3. \A k : StoredRow(k)' = StoredRow(k)
  BY <1>2 DEF StoredRow
<1>4. \A k : RowIsGood(k)' = RowIsGood(k)
  BY <1>2 DEF RowIsGood
<1>5. \A i, n : Substituted(i, n)' = Substituted(i, n)
  BY <1>2 DEF Substituted
<1> QED
  BY <1>1, <1>2, <1>3, <1>4, <1>5

(* The invariant holds before anything is read. *)
LEMMA InitHolds ==
    ASSUME Init
    PROVE  IInv
<1>1. IsSeq(<<>>) /\ Len(<<>>) = 0 /\ DOMAIN <<>> = {}
  BY EmptyIsSeq
<1>2. LoadOK(load)
  BY LoadsAssumption DEF Init
<1>3. TypeOK
  <2>1. IsSeq(load.creates) /\ load.creates # <<>>
    BY <1>2 DEF LoadOK
  <2>2. Len(load.creates) \in Nat /\ Len(load.creates) # 0
    <3>1. Len(load.creates) \in Nat
      BY <2>1, DomainOfSeq
    <3>2. CASE Len(load.creates) = 0
      BY <1>1, <2>1, <3>2, EqualAny
    <3> QED
      BY <3>1, <3>2
  <2>3. 1 \in 1..Len(load.creates)
    BY <2>2
  <2> QED
    BY <1>1, <1>2, <2>3 DEF Init, TypeOK, DdlErrors, DecodeErrors
<1>4. RangesOK
  BY <1>1 DEF Init, RangesOK
<1>5. FieldsOK /\ ColumnsOK /\ BytesOK
  BY LimitsAssumption DEF Init, FieldsOK, ColumnsOK, BytesOK
<1>6. BlockOK
  <2>1. <<>> = [i \in DOMAIN <<>> |-> <<>>[i]]
    BY <1>1 DEF IsSeq
  <2>2. schema = [i \in DOMAIN columns |-> arrow_type(columns[i].type, load.wide, load.native)]
    BY <1>1, <2>1 DEF Init
  <2> QED
    BY <1>1, <2>1, <2>2 DEF Init, BlockOK
<1>7. BuildersOK /\ SubsOK
  BY <1>1 DEF Init, BuildersOK, SubsOK
<1>8. RowsAreDecoded
  BY <1>1 DEF Init, RowsAreDecoded, DecodeErrors
<1> QED
  BY <1>3, <1>4, <1>5, <1>6, <1>7, <1>8 DEF IInv

(* Nothing of the invariant is about what a step leaves alone. *)
LEMMA StutterKeeps ==
    ASSUME IInv, UNCHANGED vars
    PROVE  IInv'
<1> USE DEF vars
<1>1. TypeOK' /\ RangesOK'
  BY DEF IInv, TypeOK, RangesOK
<1>2. \A r : ValueOf(r)' = ValueOf(r)
  BY DEF ValueOf
<1>3. Raw' = Raw
  BY DEF Raw
<1>4. FieldsOK'
  BY <1>2, <1>3 DEF IInv, FieldsOK
<1>5. ColumnsOK'
  BY <1>2, <1>3, SameTable DEF IInv, ColumnsOK
<1>6. BlockOK' /\ BytesOK'
  BY DEF IInv, BlockOK, BytesOK
<1>7. BuildersOK' /\ SubsOK'
  BY SameTable DEF IInv, BuildersOK, SubsOK
<1>8. RowsAreDecoded'
  <2>1. /\ \A k, i : Read(k, i)' = Read(k, i)
        /\ \A k : StoredRow(k)' = StoredRow(k)
        /\ \A k : RowIsGood(k)' = RowIsGood(k)
    BY SameTable
  <2>2. RowsAreDecoded
    BY DEF IInv
  <2>3. \A k \in DOMAIN file : file[k] = StoredRow(k)'
    BY <2>1, <2>2 DEF RowsAreDecoded
  <2>4. \A i \in DOMAIN columns : \A r \in 1..Entries(cols[i]) :
          \A k : k = Len(file) + r => Entry(cols[i], r) = Entry(Read(k, i)'.builder, 1)
    BY <2>1, <2>2 DEF RowsAreDecoded
  <2>5. \A k \in 1..(Len(file) + rows) : k \in DOMAIN load.rows /\ RowIsGood(k)'
    BY <2>1, <2>2 DEF RowsAreDecoded
  <2>6. status \in DecodeErrors => \A k : k = next => ~RowIsGood(k)'
    BY <2>1, <2>2 DEF RowsAreDecoded
  <2> QED
    BY <2>2, <2>3, <2>4, <2>5, <2>6 DEF RowsAreDecoded
<1> QED
  BY <1>1, <1>4, <1>5, <1>6, <1>7, <1>8 DEF IInv

-----------------------------------------------------------------------------
(***************************************************************************)
(* The statements, the header, the first and the last step of a block      *)
(***************************************************************************)
(* What a load may stop with. *)
FailErrors == DdlErrors \cup DecodeErrors \cup {"skipped", "StorageFailed"}

(* A load that stops keeps what it has. *)
LEMMA FailKeeps ==
    ASSUME IInv, RangesOK', step' = "end", status' \in FailErrors,
           UNCHANGED <<load, columns, schema, cols, rows, bytes, subs, file>>,
           next' \in 1..(Len(load.rows) + 1),
           status' \in DecodeErrors => next' = next /\ next \in DOMAIN load.rows /\ ~RowIsGood(next)
    PROVE  IInv'
<1>0. status' # "running" /\ status' # "closed"
  BY DEF FailErrors, DdlErrors, DecodeErrors
<1>1. TypeOK'
  BY <1>0 DEF IInv, TypeOK, FailErrors
<1>2. FieldsOK' /\ ColumnsOK'
  BY DEF FieldsOK, ColumnsOK
<1>3. BlockOK' /\ BytesOK'
  BY DEF IInv, BlockOK, BytesOK
<1>4. SubsOK'
  BY <1>0 DEF SubsOK
<1>5. BuildersOK'
  BY <1>0, SameTable DEF IInv, BuildersOK
<1>6. RowsAreDecoded'
  <2>1. /\ \A k \in DOMAIN file : file[k] = StoredRow(k)
        /\ \A i \in DOMAIN columns : \A r \in 1..Entries(cols[i]) :
              Entry(cols[i], r) = Entry(Read(Len(file) + r, i).builder, 1)
        /\ \A k \in 1..(Len(file) + rows) : k \in DOMAIN load.rows /\ RowIsGood(k)
    BY DEF IInv, RowsAreDecoded
  <2>2. (status \in DecodeErrors => ~RowIsGood(next))'
    BY SameTable
  <2> QED
    BY <1>0, <2>1, <2>2, SameTable DEF RowsAreDecoded
<1> QED
  BY <1>1, <1>2, <1>3, <1>4, <1>5, <1>6 DEF IInv

(* A step within the statements. *)
LEMMA CreateTableKeeps ==
    ASSUME IInv, CreateTable
    PROVE  IInv'
<1>0. step = "create" /\ UNCHANGED <<load, columns, pos, count, scratch, ranges, schema, cols, rows, bytes, subs, file>>
      /\ next' = (IF step' = "create" THEN next + 1 ELSE 1)
  BY DEF CreateTable
<1>1. RangesOK'
  BY <1>0 DEF IInv, RangesOK
<1>2. Len(load.rows) \in Nat /\ Len(load.creates) \in Nat /\ 1 \in 1..(Len(load.rows) + 1)
  BY DomainOfSeq DEF IInv, TypeOK, LoadOK
<1>3. \/ step' = (IF next < Len(load.creates) THEN "create" ELSE "copy") /\ UNCHANGED status
      \/ step' = "end" /\ status' = "MalformedCreateTable"
  BY DEF CreateTable, Define, Fail
<1>4. CASE step' = "end" /\ status' = "MalformedCreateTable"
  <2>1. status' \in FailErrors /\ status' \notin DecodeErrors
    BY <1>4 DEF FailErrors, DdlErrors, DecodeErrors
  <2> QED
    BY <1>0, <1>1, <1>2, <1>4, <2>1, FailKeeps
<1>5. CASE step' = (IF next < Len(load.creates) THEN "create" ELSE "copy") /\ UNCHANGED status
  <2>1. status = "running" /\ next \in 1..Len(load.creates) /\ columns = <<>> /\ rows = 0 /\ bytes = 0 /\ file = <<>>
    BY <1>0 DEF IInv, TypeOK, BlockOK
  <2>2. TypeOK'
    <3>1. step' = "create" => next + 1 \in 1..Len(load.creates)
      BY <1>2, <1>5, <2>1
    <3> QED
      BY <1>0, <1>2, <1>5, <2>1, <3>1 DEF IInv, TypeOK, DecodeErrors
  <2>3. FieldsOK' /\ ColumnsOK' /\ BytesOK'
    BY <1>0, <1>5 DEF IInv, FieldsOK, ColumnsOK, BytesOK
  <2>4. BlockOK'
    BY <1>0, <1>5, <2>1 DEF IInv, BlockOK
  <2>5. DOMAIN <<>> = {} /\ Len(<<>>) = 0
    BY EmptyIsSeq
  <2>6. BuildersOK' /\ SubsOK'
    BY <1>0, <2>1, <2>5 DEF BuildersOK, SubsOK
  <2>7. RowsAreDecoded'
    BY <1>0, <1>5, <2>1, <2>5 DEF RowsAreDecoded, DecodeErrors
  <2> QED
    BY <1>1, <2>2, <2>3, <2>4, <2>6, <2>7 DEF IInv
<1> QED
  BY <1>3, <1>4, <1>5

(* The block is opened. *)
LEMMA OpenBlockKeeps ==
    ASSUME IInv, step = "copy", NEW found, OpenBlock(found), IsSeq(found),
           \A k \in DOMAIN found : found[k].type = resolve(found[k].sql_type),
           UNCHANGED <<load, next, pos, count, scratch, ranges, rows, bytes, file>>
    PROVE  IInv'
<1>0. /\ columns' = found
      /\ schema' = [k \in DOMAIN found |-> arrow_type(found[k].type, load.wide, load.native)]
      /\ cols' = [k \in DOMAIN found |-> NewBuilder(found[k].type, load.wide, load.native)]
      /\ subs' = [k \in DOMAIN found |-> 0]
      /\ step' = "row" /\ UNCHANGED status
  BY DEF OpenBlock
<1>1. columns = <<>> /\ rows = 0 /\ bytes = 0 /\ file = <<>> /\ status = "running"
  BY DEF IInv, BlockOK, TypeOK
<1>2. DOMAIN <<>> = {} /\ Len(<<>>) = 0 /\ IsSeq(<<>>)
  BY EmptyIsSeq
<1>3. next = 1
  BY <1>1, <1>2 DEF IInv, RowsAreDecoded
<1>4. TypeOK'
  BY <1>0, <1>1 DEF IInv, TypeOK, DecodeErrors
<1>5. RangesOK' /\ FieldsOK' /\ ColumnsOK'
  BY <1>0 DEF IInv, RangesOK, FieldsOK, ColumnsOK
<1>6. BlockOK'
  <2>1. cols' = [i \in DOMAIN found |-> cols'[i]] /\ subs' = [i \in DOMAIN found |-> subs'[i]]
    BY <1>0
  <2> QED
    BY <1>0, <2>1 DEF BlockOK
<1>7. ASSUME NEW i \in DOMAIN found
      PROVE  /\ cols'[i] = Fresh(i)' /\ subs'[i] = 0
             /\ Fresh(i)' = Filled(Fresh(i)', Fresh(i)') /\ BuilderOK(Fresh(i)') /\ Entries(Fresh(i)') = 0
  <2> DEFINE b == NewBuilder(found[i].type, load.wide, load.native)
  <2>1. Fresh(i)' = b
    BY <1>0 DEF Fresh
  <2>2. IsFresh(b)
    BY ResolveKnown, NewBuilderType
  <2> HIDE DEF b
  <2>3. b = Filled(b, b) /\ BuilderOK(b) /\ Entries(b) = 0
    BY <2>2, FreshIsFilled, FinishedIsFresh
  <2> QED
    BY <1>0, <2>1, <2>3 DEF b
<1>8. BuildersOK'
  BY <1>0, <1>1, <1>7 DEF BuildersOK
<1>9. SubsOK'
  <2>1. ASSUME NEW i \in DOMAIN found PROVE subs'[i] = Cardinality(Substituted(i, Len(file) + Entries(cols[i]))')
    <3>1. Len(file') + Entries(cols'[i]) = 0
      BY <1>1, <1>2, <1>7
    <3>2. Substituted(i, Len(file) + Entries(cols[i]))' = {}
      BY <3>1 DEF Substituted
    <3> QED
      BY <1>7, <3>2, FS_EmptySet
  <2> QED
    BY <1>0, <2>1 DEF SubsOK
<1>10. RowsAreDecoded'
  <2>1. \A i \in DOMAIN found : 1..Entries(cols'[i]) = {}
    BY <1>7
  <2> QED
    <3>1. DOMAIN file' = {} /\ Len(file') = 0 /\ rows' = 0 /\ 1..(Len(file') + rows') = {}
      BY <1>1, <1>2
    <3>2. next' = Len(file') + rows' + 1 /\ step' = "row" /\ status' \notin DecodeErrors
      BY <1>0, <1>1, <1>3, <3>1 DEF DecodeErrors
    <3>3. (\A i \in DOMAIN columns : \A r \in 1..Entries(cols[i]) :
              Entry(cols[i], r) = Entry(Read(Len(file) + r, i).builder, 1))'
      BY <1>0, <2>1
    <3> QED
      BY <3>1, <3>2, <3>3 DEF RowsAreDecoded
<1>11. BytesOK'
  BY <1>0, <1>1, LimitsAssumption DEF BytesOK
<1> QED
  BY <1>4, <1>5, <1>6, <1>8, <1>9, <1>10, <1>11 DEF IInv

(* A step at the header. *)
LEMMA CopyStartKeeps ==
    ASSUME IInv, CopyStart
    PROVE  IInv'
<1> DEFINE header == parse_copy_header(load.copy)
           names == header.columns
<1>0. step = "copy" /\ BeginCopy(header) /\ UNCHANGED <<load, defs, next, pos, count, scratch, ranges, rows, bytes, file>>
  BY DEF CopyStart
<1>1. header # Null => IsSeq(names)
  BY DEF IInv, TypeOK, LoadOK
<1> HIDE DEF header
<1>2. CASE step' = "end" /\ status' \in DdlErrors \cup {"skipped"} /\ UNCHANGED <<columns, schema, cols, subs>>
  <2>1. RangesOK'
    BY <1>0 DEF IInv, RangesOK
  <2>2. status' \in FailErrors /\ status' \notin DecodeErrors
    BY <1>2 DEF FailErrors, DdlErrors, DecodeErrors
  <2>3. next' \in 1..(Len(load.rows) + 1)
    BY <1>0 DEF IInv, TypeOK
  <2> QED
    BY <1>0, <1>2, <2>1, <2>2, <2>3, FailKeeps
<1>3. CASE header # Null /\ OpenBlock(resolve_copy_columns(defs[qualified(header.table)], names))
  <2> DEFINE found == resolve_copy_columns(defs[qualified(header.table)], names)
  <2>1. /\ found = [k \in DOMAIN names |-> found[k]]
        /\ \A k \in DOMAIN names : found[k].type = resolve(found[k].sql_type)
    BY DEF resolve_copy_columns
  <2>2. DOMAIN names = 1..Len(names) /\ Len(names) \in Nat
    BY <1>1, <1>3, DomainOfSeq
  <2>3. OpenBlock(found)
    BY <1>3
  <2> HIDE DEF found, names
  <2>4. IsSeq(found) /\ DOMAIN found = DOMAIN names
    BY <2>1, <2>2, MappedIsSeq
  <2> QED
    BY <1>0, <2>1, <2>3, <2>4, OpenBlockKeeps
<1>4. CopyError(header) # "none" => CopyError(header) \in DdlErrors
  BY DEF CopyError, DdlErrors
<1>5. CopyError(header) = "none" => header # Null
  BY DEF CopyError
<1> QED
  BY <1>0, <1>2, <1>3, <1>4, <1>5 DEF BeginCopy, Fail

(* A row begins, or is too large. *)
LEMMA BeginRowKeeps ==
    ASSUME IInv, BeginRow
    PROVE  IInv'
<1>0. /\ step = "row" /\ next <= Len(load.rows) /\ scratch' = <<>> /\ ranges' = <<>> /\ pos' = 1 /\ count' = 0
      /\ UNCHANGED <<load, columns, schema, next, cols, rows, bytes, subs, file>>
  BY DEF BeginRow, table, batch
<1>1. IsSeq(<<>>) /\ Len(<<>>) = 0 /\ DOMAIN <<>> = {}
  BY EmptyIsSeq
<1>2. RangesOK'
  BY <1>0, <1>1 DEF RangesOK
<1>3. next \in 1..(Len(load.rows) + 1) /\ DOMAIN load.rows = 1..Len(load.rows) /\ Len(load.rows) \in Nat
  BY <1>0, DomainOfSeq DEF IInv, TypeOK, LoadOK
<1>4. next \in DOMAIN load.rows
  BY <1>0, <1>3
<1>5. Raw \in Seq(0..255) /\ Len(Raw) \in Nat
  BY <1>4, RawBytes DEF IInv, Raw
<1>6. CASE Len(Raw) > MaxRow
  <2>1. step' = "end" /\ status' = "RowTooLarge"
    BY <1>6 DEF BeginRow, Fail
  <2>2. ~RowIsGood(next)
    BY <1>5, <1>6, LimitsAssumption DEF RowIsGood, Raw
  <2>3. status' \in FailErrors
    BY <2>1 DEF FailErrors, DecodeErrors
  <2> QED
    BY <1>0, <1>2, <1>3, <1>4, <2>1, <2>2, <2>3, FailKeeps
<1>7. CASE ~(Len(Raw) > MaxRow)
  <2>1. step' = "fields" /\ UNCHANGED status
    BY <1>7 DEF BeginRow
  <2>2. TypeOK'
    BY <1>0, <1>4, <2>1 DEF IInv, TypeOK
  <2>3. FieldsOK'
    <3>1. Raw' = Raw
      BY <1>0 DEF Raw
    <3>2. Cut(Raw)[0] = [fields |-> <<>>, rest |-> <<>>]
      BY <1>5, CutStep
    <3>3. 1 \in 1..(Len(Raw) + 1) /\ Len(Raw) <= MaxRow /\ 0 <= MaxColumns /\ 1 - 1 = 0
      BY <1>5, <1>7, LimitsAssumption
    <3>4. Cut(Raw')[pos' - 1].fields = <<>> /\ Cut(Raw')[pos' - 1].rest = <<>>
      BY <1>0, <3>1, <3>2, <3>3
    <3> QED
      BY <1>0, <1>1, <3>1, <3>3, <3>4 DEF FieldsOK
  <2>4. ColumnsOK' /\ BlockOK' /\ BytesOK'
    BY <1>0, <2>1 DEF IInv, ColumnsOK, BlockOK, BytesOK
  <2>5. BuildersOK'
    BY <1>0, <2>1, SameTable DEF IInv, BuildersOK
  <2>6. SubsOK'
    BY <1>0, <2>1, SameTable DEF IInv, SubsOK
  <2>7. RowsAreDecoded'
    BY <1>0, <2>1, SameTable DEF IInv, RowsAreDecoded
  <2> QED
    BY <1>2, <2>2, <2>3, <2>4, <2>5, <2>6, <2>7 DEF IInv
<1> QED
  BY <1>6, <1>7

(* The files are staged, or storage fails. *)
LEMMA StageKeeps ==
    ASSUME IInv, Stage
    PROVE  IInv'
<1>0. /\ step = "stage" /\ step' = "end" /\ status' \in {"closed", "StorageFailed"}
      /\ UNCHANGED <<load, columns, schema, next, cols, rows, bytes, subs, file, scratch, ranges>>
  BY DEF Stage, table, batch
<1>1. RangesOK' /\ FieldsOK' /\ ColumnsOK' /\ BlockOK' /\ BytesOK'
  BY <1>0 DEF IInv, RangesOK, FieldsOK, ColumnsOK, BlockOK, BytesOK
<1>2. TypeOK'
  BY <1>0 DEF IInv, TypeOK, DecodeErrors
<1>3. BuildersOK'
  BY <1>0, SameTable DEF IInv, BuildersOK
<1>4. SubsOK'
  BY <1>0, SameTable DEF IInv, SubsOK
<1>5. RowsAreDecoded'
  BY <1>0, SameTable DEF IInv, RowsAreDecoded, DecodeErrors
<1> QED
  BY <1>1, <1>2, <1>3, <1>4, <1>5 DEF IInv

-----------------------------------------------------------------------------
(***************************************************************************)
(* Ranges of the scratch buffer                                            *)
(***************************************************************************)
(* A range of s. *)
RangeIn(r, s) == /\ r \in [from : Nat, to : Nat]
                 /\ r.from >= 1 /\ r.to >= r.from - 1 /\ r.to <= Len(s)
(* Ranges of s that follow one another. *)
RangesIn(s, rs) ==
    /\ IsSeq(s) /\ IsSeq(rs)
    /\ \A i \in DOMAIN s : s[i] \in 0..255
    /\ \A i \in DOMAIN rs : rs[i] # Null =>
          /\ RangeIn(rs[i], s)
          /\ \A j \in DOMAIN rs : j < i /\ rs[j] # Null => rs[j].to < rs[i].from
(* What a range holds. *)
ValueIn(s, r) == IF r = Null THEN Null ELSE SubSeq(s, r.from, r.to)

(* The same, of the state's ranges before and after a step. *)
LEMMA RangesInOK ==
    /\ RangesOK <=> RangesIn(scratch, ranges)
    /\ RangesOK' <=> RangesIn(scratch', ranges')
    /\ \A r : ValueOf(r) = ValueIn(scratch, r)
    /\ \A r : ValueOf(r)' = ValueIn(scratch', r)
<1>1. RangesOK <=> RangesIn(scratch, ranges)
  BY DEF RangesOK, RangesIn, RangeIn
<1>2. RangesOK' <=> RangesIn(scratch', ranges')
  BY DEF RangesOK, RangesIn, RangeIn
<1> QED
  BY <1>1, <1>2 DEF ValueOf, ValueIn

(* The range that v has when it is added to s, or NULL. *)
IsRange(r, s, v) == r = Null \/ r = [from |-> Len(s) + 1, to |-> Len(s \o v)]

(* One more field, after the others. *)
LEMMA RangesAppend ==
    ASSUME NEW s, NEW rs, RangesIn(s, rs), NEW v, IsSeq(v), \A k \in 1..Len(v) : v[k] \in 0..255, NEW r,
           IsRange(r, s, v)
    PROVE  /\ RangesIn(s \o v, Append(rs, r))
           /\ \A j \in 1..Len(rs) : ValueIn(s \o v, Append(rs, r)[j]) = ValueIn(s, rs[j])
           /\ Append(rs, r)[Len(rs) + 1] = r /\ Len(Append(rs, r)) = Len(rs) + 1
           /\ r # Null => ValueIn(s \o v, r) = v
           /\ Len(s \o v) = Len(s) + Len(v)
<1> DEFINE t == s \o v
           q == Append(rs, r)
<1>0. IsSeq(s) /\ IsSeq(rs) /\ IsSeq(v) /\ Len(s) \in Nat /\ Len(rs) \in Nat /\ Len(v) \in Nat
      /\ DOMAIN s = 1..Len(s) /\ DOMAIN rs = 1..Len(rs)
  BY DomainOfSeq DEF RangesIn
<1>1. IsSeq(t) /\ Len(t) = Len(s) + Len(v) /\ (\A k \in 1..Len(s) : t[k] = s[k]) /\ \A k \in 1..Len(v) : t[Len(s) + k] = v[k]
  BY <1>0, ConcatAny
<1>2. IsSeq(q) /\ Len(q) = Len(rs) + 1 /\ (\A k \in 1..Len(rs) : q[k] = rs[k]) /\ q[Len(rs) + 1] = r
  BY <1>0, AppendAny
<1>3. /\ SubSeq(t, Len(s) + 1, Len(s) + Len(v)) = v
      /\ \A m \in 1..(Len(s) + 1) : \A n \in (m - 1)..Len(s) : SubSeq(t, m, n) = SubSeq(s, m, n)
  BY <1>0, SubSeqOfConcat
<1>4. DOMAIN t = 1..Len(t) /\ DOMAIN q = 1..Len(q)
  BY <1>1, <1>2, DomainOfSeq
<1>5. r # Null => r = [from |-> Len(s) + 1, to |-> Len(t)]
  BY DEF IsRange
<1> HIDE DEF t, q
<1>6. r # Null => RangeIn(r, t) /\ r.from = Len(s) + 1 /\ r.to = Len(s) + Len(v)
  BY <1>0, <1>1, <1>5 DEF RangeIn
<1>7. ASSUME NEW i \in DOMAIN t PROVE t[i] \in 0..255
  <2>1. CASE i \in 1..Len(s)
    BY <1>0, <1>1, <2>1 DEF RangesIn
  <2>2. CASE i \notin 1..Len(s)
    <3>1. i - Len(s) \in 1..Len(v) /\ i = Len(s) + (i - Len(s))
      <4>1. i \in 1..(Len(s) + Len(v))
        BY <1>1, <1>4
      <4>2. ASSUME NEW p \in Nat, NEW n \in Nat, NEW k \in 1..(p + n), k \notin 1..p
            PROVE  k - p \in 1..n /\ k = p + (k - p)
        BY <4>2
      <4> QED
        BY <1>0, <2>2, <4>1, <4>2
    <3>2. t[i] = v[i - Len(s)]
      BY <1>1, <3>1
    <3>3. v[i - Len(s)] \in 0..255
      BY <3>1
    <3> QED
      BY <3>2, <3>3
  <2> QED
    BY <2>1, <2>2
<1>8. ASSUME NEW j \in 1..Len(rs), rs[j] # Null
      PROVE  /\ rs[j] \in [from : Nat, to : Nat]
             /\ rs[j].from \in Nat /\ rs[j].to \in Nat
             /\ rs[j].from >= 1 /\ rs[j].to >= rs[j].from - 1 /\ rs[j].to <= Len(s)
             /\ \A k \in 1..Len(rs) : k < j /\ rs[k] # Null => rs[k].to < rs[j].from
  BY <1>0, <1>8 DEF RangesIn, RangeIn
<1>9. ASSUME NEW i \in DOMAIN q, q[i] # Null
      PROVE  /\ RangeIn(q[i], t)
             /\ \A j \in DOMAIN q : j < i /\ q[j] # Null => q[j].to < q[i].from
  <2>1. CASE i \in 1..Len(rs)
    <3>1. q[i] = rs[i]
      BY <1>2, <2>1
    <3>2. RangeIn(rs[i], t)
      BY <1>0, <1>1, <1>8, <1>9, <2>1, <3>1 DEF RangeIn
    <3>3. ASSUME NEW j \in DOMAIN q, j < i, q[j] # Null PROVE q[j].to < q[i].from
      <4>1. j \in 1..Len(rs)
        BY <1>0, <1>2, <1>4, <2>1, <3>3
      <4> QED
        BY <1>2, <1>8, <1>9, <2>1, <3>1, <3>3, <4>1
    <3> QED
      BY <3>1, <3>2, <3>3
  <2>2. CASE i = Len(rs) + 1
    <3>1. q[i] = r
      BY <1>2, <2>2
    <3>2. ASSUME NEW j \in DOMAIN q, j < i, q[j] # Null PROVE q[j].to < q[i].from
      <4>1. j \in 1..Len(rs)
        BY <1>0, <1>2, <1>4, <2>2, <3>2
      <4>2. q[j] = rs[j] /\ rs[j].to <= Len(s) /\ rs[j].to \in Nat
        BY <1>2, <1>8, <3>2, <4>1
      <4> QED
        BY <1>0, <1>6, <1>9, <3>1, <4>2
    <3> QED
      BY <1>6, <1>9, <3>1, <3>2
  <2> QED
    BY <1>0, <1>2, <1>4, <2>1, <2>2
<1>10. RangesIn(t, q)
  BY <1>1, <1>2, <1>7, <1>9 DEF RangesIn
<1>11. ASSUME NEW j \in 1..Len(rs) PROVE ValueIn(t, q[j]) = ValueIn(s, rs[j])
  <2>1. q[j] = rs[j]
    BY <1>2
  <2>2. CASE rs[j] = Null
    BY <2>1, <2>2 DEF ValueIn
  <2>3. CASE rs[j] # Null
    <3>1. rs[j].from \in 1..(Len(s) + 1) /\ rs[j].to \in (rs[j].from - 1)..Len(s)
      BY <1>0, <1>8, <2>3
    <3> QED
      BY <1>3, <2>1, <2>3, <3>1 DEF ValueIn
  <2> QED
    BY <2>2, <2>3
<1>12. r # Null => ValueIn(t, r) = v
  BY <1>3, <1>6 DEF ValueIn
<1> QED
  BY <1>1, <1>2, <1>10, <1>11, <1>12 DEF t, q

-----------------------------------------------------------------------------
(* A field is refused only in a row that is not good. *)
LEMMA FieldErrorIsDue ==
    ASSUME TypeOK, NEW field, NextIs(Raw, Cut(Raw)[pos - 1].fields, field, pos, FieldEnd),
           IsSeq(columns), count = Len(Cut(Raw)[pos - 1].fields), count \in Nat, next \in DOMAIN load.rows,
           FieldError(field) # "none"
    PROVE  FieldError(field) \in DecodeErrors /\ ~RowIsGood(next)
<1>1. field \in Seq(0..255) /\ Len(Fields(Raw)) > count /\ Fields(Raw)[count + 1] = field /\ Len(Fields(Raw)) \in Nat
  <2>1. Len(Fields(Raw)) \in Nat
    BY RawBytes, FieldsTyped DEF Raw
  <2> QED
    BY <2>1 DEF NextIs
<1>2. Unescape(field).err \in EscapeErrors
  BY <1>1, FieldValueOK
<1>3. FieldError(field) \in {"TooManyColumns", "FieldTooLarge", "none"} \cup EscapeErrors
  BY <1>2 DEF FieldError
<1>4. ~RowIsGood(next)
  <2> SUFFICES ASSUME RowIsGood(next) PROVE FALSE
    OBVIOUS
  <2>1. Len(Fields(Raw)) = Len(columns) /\ Len(columns) <= MaxColumns /\ \A i \in DOMAIN columns : FieldIsGood(Fields(Raw)[i])
    BY DEF RowIsGood, Raw
  <2>2. count + 1 \in DOMAIN columns /\ count + 1 <= MaxColumns
    BY <1>1, <2>1, DomainOfSeq, LimitsAssumption
  <2>3. FieldIsGood(field)
    BY <1>1, <2>1, <2>2
  <2>4. Len(field) \in Nat
    BY <1>1
  <2> QED
    BY <2>2, <2>3, <2>4, LimitsAssumption DEF FieldError, FieldIsGood
<1> QED
  BY <1>3, <1>4 DEF DecodeErrors, EscapeErrors

(* A field that is accepted is good. *)
LEMMA FieldIsDue ==
    ASSUME NEW field \in Seq(0..255), FieldError(field) = "none", count \in Nat
    PROVE  count + 1 <= MaxColumns /\ FieldIsGood(field)
<1>1. Len(field) \in Nat
  OBVIOUS
<1> QED
  BY <1>1, LimitsAssumption DEF FieldError, FieldIsGood

-----------------------------------------------------------------------------
(***************************************************************************)
(* A field that fails, and one that is taken                               *)
(***************************************************************************)
(* What is known of the row while its fields are read. *)
LEMMA AtField ==
    ASSUME IInv, step = "fields"
    PROVE  LET cut == Cut(Raw)[pos - 1]
               field == SubSeq(Raw, pos, FieldEnd)
           IN  /\ next \in DOMAIN load.rows /\ Raw \in Seq(0..255) /\ Len(Raw) \in Nat
               /\ pos \in 1..(Len(Raw) + 1) /\ FieldEnd \in (pos - 1)..Len(Raw)
               /\ FieldEnd < Len(Raw) => FieldEnd + 1 \in 1..Len(Raw)
               /\ count = Len(ranges) /\ Len(cut.fields) = count /\ count \in Nat
               /\ IsSeq(cut.fields)
               /\ NextIs(Raw, cut.fields, field, pos, FieldEnd)
<1> DEFINE cut == Cut(Raw)[pos - 1]
           field == SubSeq(Raw, pos, FieldEnd)
<1>1. next \in DOMAIN load.rows
  BY DEF IInv, TypeOK
<1>2. Raw \in Seq(0..255) /\ Len(Raw) \in Nat
  BY <1>1, RawBytes DEF IInv, Raw
<1>3. pos \in 1..(Len(Raw) + 1) /\ cut.rest = <<>> /\ count = Len(ranges) /\ Len(cut.fields) = count
  BY DEF IInv, FieldsOK
<1>4. /\ FieldEnd \in (pos - 1)..Len(Raw)
      /\ \A j \in pos..FieldEnd : Raw[j] # Tab
      /\ FieldEnd < Len(Raw) => FieldEnd + 1 \in 1..Len(Raw) /\ Raw[FieldEnd + 1] = Tab
  BY <1>2, <1>3, FieldEndOK
<1>5. NextIs(Raw, cut.fields, field, pos, FieldEnd)
  BY <1>2, <1>3, <1>4, NextFieldIs
<1>6. pos - 1 \in 0..Len(Raw)
  BY <1>2, <1>3
<1>7. cut.fields \in Seq(Seq(0..255)) /\ Len(cut.fields) \in Nat
  BY <1>2, <1>6, CutTyped DEF Cuts
<1>8. IsSeq(cut.fields)
  BY <1>7, SeqIsSeq
<1> QED
  BY <1>1, <1>2, <1>3, <1>4, <1>5, <1>7, <1>8

(* A field that is refused stops the load. *)
LEMMA FieldFails ==
    ASSUME IInv, step = "fields", NEW error, error # "none", error = FieldError(SubSeq(Raw, pos, FieldEnd)),
           Fail(error), UNCHANGED <<pos, count, scratch, ranges>>, UNCHANGED <<table, next, batch, file>>
    PROVE  IInv'
<1> DEFINE cut == Cut(Raw)[pos - 1]
           field == SubSeq(Raw, pos, FieldEnd)
<1>1. /\ next \in DOMAIN load.rows
      /\ Len(cut.fields) = count /\ count \in Nat
      /\ NextIs(Raw, cut.fields, field, pos, FieldEnd)
  BY AtField
<1>2. error \in DecodeErrors /\ ~RowIsGood(next)
  <2>1. TypeOK /\ IsSeq(columns)
    BY DEF IInv, BlockOK
  <2> QED
    BY <1>1, <2>1, FieldErrorIsDue
<1>3. RangesOK'
  BY DEF IInv, RangesOK
<1>4. next' \in 1..(Len(load.rows) + 1)
  BY DEF IInv, TypeOK
<1> QED
  BY <1>1, <1>2, <1>3, <1>4, FailKeeps DEF Fail, FailErrors, table, batch

(* The bytes a field adds, and the range it gets. *)
ValueBytes(field) == IF field = NullMarker THEN <<>> ELSE Unescape(field).out
RangeOf(field, before, after) == IF field = NullMarker THEN Null ELSE [from |-> Len(before) + 1, to |-> Len(after)]

(* A field adds bytes, no more than it has. *)
LEMMA ValueBytesOK ==
    ASSUME NEW field \in Seq(0..255)
    PROVE  /\ IsSeq(ValueBytes(field)) /\ \A k \in 1..Len(ValueBytes(field)) : ValueBytes(field)[k] \in 0..255
           /\ Len(ValueBytes(field)) <= Len(field) /\ Len(ValueBytes(field)) \in Nat /\ Len(field) \in Nat
<1>0. Len(field) \in Nat
  OBVIOUS
<1>1. CASE field = NullMarker
  <2>1. ValueBytes(field) = <<>>
    BY <1>1 DEF ValueBytes
  <2> QED
    BY <1>0, <2>1, EmptyIsSeq
<1>2. CASE field # NullMarker
  <2> DEFINE out == Unescape(field).out
  <2>1. ValueBytes(field) = out
    BY <1>2 DEF ValueBytes
  <2>2. out \in Seq(0..255) /\ Len(out) <= Len(field)
    BY FieldValueOK
  <2> HIDE DEF out
  <2>3. IsSeq(out) /\ Len(out) \in Nat
    BY <2>2, SeqIsSeq
  <2>4. \A k \in 1..Len(out) : out[k] \in 0..255
    BY <2>2, ElementOfSeq
  <2> QED
    BY <1>0, <2>1, <2>2, <2>3, <2>4
<1> QED
  BY <1>1, <1>2

(* The range of a field is that of the bytes it added, or NULL. *)
LEMMA RangeOfOK ==
    ASSUME NEW field \in Seq(0..255), NEW s, IsSeq(s)
    PROVE  LET t == s \o ValueBytes(field)
               r == RangeOf(field, s, t)
           IN  /\ IsRange(r, s, ValueBytes(field))
               /\ field = NullMarker => r = Null /\ FieldValue(field) = Null
               /\ field # NullMarker => r # Null /\ FieldValue(field) = ValueBytes(field)
<1> DEFINE v == ValueBytes(field)
           t == s \o v
           r == RangeOf(field, s, t)
<1>1. IsSeq(v)
  BY ValueBytesOK
<1>2. Len(s) \in Nat /\ Len(t) \in Nat
  <2> HIDE DEF v
  <2> QED
    BY <1>1, ConcatAny, DomainOfSeq
<1>3. CASE field = NullMarker
  BY <1>3 DEF RangeOf, FieldValue, IsRange
<1>4. CASE field # NullMarker
  <2>1. r = [from |-> Len(s) + 1, to |-> Len(t)] /\ FieldValue(field) = v
    BY <1>4 DEF RangeOf, FieldValue, ValueBytes
  <2> HIDE DEF t, r, v
  <2>2. r \in [from : Nat, to : Nat]
    BY <1>2, <2>1
  <2>3. r # Null
    BY <2>2, NullAssumption
  <2> QED
    BY <1>4, <2>1, <2>3 DEF IsRange, t, r, v
<1> QED
  BY <1>3, <1>4

(* The step of the loop that takes a field in. *)
LEMMA FieldTaken ==
    ASSUME IInv, step = "fields", NEW field, field = SubSeq(Raw, pos, FieldEnd), FieldError(field) = "none",
           scratch' = scratch \o ValueBytes(field),
           ranges' = Append(ranges, RangeOf(field, scratch, scratch'))
    PROVE  LET cut == Cut(Raw)[pos - 1]
           IN  /\ RangesOK' /\ Len(ranges') = count + 1 /\ count + 1 <= MaxColumns
               /\ \A j \in 1..count : FieldIsGood(cut.fields[j]) /\ ValueIn(scratch', ranges'[j]) = FieldValue(cut.fields[j])
               /\ FieldIsGood(field) /\ ValueIn(scratch', ranges'[count + 1]) = FieldValue(field)
               /\ Len(scratch') <= FieldEnd /\ Len(scratch') \in Nat
<1> DEFINE cut == Cut(Raw)[pos - 1]
           v == ValueBytes(field)
           r == RangeOf(field, scratch, scratch')
<1>1. /\ Len(Raw) \in Nat /\ pos \in 1..(Len(Raw) + 1) /\ FieldEnd \in (pos - 1)..Len(Raw)
      /\ count = Len(ranges) /\ Len(cut.fields) = count /\ count \in Nat
      /\ NextIs(Raw, cut.fields, field, pos, FieldEnd)
  BY AtField
<1>2. field \in Seq(0..255) /\ Len(field) = FieldEnd - pos + 1
  BY <1>1 DEF NextIs
<1>3. count + 1 <= MaxColumns /\ FieldIsGood(field)
  BY <1>1, <1>2, FieldIsDue
<1>4. /\ IsSeq(v) /\ \A k \in 1..Len(v) : v[k] \in 0..255
      /\ Len(v) <= Len(field) /\ Len(v) \in Nat /\ Len(field) \in Nat
  BY <1>2, ValueBytesOK
<1>5. IsSeq(scratch) /\ IsSeq(ranges)
  BY DEF IInv, RangesOK
<1>6. /\ IsRange(r, scratch, v)
      /\ field = NullMarker => r = Null /\ FieldValue(field) = Null
      /\ field # NullMarker => r # Null /\ FieldValue(field) = v
  BY <1>2, <1>5, RangeOfOK
<1>7. scratch' = scratch \o v /\ ranges' = Append(ranges, r)
  OBVIOUS
<1> HIDE DEF v, r
<1>10. RangesIn(scratch, ranges)
  BY RangesInOK DEF IInv
<1>11. /\ RangesIn(scratch', ranges')
       /\ \A j \in 1..Len(ranges) : ValueIn(scratch', ranges'[j]) = ValueIn(scratch, ranges[j])
       /\ ranges'[Len(ranges) + 1] = r /\ Len(ranges') = Len(ranges) + 1
       /\ r # Null => ValueIn(scratch', r) = v
       /\ Len(scratch') = Len(scratch) + Len(v)
  BY <1>4, <1>6, <1>7, <1>10, RangesAppend
<1>12. /\ Len(scratch) < pos /\ Len(scratch) \in Nat /\ DOMAIN ranges = 1..Len(ranges)
       /\ \A j \in DOMAIN ranges : FieldIsGood(cut.fields[j]) /\ ValueOf(ranges[j]) = FieldValue(cut.fields[j])
  BY <1>5, DomainOfSeq DEF IInv, FieldsOK
<1>13. RangesOK'
  BY <1>11, RangesInOK
<1>14. ASSUME NEW j \in 1..count
       PROVE  FieldIsGood(cut.fields[j]) /\ ValueIn(scratch', ranges'[j]) = FieldValue(cut.fields[j])
  <2>1. ValueOf(ranges[j]) = ValueIn(scratch, ranges[j])
    BY DEF ValueOf, ValueIn
  <2> QED
    BY <1>1, <1>11, <1>12, <2>1
<1>15. ValueIn(scratch', ranges'[count + 1]) = FieldValue(field)
  <2>1. ranges'[count + 1] = r
    BY <1>1, <1>11
  <2>2. ValueIn(scratch', r) = FieldValue(field)
    BY <1>6, <1>11 DEF ValueIn
  <2> QED
    BY <2>1, <2>2
<1>16. Len(scratch') <= FieldEnd /\ Len(scratch') \in Nat
  <2>1. FieldEnd \in Int /\ pos \in Int
    BY <1>1
  <2> QED
    BY <1>2, <1>4, <1>11, <1>12, <2>1
<1> QED
  BY <1>1, <1>3, <1>11, <1>13, <1>14, <1>15, <1>16

-----------------------------------------------------------------------------
(***************************************************************************)
(* The end of a row                                                        *)
(***************************************************************************)
(* No index is below one. *)
LEMMA NotBelowOne ==
    ASSUME NEW s, IsSeq(s)
    PROVE  \A j \in DOMAIN s : ~(j < 1)
<1>1. DOMAIN s = 1..Len(s) /\ Len(s) \in Nat
  BY DomainOfSeq
<1>2. \A j \in 1..Len(s) : ~(j < 1)
  BY <1>1
<1> QED
  BY <1>1, <1>2

(* The row goes on after a field. *)
LEMMA FieldGoesOn ==
    ASSUME IInv, step = "fields", NEW field, field = SubSeq(Raw, pos, FieldEnd), FieldError(field) = "none",
           scratch' = scratch \o ValueBytes(field),
           ranges' = Append(ranges, RangeOf(field, scratch, scratch')),
           pos' = FieldEnd + 2, FieldEnd # Len(Raw), count' = count + 1,
           UNCHANGED <<step, status, load, columns, schema, next, cols, rows, bytes, subs, file>>
    PROVE  IInv'
<1> DEFINE cut == Cut(Raw)[pos - 1]
           after == Cut(Raw)[FieldEnd + 1]
<1>1. /\ Len(Raw) \in Nat /\ pos \in 1..(Len(Raw) + 1) /\ FieldEnd \in (pos - 1)..Len(Raw)
      /\ FieldEnd < Len(Raw) => FieldEnd + 1 \in 1..Len(Raw)
      /\ count = Len(ranges) /\ Len(cut.fields) = count /\ count \in Nat
      /\ IsSeq(cut.fields)
      /\ NextIs(Raw, cut.fields, field, pos, FieldEnd)
  BY AtField
<1>2. /\ RangesOK' /\ Len(ranges') = count + 1 /\ count + 1 <= MaxColumns
      /\ \A j \in 1..count : FieldIsGood(cut.fields[j]) /\ ValueIn(scratch', ranges'[j]) = FieldValue(cut.fields[j])
      /\ FieldIsGood(field) /\ ValueIn(scratch', ranges'[count + 1]) = FieldValue(field)
      /\ Len(scratch') <= FieldEnd /\ Len(scratch') \in Nat
  BY FieldTaken
<1>3. FieldEnd < Len(Raw) /\ FieldEnd \in Nat
  BY <1>1
<1>4. after = [fields |-> Append(cut.fields, field), rest |-> <<>>]
  BY <1>1, <1>3 DEF NextIs
<1>5. after.fields = Append(cut.fields, field) /\ after.rest = <<>>
  <2> HIDE DEF cut, after
  <2> QED
    BY <1>4
<1>6. /\ Len(after.fields) = count + 1 /\ after.fields[count + 1] = field
      /\ \A j \in 1..count : after.fields[j] = cut.fields[j]
  <2> DEFINE l == cut.fields
  <2>1. IsSeq(l) /\ Len(l) = count
    BY <1>1
  <2>2. after.fields = Append(l, field)
    BY <1>5
  <2> HIDE DEF l
  <2>3. /\ Len(Append(l, field)) = Len(l) + 1 /\ Append(l, field)[Len(l) + 1] = field
        /\ \A j \in 1..Len(l) : Append(l, field)[j] = l[j]
    BY <2>1, AppendAny
  <2> SUFFICES Len(after.fields) = count + 1 /\ after.fields[count + 1] = field
               /\ \A j \in 1..count : after.fields[j] = l[j]
    BY DEF l
  <2> HIDE DEF after
  <2> QED
    BY <2>1, <2>2, <2>3
<1>7. Raw' = Raw
  BY DEF Raw
<1>8. pos' - 1 = FieldEnd + 1 /\ pos' \in 1..(Len(Raw) + 1) /\ Len(scratch') < pos'
  <2>1. \A l, f, n \in Nat : f < l /\ n <= f => f + 2 - 1 = f + 1 /\ f + 2 \in 1..(l + 1) /\ n < f + 2
    OBVIOUS
  <2>2. Len(Raw) \in Nat /\ FieldEnd \in Nat /\ Len(scratch') \in Nat /\ FieldEnd < Len(Raw) /\ Len(scratch') <= FieldEnd
    BY <1>1, <1>2, <1>3, Zenon
  <2>3. FieldEnd + 2 - 1 = FieldEnd + 1 /\ FieldEnd + 2 \in 1..(Len(Raw) + 1) /\ Len(scratch') < FieldEnd + 2
    BY <2>1, <2>2, Zenon
  <2>4. pos' = FieldEnd + 2
    OBVIOUS
  <2>5. pos' - 1 = FieldEnd + 1
    <3>1. \A p, f \in Nat : p = f + 2 => p - 1 = f + 1
      OBVIOUS
    <3>2. pos' \in Nat
      BY <2>2, <2>4
    <3> QED
      BY <2>2, <2>4, <3>1, <3>2, Zenon
  <2>6. pos' \in 1..(Len(Raw) + 1)
    BY <2>3, <2>4, Zenon
  <2>7. Len(scratch') < pos'
    BY <2>3, <2>4, Zenon
  <2> QED
    BY <2>5, <2>6, <2>7, Zenon
<1>9. Cut(Raw')[pos' - 1] = after
  BY <1>7, <1>8, Zenon
<1> HIDE DEF cut, after
<1>10. ASSUME NEW j \in 1..(count + 1)
       PROVE  FieldIsGood(after.fields[j]) /\ ValueIn(scratch', ranges'[j]) = FieldValue(after.fields[j])
  <2>1. CASE j \in 1..count
    BY <1>2, <1>6, <2>1
  <2>2. CASE j = count + 1
    BY <1>2, <1>6, <2>2
  <2> QED
    BY <1>1, <2>1, <2>2
<1>11. DOMAIN ranges' = 1..(count + 1)
  <2>1. IsSeq(ranges')
    BY <1>2, RangesInOK DEF RangesIn
  <2> QED
    BY <1>2, <2>1, DomainOfSeq
<1>12. ASSUME NEW j \in DOMAIN ranges' PROVE ValueOf(ranges[j])' = ValueIn(scratch', ranges'[j])
  BY DEF ValueOf, ValueIn
<1>13. Len(Raw) <= MaxRow
  BY DEF IInv, FieldsOK
<1>14. FieldsOK'
  BY <1>2, <1>5, <1>6, <1>7, <1>8, <1>9, <1>10, <1>11, <1>12, <1>13 DEF FieldsOK
<1>15. TypeOK' /\ ColumnsOK' /\ BlockOK' /\ BytesOK'
  BY DEF IInv, TypeOK, ColumnsOK, BlockOK, BytesOK
<1>16. BuildersOK'
  BY SameTable DEF IInv, BuildersOK
<1>17. SubsOK'
  BY SameTable DEF IInv, SubsOK
<1>18. RowsAreDecoded'
  BY SameTable DEF IInv, RowsAreDecoded
<1> QED
  BY <1>2, <1>14, <1>15, <1>16, <1>17, <1>18 DEF IInv

(* The row ends with a field. *)
LEMMA RowEnds ==
    ASSUME IInv, step = "fields", NEW field, field = SubSeq(Raw, pos, FieldEnd), FieldError(field) = "none",
           scratch' = scratch \o ValueBytes(field),
           ranges' = Append(ranges, RangeOf(field, scratch, scratch')),
           FieldEnd = Len(Raw),
           \/ Len(ranges') = Len(columns) /\ step' = "columns" /\ count' = 1 /\ UNCHANGED status
           \/ Len(ranges') # Len(columns) /\ Fail("FieldCountMismatch"),
           UNCHANGED <<load, columns, schema, next, cols, rows, bytes, subs, file>>
    PROVE  IInv'
<1> DEFINE cut == Cut(Raw)[pos - 1]
<1>1. /\ next \in DOMAIN load.rows /\ Len(Raw) \in Nat
      /\ Len(cut.fields) = count /\ count \in Nat
      /\ NextIs(Raw, cut.fields, field, pos, FieldEnd)
  BY AtField
<1>2. /\ RangesOK' /\ Len(ranges') = count + 1 /\ count + 1 <= MaxColumns
      /\ \A j \in 1..count : FieldIsGood(cut.fields[j]) /\ ValueIn(scratch', ranges'[j]) = FieldValue(cut.fields[j])
      /\ FieldIsGood(field) /\ ValueIn(scratch', ranges'[count + 1]) = FieldValue(field)
      /\ Len(scratch') <= FieldEnd /\ Len(scratch') \in Nat
  BY FieldTaken
<1>3. /\ Len(Fields(Raw)) = count + 1 /\ Fields(Raw)[count + 1] = field
      /\ \A j \in 1..count : Fields(Raw)[j] = cut.fields[j]
  BY <1>1 DEF NextIs
<1>4. Raw' = Raw
  BY DEF Raw
<1>5. DOMAIN columns = 1..Len(columns) /\ Len(columns) \in Nat
  BY DomainOfSeq DEF IInv, BlockOK
<1> HIDE DEF cut
<1>6. CASE Len(ranges') # Len(columns) /\ Fail("FieldCountMismatch")
  <2>1. ~RowIsGood(next)
    BY <1>2, <1>3, <1>6 DEF RowIsGood, Raw
  <2>2. next' \in 1..(Len(load.rows) + 1)
    BY DEF IInv, TypeOK
  <2>3. step' = "end" /\ status' = "FieldCountMismatch" /\ status' \in FailErrors
    BY <1>6 DEF Fail, FailErrors, DecodeErrors
  <2> QED
    BY <1>1, <1>2, <2>1, <2>2, <2>3, FailKeeps
<1>7. CASE Len(ranges') = Len(columns) /\ step' = "columns" /\ count' = 1 /\ UNCHANGED status
  <2>1. Len(columns) = count + 1
    BY <1>2, <1>7
  <2>0. DOMAIN columns = 1..(count + 1)
    BY <1>5, <2>1, Zenon
  <2>2. ASSUME NEW j \in DOMAIN columns
        PROVE  FieldIsGood(Fields(Raw)[j]) /\ ValueIn(scratch', ranges'[j]) = FieldValue(Fields(Raw)[j])
    <3>1. CASE j \in 1..count
      BY <1>2, <1>3, <3>1
    <3>2. CASE j = count + 1
      BY <1>2, <1>3, <3>2
    <3>3. j \in 1..(count + 1)
      BY <2>0
    <3>4. count \in Nat
      BY <1>1
    <3>5. j \in 1..count \/ j = count + 1
      BY <3>3, <3>4
    <3> QED
      BY <3>1, <3>2, <3>5, Zenon
  <2>3. ASSUME NEW j \in DOMAIN columns PROVE ValueOf(ranges[j])' = ValueIn(scratch', ranges'[j])
    BY DEF ValueOf, ValueIn
  <2>4. Len(Raw) <= MaxRow
    BY DEF IInv, FieldsOK
  <2>5. ColumnsOK'
    <3>1. 1 \in DOMAIN columns
      <4>1. 1 \in 1..(count + 1)
        BY <1>1
      <4> QED
        BY <1>5, <2>1, <4>1
    <3>2. \A j \in DOMAIN columns : ~(j < 1)
      BY NotBelowOne DEF IInv, BlockOK
    <3>3. Len(scratch') <= MaxRow
      BY <1>1, <1>2, <2>4, LimitsAssumption
    <3>4. Len(Fields(Raw')) = Len(columns') /\ Len(columns') <= MaxColumns /\ Len(Raw') <= MaxRow
      BY <1>2, <1>3, <1>4, <2>1, <2>4
    <3> QED
      BY <1>4, <1>7, <2>2, <2>3, <3>1, <3>2, <3>3, <3>4 DEF ColumnsOK
  <2>6. TypeOK'
    BY <1>1, <1>7 DEF IInv, TypeOK
  <2>7. FieldsOK' /\ BlockOK'
    BY <1>7 DEF IInv, FieldsOK, BlockOK
  <2>8. BuildersOK'
    <3>1. \A i \in DOMAIN columns : ~(i < 1)
      BY NotBelowOne DEF IInv, BlockOK
    <3> QED
      BY <1>7, <3>1, SameTable DEF IInv, BuildersOK
  <2>9. SubsOK'
    BY <1>7, SameTable DEF IInv, SubsOK
  <2>10. RowsAreDecoded'
    BY <1>7, SameTable DEF IInv, RowsAreDecoded
  <2>11. BytesOK'
    <3>1. bytes \in Nat /\ bytes < BatchBytes /\ bytes < BatchBytes + MaxRow /\ BatchBytes \in Nat
      BY LimitsAssumption DEF IInv, TypeOK, BytesOK
    <3>2. bytes < BatchBytes + Len(scratch')
      BY <1>2, <3>1
    <3>3. ASSUME NEW j \in DOMAIN ranges', ranges'[j] # Null PROVE bytes < BatchBytes + ranges'[j].from - 1
      <4>1. ranges'[j].from \in Nat /\ ranges'[j].from >= 1
        BY <1>2, <3>3, RangesInOK DEF RangesIn, RangeIn
      <4> QED
        BY <3>1, <4>1
    <3> QED
      BY <1>7, <3>1, <3>2, <3>3 DEF BytesOK
  <2> QED
    BY <1>2, <2>5, <2>6, <2>7, <2>8, <2>9, <2>10, <2>11 DEF IInv
<1> QED
  BY <1>6, <1>7

(* A step of decode_row's loop. *)
LEMMA NextFieldKeeps ==
    ASSUME IInv, NextField
    PROVE  IInv'
<1> DEFINE field == SubSeq(Raw, pos, FieldEnd)
<1>0. step = "fields" /\ UNCHANGED <<load, columns, schema, next, cols, rows, bytes, subs, file>> /\ UNCHANGED <<table, next, batch, file>>
  BY DEF NextField, table, batch
<1>1. \/ /\ FieldError(field) # "none"
         /\ Fail(FieldError(field))
         /\ UNCHANGED <<pos, count, scratch, ranges>>
      \/ /\ FieldError(field) = "none"
         /\ scratch' = scratch \o ValueBytes(field)
         /\ ranges' = Append(ranges, RangeOf(field, scratch, scratch'))
         /\ pos' = FieldEnd + 2
         /\ \/ FieldEnd # Len(Raw) /\ count' = count + 1 /\ UNCHANGED <<step, status>>
            \/ FieldEnd = Len(Raw) /\ Len(ranges') = Len(columns) /\ step' = "columns" /\ count' = 1 /\ UNCHANGED status
            \/ FieldEnd = Len(Raw) /\ Len(ranges') # Len(columns) /\ Fail("FieldCountMismatch")
  BY Zenon DEF NextField, ValueBytes, RangeOf
<1> HIDE DEF field
<1>2. field = SubSeq(Raw, pos, FieldEnd)
  BY DEF field
<1>3. CASE FieldError(field) # "none" /\ Fail(FieldError(field)) /\ UNCHANGED <<pos, count, scratch, ranges>>
  BY <1>0, <1>2, <1>3, FieldFails
<1>4. CASE /\ FieldError(field) = "none"
           /\ scratch' = scratch \o ValueBytes(field)
           /\ ranges' = Append(ranges, RangeOf(field, scratch, scratch'))
           /\ pos' = FieldEnd + 2
           /\ FieldEnd # Len(Raw) /\ count' = count + 1 /\ UNCHANGED <<step, status>>
  BY <1>0, <1>2, <1>4, FieldGoesOn
<1>5. CASE /\ FieldError(field) = "none"
           /\ scratch' = scratch \o ValueBytes(field)
           /\ ranges' = Append(ranges, RangeOf(field, scratch, scratch'))
           /\ FieldEnd = Len(Raw)
           /\ \/ Len(ranges') = Len(columns) /\ step' = "columns" /\ count' = 1 /\ UNCHANGED status
              \/ Len(ranges') # Len(columns) /\ Fail("FieldCountMismatch")
  BY <1>0, <1>2, <1>5, RowEnds
<1> QED
  BY <1>1, <1>3, <1>4, <1>5

-----------------------------------------------------------------------------
(***************************************************************************)
(* One value appended: what it costs and when it fails                     *)
(***************************************************************************)
(* One row more is counted when it was substituted. *)
LEMMA SubstitutedNext ==
    ASSUME NEW i, NEW n \in Nat
    PROVE  /\ Cardinality(Substituted(i, n)) \in Nat
           /\ Cardinality(Substituted(i, n + 1)) = Cardinality(Substituted(i, n)) + IF Read(n + 1, i).subst THEN 1 ELSE 0
<1> DEFINE S == Substituted(i, n)
<1>1. IsFiniteSet(S) /\ n + 1 \notin S
  <2>1. IsFiniteSet(1..n) /\ S \subseteq 1..n
    BY FS_Interval DEF Substituted
  <2>2. \A k \in 1..n : k # n + 1
    OBVIOUS
  <2> HIDE DEF S
  <2> QED
    BY <2>1, <2>2, FS_Subset
<1>2. Cardinality(S) \in Nat
  <2> HIDE DEF S
  <2> QED
    BY <1>1, FS_CardinalityType
<1>3. \A k : k \in 1..(n + 1) <=> k \in 1..n \/ k = n + 1
  OBVIOUS
<1>4. CASE Read(n + 1, i).subst
  <2>1. Substituted(i, n + 1) = S \cup {n + 1}
    BY <1>3, <1>4 DEF Substituted
  <2> HIDE DEF S
  <2>2. Cardinality(S \cup {n + 1}) = Cardinality(S) + 1
    BY <1>1, FS_AddElement
  <2> QED
    BY <1>2, <1>4, <2>1, <2>2 DEF S
<1>5. CASE ~Read(n + 1, i).subst
  <2>1. Substituted(i, n + 1) = S
    BY <1>3, <1>5 DEF Substituted
  <2> QED
    BY <1>2, <1>5, <2>1
<1> QED
  BY <1>2, <1>4, <1>5

(* What is known when a value is appended. *)
LEMMA AtColumn ==
    ASSUME IInv, step = "columns"
    PROVE  LET value == ValueOf(ranges[count])
               b == cols[count]
           IN  /\ count \in DOMAIN columns /\ next \in DOMAIN load.rows
               /\ value = Null \/ IsSeq(value)
               /\ Entries(b) = rows
               /\ ReadsAs(Fresh(count), b, value, AppendValue(b, value), Read(next, count))
<1> DEFINE value == ValueOf(ranges[count])
           b == cols[count]
           f == Fresh(count)
<1>1. count \in DOMAIN columns /\ next \in DOMAIN load.rows
  BY DEF IInv, TypeOK, ColumnsOK
<1>2. value = FieldValue(Fields(Raw)[count]) /\ Len(Fields(Raw)) = Len(columns)
  BY <1>1 DEF IInv, ColumnsOK
<1>3. Read(next, count) = AppendValue(f, value)
  BY <1>2 DEF Read, Raw
<1>4. value = Null \/ IsSeq(value)
  <2>1. Raw \in Seq(0..255)
    BY <1>1, RawBytes DEF IInv, Raw
  <2>2. count \in 1..Len(Fields(Raw))
    BY <1>1, <1>2, DomainOfSeq DEF IInv, BlockOK
  <2>3. Fields(Raw)[count] \in Seq(0..255)
    BY <2>1, <2>2, FieldsTyped, ElementOfSeq
  <2> QED
    BY <1>2, <2>3, FieldValueOK
<1>5. IsFresh(f)
  BY <1>1, FreshOK DEF IInv
<1>6. b = Filled(f, b) /\ BuilderOK(b) /\ Entries(b) = rows
  <2>1. ~(count < count)
    <3>1. count \in 1..Len(columns) /\ Len(columns) \in Nat
      BY <1>1, DomainOfSeq DEF IInv, BlockOK
    <3> QED
      BY <3>1
  <2>2. rows \in Nat /\ "columns" # "end"
    BY DEF IInv, TypeOK
  <2>3. b = Filled(f, b) /\ BuilderOK(b) /\ Entries(b) = rows + 0
    BY <1>1, <2>1, <2>2 DEF IInv, BuildersOK
  <2> QED
    BY <2>2, <2>3
<1>7. ReadsAs(f, b, value, AppendValue(b, value), AppendValue(f, value))
  <2> HIDE DEF f, b, value
  <2> QED
    BY <1>4, <1>5, <1>6, AppendValueReads
<1> QED
  BY <1>1, <1>3, <1>4, <1>6, <1>7

(* A value that cannot be read stops the load, at a row that is not good. *)
LEMMA AppendFails ==
    ASSUME IInv, step = "columns", NEW a, a = AppendValue(cols[count], ValueOf(ranges[count])),
           a.err # "none", Fail(a.err),
           UNCHANGED <<load, columns, schema, next, cols, rows, bytes, subs, file, scratch, ranges>>
    PROVE  IInv'
<1>1. /\ count \in DOMAIN columns /\ next \in DOMAIN load.rows
      /\ ReadsAs(Fresh(count), cols[count], ValueOf(ranges[count]), a, Read(next, count))
  BY AtColumn
<1>2. a.err \in ValueErrors /\ Read(next, count).err # "none"
  BY <1>1 DEF ReadsAs
<1>3. ~RowIsGood(next)
  BY <1>1, <1>2 DEF RowIsGood
<1>4. a.err \in DecodeErrors
  BY <1>2 DEF ValueErrors, DecodeErrors
<1>5. RangesOK'
  BY DEF IInv, RangesOK
<1>6. next' \in 1..(Len(load.rows) + 1)
  BY DEF IInv, TypeOK
<1> QED
  BY <1>1, <1>3, <1>4, <1>5, <1>6, FailKeeps DEF Fail, FailErrors

(* The bytes of the value. *)
LEMMA BytesGrow ==
    ASSUME IInv, step = "columns", NEW v, v = ValueOf(ranges[count]),
           bytes' = bytes + (IF v = Null THEN 0 ELSE Len(v)), UNCHANGED <<scratch, ranges>>
    PROVE  /\ bytes' \in Nat
           /\ bytes' < BatchBytes + Len(scratch)
           /\ bytes' < BatchBytes + MaxRow
           /\ \A j \in DOMAIN ranges : j >= count + 1 /\ ranges[j] # Null => bytes' < BatchBytes + ranges[j].from - 1
<1> DEFINE r == ranges[count]
<1>0. /\ count \in DOMAIN columns /\ Len(ranges) = Len(columns) /\ Len(scratch) <= MaxRow
      /\ IsSeq(columns) /\ IsSeq(scratch) /\ IsSeq(ranges)
  BY DEF IInv, ColumnsOK, BlockOK, RangesOK
<1>1. DOMAIN ranges = 1..Len(ranges) /\ count \in 1..Len(ranges) /\ Len(ranges) \in Nat /\ Len(scratch) \in Nat
  BY <1>0, DomainOfSeq
<1>2. count \in DOMAIN ranges /\ count \in Nat
  BY <1>1
<1>3. /\ bytes \in Nat /\ BatchBytes \in Nat /\ MaxRow \in Nat
      /\ bytes < BatchBytes + Len(scratch)
      /\ \A j \in DOMAIN ranges : j >= count /\ ranges[j] # Null => bytes < BatchBytes + ranges[j].from - 1
  BY LimitsAssumption DEF IInv, TypeOK, BytesOK
<1>4. CASE r = Null
  <2>1. v = Null
    BY <1>4 DEF ValueOf
  <2>2. bytes' = bytes
    BY <1>3, <2>1
  <2>3. \A j \in DOMAIN ranges : j >= count + 1 => j >= count
    BY <1>1, <1>2
  <2> QED
    BY <1>0, <1>1, <1>3, <2>2, <2>3
<1>5. CASE r # Null
  <2>1. /\ r.from \in Nat /\ r.to \in Nat /\ r.from >= 1 /\ r.to >= r.from - 1 /\ r.to <= Len(scratch)
        /\ v = SubSeq(scratch, r.from, r.to)
    BY <1>2, <1>5, RangesInOK DEF IInv, RangesIn, RangeIn, ValueOf
  <2> HIDE DEF r
  <2>2. Len(v) = r.to - r.from + 1
    <3>0. ASSUME NEW x \in Nat, NEW y \in Nat, NEW l \in Nat, x >= 1, y >= x - 1, y <= l
          PROVE  x \in 1..(l + 1) /\ y \in (x - 1)..l
      BY <3>0
    <3>1. r.from \in 1..(Len(scratch) + 1) /\ r.to \in (r.from - 1)..Len(scratch)
      BY <1>1, <2>1, <3>0, Zenon
    <3>2. IsSeq(scratch)
      BY <1>0
    <3>3. Len(SubSeq(scratch, r.from, r.to)) = r.to - r.from + 1
      BY <3>1, <3>2, SubSeqAny
    <3> QED
      BY <2>1, <3>3
  <2>3. bytes < BatchBytes + r.from - 1
    BY <1>2, <1>3, <1>5 DEF r
  <2>4. bytes' <= bytes + (r.to - r.from + 1) /\ bytes' \in Nat
    <3>1. r.to - r.from + 1 \in Nat
      BY <2>1
    <3>2. bytes' = bytes \/ bytes' = bytes + (r.to - r.from + 1)
      BY <1>3, <2>2
    <3> QED
      BY <1>3, <3>1, <3>2
  <2>5. bytes' < BatchBytes + r.to
    BY <1>3, <2>1, <2>3, <2>4
  <2>6. ASSUME NEW j \in DOMAIN ranges, j >= count + 1, ranges[j] # Null
        PROVE  bytes' < BatchBytes + ranges[j].from - 1
    <3>1. count < j
      BY <1>1, <1>2, <2>6
    <3>2. r.to < ranges[j].from /\ ranges[j].from \in Nat
      BY <1>2, <1>5, <2>6, <3>1, RangesInOK DEF IInv, RangesIn, RangeIn, r
    <3>3. ASSUME NEW x \in Nat, NEW y \in Nat, NEW z \in Nat, NEW l \in Nat, x < l + y, y < z
          PROVE  x < l + z - 1
      BY <3>3
    <3> QED
      BY <1>3, <2>1, <2>4, <2>5, <3>2, <3>3
  <2>7. bytes' < BatchBytes + Len(scratch) /\ bytes' < BatchBytes + MaxRow
    <3>1. ASSUME NEW x \in Nat, NEW y \in Nat, NEW z \in Nat, NEW m \in Nat, NEW l \in Nat, x < l + y, y <= z, z <= m
          PROVE  x < l + z /\ x < l + m
      BY <3>1
    <3> QED
      BY <1>0, <1>1, <1>3, <2>1, <2>4, <2>5, <3>1
  <2> QED
    BY <2>4, <2>6, <2>7
<1> QED
  BY <1>4, <1>5

-----------------------------------------------------------------------------
(***************************************************************************)
(* One value appended: the columns after it                                *)
(***************************************************************************)
(* A value is appended to its column. *)
Pushes(a, v) ==
    /\ a.err = "none"
    /\ cols' = [cols EXCEPT ![count] = a.builder]
    /\ subs' = [subs EXCEPT ![count] = @ + IF a.subst THEN 1 ELSE 0]
    /\ bytes' = bytes + (IF v = Null THEN 0 ELSE Len(v))
    /\ count' = count + 1
    /\ IF count < Len(columns) THEN UNCHANGED <<step, rows>> ELSE step' = "flush" /\ rows' = rows + 1
    /\ UNCHANGED status
    /\ UNCHANGED <<load, columns, schema, next, file, scratch, ranges>>

(* What every column holds after it. *)
LEMMA ColumnsAfter ==
    ASSUME IInv, step = "columns", NEW v, v = ValueOf(ranges[count]), NEW a, a = AppendValue(cols[count], v), Pushes(a, v)
    PROVE  /\ DOMAIN columns = 1..Len(columns) /\ Len(columns) \in Nat /\ count \in 1..Len(columns)
           /\ rows \in Nat /\ Len(file) \in Nat /\ next = Len(file) + rows + 1
           /\ cols' = [i \in DOMAIN columns |-> cols'[i]] /\ subs' = [i \in DOMAIN columns |-> subs'[i]]
           /\ Read(next, count).err = "none"
           /\ \A i \in DOMAIN columns :
                /\ cols'[i] = Filled(Fresh(i), cols'[i]) /\ BuilderOK(cols'[i])
                /\ Entries(cols'[i]) = rows + IF i <= count THEN 1 ELSE 0
                /\ \A r \in 1..Entries(cols'[i]) : Entry(cols'[i], r) = Entry(Read(Len(file) + r, i).builder, 1)
                /\ subs'[i] = Cardinality(Substituted(i, Len(file) + Entries(cols'[i])))
<1>1. DOMAIN columns = 1..Len(columns) /\ Len(columns) \in Nat
  BY DomainOfSeq DEF IInv, BlockOK
<1>2. count \in DOMAIN columns /\ Entries(cols[count]) = rows
      /\ ReadsAs(Fresh(count), cols[count], v, a, Read(next, count))
  BY AtColumn
<1>3. count \in 1..Len(columns) /\ rows \in Nat /\ Len(file) \in Nat /\ next = Len(file) + rows + 1
  <2>1. rows \in Nat /\ IsSeq(file)
    BY DEF IInv, TypeOK
  <2>2. Len(file) \in Nat
    BY <2>1, DomainOfSeq
  <2>3. next = Len(file) + rows + 1
    BY DEF IInv, RowsAreDecoded
  <2> QED
    BY <1>1, <1>2, <2>1, <2>2, <2>3
<1>4. cols = [i \in DOMAIN columns |-> cols[i]] /\ subs = [i \in DOMAIN columns |-> subs[i]]
  BY DEF IInv, BlockOK
<1>5. /\ cols' = [i \in DOMAIN columns |-> cols'[i]] /\ subs' = [i \in DOMAIN columns |-> subs'[i]]
      /\ cols'[count] = a.builder /\ subs'[count] = subs[count] + IF a.subst THEN 1 ELSE 0
      /\ \A i \in DOMAIN columns : i # count => cols'[i] = cols[i] /\ subs'[i] = subs[i]
  BY <1>2, <1>4 DEF Pushes
<1> DEFINE g == Read(next, count)
           c == a.builder
<1>6. /\ g.err = "none" /\ a.subst = g.subst
      /\ c = Filled(Fresh(count), c) /\ BuilderOK(c)
      /\ Entries(c) = rows + 1
      /\ \A r \in 1..rows : Entry(c, r) = Entry(cols[count], r)
      /\ Entry(c, rows + 1) = Entry(g.builder, 1)
  BY <1>2 DEF ReadsAs, Pushes
<1>7. \A i \in DOMAIN columns :
        /\ cols[i] = Filled(Fresh(i), cols[i]) /\ BuilderOK(cols[i])
        /\ Entries(cols[i]) = rows + IF i < count THEN 1 ELSE 0
        /\ \A r \in 1..Entries(cols[i]) : Entry(cols[i], r) = Entry(Read(Len(file) + r, i).builder, 1)
        /\ subs[i] = Cardinality(Substituted(i, Len(file) + Entries(cols[i])))
  BY DEF IInv, BuildersOK, RowsAreDecoded, SubsOK
<1> HIDE DEF g, c
<1>8. ASSUME NEW i \in DOMAIN columns, i # count
      PROVE  /\ cols'[i] = Filled(Fresh(i), cols'[i]) /\ BuilderOK(cols'[i])
             /\ Entries(cols'[i]) = rows + IF i <= count THEN 1 ELSE 0
             /\ \A r \in 1..Entries(cols'[i]) : Entry(cols'[i], r) = Entry(Read(Len(file) + r, i).builder, 1)
             /\ subs'[i] = Cardinality(Substituted(i, Len(file) + Entries(cols'[i])))
  <2>1. cols'[i] = cols[i] /\ subs'[i] = subs[i]
    BY <1>5, <1>8
  <2>2. i < count <=> i <= count
    <3>1. i \in 1..Len(columns)
      BY <1>1
    <3> QED
      BY <1>3, <1>8, <3>1
  <2> QED
    BY <1>7, <2>1, <2>2
<1>9. /\ cols'[count] = Filled(Fresh(count), cols'[count]) /\ BuilderOK(cols'[count])
      /\ Entries(cols'[count]) = rows + 1
  BY <1>5, <1>6 DEF c
<1>10. ASSUME NEW r \in 1..(rows + 1) PROVE Entry(cols'[count], r) = Entry(Read(Len(file) + r, count).builder, 1)
  <2>0. cols'[count] = c
    BY <1>5 DEF c
  <2>1. CASE r \in 1..rows
    <3>1. r \in 1..Entries(cols[count])
      BY <1>2, <2>1
    <3>2. Entry(cols[count], r) = Entry(Read(Len(file) + r, count).builder, 1)
      BY <1>2, <1>7, <3>1
    <3> QED
      BY <1>6, <2>0, <2>1, <3>2
  <2>2. CASE r = rows + 1
    <3>1. Len(file) + r = next
      BY <1>3, <2>2
    <3> QED
      BY <1>6, <2>0, <2>2, <3>1 DEF g
  <2> QED
    BY <1>3, <2>1, <2>2
<1>11. subs'[count] = Cardinality(Substituted(count, Len(file) + Entries(cols'[count])))
  <2>1. Len(file) + rows \in Nat /\ (Len(file) + rows) + 1 = next /\ Len(file) + (rows + 1) = next
    BY <1>3
  <2>2. Cardinality(Substituted(count, next)) = Cardinality(Substituted(count, Len(file) + rows)) + IF g.subst THEN 1 ELSE 0
    BY <2>1, SubstitutedNext DEF g
  <2>3. subs[count] = Cardinality(Substituted(count, Len(file) + rows))
    BY <1>2, <1>7
  <2>4. subs'[count] = Cardinality(Substituted(count, next))
    BY <1>5, <1>6, <2>2, <2>3
  <2> QED
    BY <1>9, <2>1, <2>4
<1>12. ASSUME NEW i \in DOMAIN columns
       PROVE  /\ cols'[i] = Filled(Fresh(i), cols'[i]) /\ BuilderOK(cols'[i])
              /\ Entries(cols'[i]) = rows + IF i <= count THEN 1 ELSE 0
              /\ \A r \in 1..Entries(cols'[i]) : Entry(cols'[i], r) = Entry(Read(Len(file) + r, i).builder, 1)
              /\ subs'[i] = Cardinality(Substituted(i, Len(file) + Entries(cols'[i])))
  <2>1. CASE i # count
    BY <1>8, <2>1
  <2>2. CASE i = count
    <3>1. count <= count
      BY <1>3
    <3> QED
      BY <1>9, <1>10, <1>11, <2>2, <3>1
  <2> QED
    BY <2>1, <2>2
<1> QED
  BY <1>1, <1>3, <1>5, <1>6, <1>12 DEF g

-----------------------------------------------------------------------------
(***************************************************************************)
(* The rest of the columns                                                 *)
(***************************************************************************)
(* There is another column. *)
LEMMA ColumnGoesOn ==
    ASSUME IInv, step = "columns", NEW v, v = ValueOf(ranges[count]), NEW a, a = AppendValue(cols[count], v), Pushes(a, v),
           count < Len(columns)
    PROVE  IInv'
<1>0. /\ count' = count + 1 /\ UNCHANGED <<step, rows, status, load, columns, schema, next, file, scratch, ranges>>
      /\ bytes' = bytes + (IF v = Null THEN 0 ELSE Len(v))
  BY DEF Pushes
<1>1. /\ DOMAIN columns = 1..Len(columns) /\ Len(columns) \in Nat /\ count \in 1..Len(columns)
      /\ rows \in Nat
      /\ cols' = [i \in DOMAIN columns |-> cols'[i]] /\ subs' = [i \in DOMAIN columns |-> subs'[i]]
      /\ Read(next, count).err = "none"
      /\ \A i \in DOMAIN columns :
           /\ cols'[i] = Filled(Fresh(i), cols'[i]) /\ BuilderOK(cols'[i])
           /\ Entries(cols'[i]) = rows + IF i <= count THEN 1 ELSE 0
           /\ \A r \in 1..Entries(cols'[i]) : Entry(cols'[i], r) = Entry(Read(Len(file) + r, i).builder, 1)
           /\ subs'[i] = Cardinality(Substituted(i, Len(file) + Entries(cols'[i])))
  BY ColumnsAfter
<1>2. /\ bytes' \in Nat
      /\ bytes' < BatchBytes + Len(scratch)
      /\ bytes' < BatchBytes + MaxRow
      /\ \A j \in DOMAIN ranges : j >= count + 1 /\ ranges[j] # Null => bytes' < BatchBytes + ranges[j].from - 1
  BY <1>0, BytesGrow
<1>3. \A i \in DOMAIN columns : i <= count <=> i < count + 1
  BY <1>1
<1>4. TypeOK' /\ RangesOK' /\ FieldsOK'
  BY <1>0, <1>2 DEF IInv, TypeOK, RangesOK, FieldsOK
<1>5. BlockOK'
  BY <1>0, <1>1 DEF IInv, BlockOK
<1>6. BytesOK'
  BY <1>0, <1>2 DEF BytesOK
<1>7. BuildersOK'
  <2>1. \A i \in DOMAIN columns :
           /\ cols'[i] = Filled(Fresh(i), cols'[i]) /\ BuilderOK(cols'[i])
           /\ Entries(cols'[i]) >= rows
           /\ Entries(cols'[i]) = rows + IF i < count + 1 THEN 1 ELSE 0
    BY <1>1, <1>3
  <2> QED
    BY <1>0, <2>1, SameTable DEF BuildersOK
<1>8. SubsOK'
  BY <1>0, <1>1, SameTable DEF SubsOK
<1>9. RowsAreDecoded'
  <2>1. (\A i \in DOMAIN columns : \A r \in 1..Entries(cols[i]) :
              Entry(cols[i], r) = Entry(Read(Len(file) + r, i).builder, 1))'
    BY <1>0, <1>1, SameTable
  <2> QED
    BY <1>0, <2>1, SameTable DEF IInv, RowsAreDecoded
<1>10. ColumnsOK'
  <2>1. Raw' = Raw /\ \A r : ValueOf(r)' = ValueOf(r)
    BY <1>0 DEF Raw, ValueOf
  <2>2. count + 1 \in DOMAIN columns
    BY <1>1
  <2>3. ASSUME NEW j \in DOMAIN columns, j < count + 1 PROVE Read(next, j).err = "none"
    <3>1. j < count \/ j = count
      BY <1>1, <2>3
    <3> QED
      BY <1>1, <3>1 DEF IInv, ColumnsOK
  <2>4. (\A j \in DOMAIN columns : j < count => Read(next, j).err = "none")'
    BY <1>0, <2>3, SameTable
  <2> QED
    BY <1>0, <2>1, <2>2, <2>4 DEF IInv, ColumnsOK
<1> QED
  BY <1>4, <1>5, <1>6, <1>7, <1>8, <1>9, <1>10 DEF IInv

(* The last column completes the row. *)
LEMMA RowIsComplete ==
    ASSUME IInv, step = "columns", NEW v, v = ValueOf(ranges[count]), NEW a, a = AppendValue(cols[count], v), Pushes(a, v),
           ~(count < Len(columns))
    PROVE  IInv'
<1>0. /\ step' = "flush" /\ rows' = rows + 1
      /\ UNCHANGED <<status, load, columns, schema, next, file, scratch, ranges>>
      /\ bytes' = bytes + (IF v = Null THEN 0 ELSE Len(v))
  BY DEF Pushes
<1>1. /\ DOMAIN columns = 1..Len(columns) /\ Len(columns) \in Nat /\ count \in 1..Len(columns)
      /\ rows \in Nat /\ Len(file) \in Nat /\ next = Len(file) + rows + 1
      /\ cols' = [i \in DOMAIN columns |-> cols'[i]] /\ subs' = [i \in DOMAIN columns |-> subs'[i]]
      /\ Read(next, count).err = "none"
      /\ \A i \in DOMAIN columns :
           /\ cols'[i] = Filled(Fresh(i), cols'[i]) /\ BuilderOK(cols'[i])
           /\ Entries(cols'[i]) = rows + IF i <= count THEN 1 ELSE 0
           /\ \A r \in 1..Entries(cols'[i]) : Entry(cols'[i], r) = Entry(Read(Len(file) + r, i).builder, 1)
           /\ subs'[i] = Cardinality(Substituted(i, Len(file) + Entries(cols'[i])))
  BY ColumnsAfter
<1>2. bytes' \in Nat /\ bytes' < BatchBytes + MaxRow
  BY <1>0, BytesGrow
<1>3. count = Len(columns) /\ \A i \in DOMAIN columns : i <= count
  BY <1>1
<1>4. TypeOK' /\ RangesOK' /\ FieldsOK' /\ ColumnsOK' /\ BytesOK'
  <2>1. rows' \in Nat
    BY <1>0, <1>1
  <2> QED
    BY <1>0, <1>2, <2>1 DEF IInv, TypeOK, RangesOK, FieldsOK, ColumnsOK, BytesOK
<1>5. BlockOK'
  BY <1>0, <1>1 DEF IInv, BlockOK
<1>6. BuildersOK'
  <2>1. \A i \in DOMAIN columns :
           /\ cols'[i] = Filled(Fresh(i), cols'[i]) /\ BuilderOK(cols'[i])
           /\ Entries(cols'[i]) = rows + 1
    BY <1>1, <1>3
  <2>2. rows + 1 >= rows' /\ rows + 1 = rows' + 0
    BY <1>0, <1>1
  <2> QED
    BY <1>0, <2>1, <2>2, SameTable DEF BuildersOK
<1>7. SubsOK'
  BY <1>0, <1>1, SameTable DEF SubsOK
<1>8. RowIsGood(next)
  <2>1. ASSUME NEW j \in DOMAIN columns PROVE Read(next, j).err = "none"
    <3>1. j < count \/ j = count
      BY <1>1, <1>3
    <3> QED
      BY <1>1, <3>1 DEF IInv, ColumnsOK
  <2> QED
    BY <2>1 DEF IInv, ColumnsOK, RowIsGood, Raw
<1>9. RowsAreDecoded'
  <2>1. (\A i \in DOMAIN columns : \A r \in 1..Entries(cols[i]) :
              Entry(cols[i], r) = Entry(Read(Len(file) + r, i).builder, 1))'
    BY <1>0, <1>1, SameTable
  <2>2. ASSUME NEW k \in 1..(Len(file) + (rows + 1)) PROVE k \in DOMAIN load.rows /\ RowIsGood(k)
    <3>1. k \in 1..(Len(file) + rows) \/ k = next
      BY <1>1
    <3>2. next \in DOMAIN load.rows
      BY DEF IInv, TypeOK
    <3> QED
      BY <1>8, <3>1, <3>2 DEF IInv, RowsAreDecoded
  <2>3. (\A k \in 1..(Len(file) + rows) : k \in DOMAIN load.rows /\ RowIsGood(k))'
    BY <1>0, <2>2, SameTable
  <2>4. next' = Len(file') + rows' + 0
    BY <1>0, <1>1
  <2>5. (\A k \in DOMAIN file : file[k] = StoredRow(k))'
    BY <1>0, SameTable DEF IInv, RowsAreDecoded
  <2>6. status' \notin DecodeErrors
    BY <1>0 DEF IInv, TypeOK, DecodeErrors
  <2> QED
    BY <1>0, <2>1, <2>3, <2>4, <2>5, <2>6 DEF RowsAreDecoded
<1> QED
  BY <1>4, <1>5, <1>6, <1>7, <1>9 DEF IInv

(* A step of append_row_ranges' loop. *)
LEMMA AppendColumnKeeps ==
    ASSUME IInv, AppendColumn
    PROVE  IInv'
<1> DEFINE v == ValueOf(ranges[count])
           a == AppendValue(cols[count], v)
<1>1. step = "columns" /\ Appends(v, a) /\ UNCHANGED <<load, columns, schema, next, file, scratch, ranges>>
  BY DEF AppendColumn, table, ValueOf
<1> HIDE DEF v, a
<1>2. v = ValueOf(ranges[count]) /\ a = AppendValue(cols[count], v)
  BY DEF v, a
<1>3. CASE a.err # "none"
  BY <1>1, <1>2, <1>3, AppendFails DEF Appends
<1>4. CASE a.err = "none"
  <2>1. Pushes(a, v)
    BY <1>1, <1>4 DEF Appends, Pushes
  <2> QED
    BY <1>1, <1>2, <2>1, ColumnGoesOn, RowIsComplete
<1> QED
  BY <1>3, <1>4

-----------------------------------------------------------------------------
(***************************************************************************)
(* Batches                                                                 *)
(***************************************************************************)
(* The batch is the rows after those in the files, as each of them alone says. *)
LEMMA BatchRow ==
    ASSUME IInv, NEW r \in 1..rows
    PROVE  Batch[r] = StoredRow(Len(file) + r)
<1>1. Batch[r] = [i \in DOMAIN columns |-> Entry(cols[i], r)]
  BY DEF Batch
<1>2. ASSUME NEW i \in DOMAIN columns
      PROVE  Entry(cols[i], r) = Entry(Read(Len(file) + r, i).builder, 1)
  <2>1. Entries(cols[i]) \in Nat
    <3>1. BuilderOK(cols[i])
      BY DEF IInv, BuildersOK
    <3> QED
      BY <3>1 DEF BuilderOK, ListOK, Entries, IsSeq
  <2>2. Entries(cols[i]) >= rows /\ rows \in Nat
    BY DEF IInv, TypeOK, BuildersOK
  <2>3. r \in 1..Entries(cols[i])
    BY <2>1, <2>2
  <2> QED
    BY <2>3 DEF IInv, RowsAreDecoded
<1> QED
  BY <1>1, <1>2 DEF StoredRow

(* What the concatenation of two sequences is. *)
Joined(s, t, u) == /\ IsSeq(u) /\ Len(u) = Len(s) + Len(t)
                   /\ \A k \in 1..Len(s) : u[k] = s[k]
                   /\ \A k \in 1..Len(t) : u[Len(s) + k] = t[k]

(* Joining two sequences gives that. *)
LEMMA ConcatIsJoined == \A s, t : IsSeq(s) /\ IsSeq(t) => Joined(s, t, s \o t)
  BY ConcatAny DEF Joined

(* All rows so far, in the files and in the open batch. *)
LEMMA AllRows ==
    ASSUME IInv
    PROVE  /\ IsSeq(file \o Batch) /\ Len(file \o Batch) = Len(file) + rows
           /\ DOMAIN (file \o Batch) = 1..(Len(file) + rows)
           /\ \A k \in 1..(Len(file) + rows) :
                 (file \o Batch)[k] = StoredRow(k) /\ k \in DOMAIN load.rows /\ RowIsGood(k)
<1>1. rows \in Nat /\ IsSeq(file) /\ Len(file) \in Nat /\ DOMAIN file = 1..Len(file)
  BY DomainOfSeq DEF IInv, TypeOK
<1>2. IsSeq(Batch) /\ Len(Batch) = rows
  <2>1. Batch = [r \in 1..rows |-> Batch[r]]
    BY DEF Batch
  <2> QED
    BY <1>1, <2>1, MappedIsSeq
<1>3. /\ IsSeq(file \o Batch) /\ Len(file \o Batch) = Len(file) + rows
      /\ \A k \in 1..Len(file) : (file \o Batch)[k] = file[k]
      /\ \A k \in 1..rows : (file \o Batch)[Len(file) + k] = Batch[k]
  <2>1. Joined(file, Batch, file \o Batch)
    BY <1>1, <1>2, ConcatIsJoined, Zenon
  <2> HIDE DEF Batch
  <2> QED
    BY <1>2, <2>1 DEF Joined
<1>4. DOMAIN (file \o Batch) = 1..(Len(file) + rows)
  BY <1>3, DomainOfSeq
<1>5. ASSUME NEW k \in 1..(Len(file) + rows)
      PROVE  (file \o Batch)[k] = StoredRow(k)
  <2>1. CASE k \in 1..Len(file)
    BY <1>1, <1>3, <2>1 DEF IInv, RowsAreDecoded
  <2>2. CASE k \notin 1..Len(file)
    <3>1. k - Len(file) \in 1..rows /\ Len(file) + (k - Len(file)) = k
      BY <1>1, <2>2
    <3> QED
      BY <1>3, <3>1, BatchRow
  <2> QED
    BY <2>1, <2>2
<1>6. \A k \in 1..(Len(file) + rows) : k \in DOMAIN load.rows /\ RowIsGood(k)
  BY DEF IInv, RowsAreDecoded
<1> QED
  BY <1>3, <1>4, <1>5, <1>6

(* Cutting a batch leaves the builders as new. *)
LEMMA FinishedColumns ==
    ASSUME IInv, cols' = [i \in DOMAIN columns |-> FinishBuilder(cols[i])]
    PROVE  /\ cols' = [i \in DOMAIN columns |-> cols'[i]]
           /\ \A i \in DOMAIN columns :
                 /\ cols'[i] = Fresh(i) /\ Fresh(i) = Filled(Fresh(i), Fresh(i))
                 /\ BuilderOK(Fresh(i)) /\ Entries(Fresh(i)) = 0
<1>1. ASSUME NEW i \in DOMAIN columns
      PROVE  /\ FinishBuilder(cols[i]) = Fresh(i) /\ Fresh(i) = Filled(Fresh(i), Fresh(i))
             /\ BuilderOK(Fresh(i)) /\ Entries(Fresh(i)) = 0
  <2>1. IsFresh(Fresh(i))
    BY FreshOK DEF IInv
  <2>2. cols[i] = Filled(Fresh(i), cols[i])
    BY DEF IInv, BuildersOK
  <2> QED
    BY <2>1, <2>2, FinishedIsFresh
<1> QED
  BY <1>1

(* A batch that is cut and written, or whose write fails. *)
LEMMA FinishKeeps ==
    ASSUME IInv, step \in {"row", "flush"}, NEW done \in {"row", "stage"}, Finish(done),
           next' = Len(file) + rows + 1, next' \in 1..(Len(load.rows) + 1),
           UNCHANGED <<load, columns, schema, scratch, ranges>>
    PROVE  IInv'
<1>1. /\ cols' = [i \in DOMAIN columns |-> FinishBuilder(cols[i])]
      /\ rows' = 0 /\ bytes' = 0 /\ subs' = subs
      /\ \/ file' = file \o Batch /\ step' = done /\ status' = status
         \/ step' = "end" /\ status' = "StorageFailed" /\ file' = file
  BY DEF Finish, Fail
<1>2. status = "running"
  BY DEF IInv, TypeOK
<1>3. /\ cols' = [i \in DOMAIN columns |-> cols'[i]]
      /\ \A i \in DOMAIN columns :
            /\ cols'[i] = Fresh(i) /\ Fresh(i) = Filled(Fresh(i), Fresh(i))
            /\ BuilderOK(Fresh(i)) /\ Entries(Fresh(i)) = 0
  BY <1>1, FinishedColumns
<1>4. /\ rows \in Nat /\ Len(file) \in Nat /\ IsSeq(file) /\ DOMAIN file = 1..Len(file)
  BY DomainOfSeq DEF IInv, TypeOK
<1>5. /\ IsSeq(file \o Batch) /\ Len(file \o Batch) = Len(file) + rows
      /\ DOMAIN (file \o Batch) = 1..(Len(file) + rows)
      /\ \A k \in 1..(Len(file) + rows) :
            (file \o Batch)[k] = StoredRow(k) /\ k \in DOMAIN load.rows /\ RowIsGood(k)
  BY AllRows
<1>6. step' \in {"row", "stage", "end"} /\ IsSeq(file')
  BY <1>1, <1>4, <1>5
<1>7. TypeOK'
  <2>1. status' \notin DecodeErrors
    BY <1>1, <1>2 DEF DecodeErrors
  <2>2. (step' = "end") = (status' # "running")
    BY <1>1, <1>2
  <2>3. status' \in {"running", "StorageFailed"}
    BY <1>1, <1>2
  <2> QED
    BY <1>1, <1>6, <2>1, <2>2, <2>3 DEF IInv, TypeOK
<1>8. RangesOK'
  BY DEF IInv, RangesOK
<1>9. FieldsOK' /\ ColumnsOK'
  BY <1>6 DEF FieldsOK, ColumnsOK
<1>10. BlockOK'
  BY <1>1, <1>3, <1>6 DEF IInv, BlockOK
<1>11. BytesOK'
  BY <1>1, <1>6, LimitsAssumption DEF BytesOK
<1>12. BuildersOK'
  <2>1. \A i \in DOMAIN columns : /\ cols'[i] = Filled(Fresh(i), cols'[i]) /\ BuilderOK(cols'[i])
                                 /\ Entries(cols'[i]) = 0
    BY <1>3
  <2>2. rows' = 0 /\ step' # "columns" /\ 0 >= 0 /\ 0 + 0 = 0
    BY <1>1, <1>6
  <2> QED
    BY <2>1, <2>2, SameTable DEF BuildersOK
<1>13. SubsOK'
  <2>1. SUFFICES ASSUME step' # "end"
                 PROVE  \A i \in DOMAIN columns :
                           subs[i] = Cardinality(Substituted(i, Len(file') + Entries(cols'[i])))
    BY <1>1, SameTable DEF SubsOK
  <2>2. Len(file') = Len(file) + rows
    BY <1>1, <1>5, <2>1
  <2>3. ASSUME NEW i \in DOMAIN columns
        PROVE  subs[i] = Cardinality(Substituted(i, Len(file') + Entries(cols'[i])))
    <3>1. Entries(cols[i]) = rows + 0
      BY DEF IInv, BuildersOK
    <3>2. Len(file) + Entries(cols[i]) = Len(file') + Entries(cols'[i])
      BY <1>3, <1>4, <2>2, <3>1
    <3>3. subs[i] = Cardinality(Substituted(i, Len(file) + Entries(cols[i])))
      BY DEF IInv, SubsOK
    <3> QED
      BY <3>2, <3>3
  <2> QED
    BY <2>3
<1>14. RowsAreDecoded'
  <2>1. \A k \in 1..Len(file) : k \in DOMAIN load.rows /\ RowIsGood(k)
    BY <1>4, <1>5
  <2>2. \A k \in DOMAIN file' : file'[k] = StoredRow(k)
    <3>1. CASE file' = file
      BY <3>1, Zenon DEF IInv, RowsAreDecoded
    <3>2. CASE file' = file \o Batch
      BY <1>5, <3>2, Zenon
    <3> QED
      BY <1>1, <3>1, <3>2, Zenon
  <2>3. \A k \in 1..(Len(file') + rows') : k \in DOMAIN load.rows /\ RowIsGood(k)
    <3>1. Len(file') + rows' = Len(file) \/ Len(file') + rows' = Len(file) + rows
      BY <1>1, <1>4, <1>5
    <3> QED
      BY <1>5, <2>1, <3>1
  <2>4. \A i \in DOMAIN columns : Entries(cols'[i]) = 0
    BY <1>3
  <2>5. step' # "end" => next' = Len(file') + rows' + 1
    BY <1>1, <1>4, <1>5
  <2>6. status' \notin DecodeErrors /\ status' # "closed" /\ step' # "flush"
    BY <1>1, <1>2, <1>6 DEF DecodeErrors
  <2>7. (\A i \in DOMAIN columns : \A r \in 1..Entries(cols[i]) :
              Entry(cols[i], r) = Entry(Read(Len(file) + r, i).builder, 1))'
    BY <2>4
  <2> QED
    BY <2>2, <2>3, <2>5, <2>6, <2>7, SameTable DEF RowsAreDecoded
<1> QED
  BY <1>7, <1>8, <1>9, <1>10, <1>11, <1>12, <1>13, <1>14 DEF IInv

(* After a row: the batch is cut when it is full. *)
LEMMA FlushKeeps ==
    ASSUME IInv, Flush
    PROVE  IInv'
<1>1. /\ step = "flush" /\ next' = next + 1
      /\ \/ IsFull /\ Finish("row")
         \/ ~IsFull /\ step' = "row" /\ UNCHANGED <<cols, rows, bytes, subs, file, status>>
      /\ UNCHANGED <<load, columns, schema, scratch, ranges>>
  BY DEF Flush, table
<1>2. /\ next = Len(file) + rows + 0 /\ next \in DOMAIN load.rows /\ IsSeq(load.rows)
      /\ rows \in Nat /\ bytes \in Nat /\ IsSeq(file) /\ status = "running"
  BY <1>1 DEF IInv, TypeOK, LoadOK, RowsAreDecoded
<1>3. /\ Len(file) \in Nat /\ DOMAIN load.rows = 1..Len(load.rows) /\ Len(load.rows) \in Nat
  BY <1>2, DomainOfSeq
<1>4. next' = Len(file) + rows + 1 /\ next' \in 1..(Len(load.rows) + 1)
  BY <1>1, <1>2, <1>3
<1>5. CASE Finish("row")
  BY <1>1, <1>4, <1>5, FinishKeeps
<1>6. CASE ~IsFull /\ step' = "row" /\ UNCHANGED <<cols, rows, bytes, subs, file, status>>
  <2>1. TypeOK' /\ RangesOK' /\ FieldsOK' /\ ColumnsOK' /\ BlockOK'
    <3>1. status' \notin DecodeErrors
      BY <1>2, <1>6 DEF DecodeErrors
    <3> QED
      BY <1>1, <1>2, <1>4, <1>6, <3>1 DEF IInv, TypeOK, RangesOK, FieldsOK, ColumnsOK, BlockOK
  <2>2. BytesOK'
    <3>1. rows < BatchRows /\ bytes < BatchBytes
      BY <1>2, <1>6, LimitsAssumption DEF IsFull
    <3> QED
      BY <1>6, <3>1 DEF IInv, BytesOK
  <2>3. BuildersOK' /\ SubsOK'
    BY <1>1, <1>6, SameTable DEF IInv, BuildersOK, SubsOK
  <2>4. RowsAreDecoded'
    <3>1. status' \notin DecodeErrors /\ status' # "closed"
      BY <1>2, <1>6 DEF DecodeErrors
    <3> QED
      BY <1>1, <1>4, <1>6, <3>1, SameTable DEF IInv, RowsAreDecoded
  <2> QED
    BY <2>1, <2>2, <2>3, <2>4 DEF IInv
<1> QED
  BY <1>1, <1>5, <1>6

(* After the last row: what is left is written, if there is any. *)
LEMMA CloseKeeps ==
    ASSUME IInv, Close
    PROVE  IInv'
<1>1. /\ step = "row" /\ next' = next
      /\ \/ Finish("stage")
         \/ step' = "stage" /\ UNCHANGED <<cols, rows, bytes, subs, file, status>>
      /\ UNCHANGED <<load, columns, schema, scratch, ranges>>
  BY DEF Close, table
<1>2. /\ next = Len(file) + rows + 1 /\ next \in 1..(Len(load.rows) + 1) /\ status = "running"
  BY <1>1 DEF IInv, TypeOK, RowsAreDecoded
<1>3. CASE Finish("stage")
  BY <1>1, <1>2, <1>3, FinishKeeps
<1>4. CASE step' = "stage" /\ UNCHANGED <<cols, rows, bytes, subs, file, status>>
  <2>0. status' \notin DecodeErrors /\ status' # "closed"
    BY <1>2, <1>4 DEF DecodeErrors
  <2>1. TypeOK' /\ RangesOK' /\ FieldsOK' /\ ColumnsOK' /\ BlockOK' /\ BytesOK'
    BY <1>1, <1>2, <1>4, <2>0 DEF IInv, TypeOK, RangesOK, FieldsOK, ColumnsOK, BlockOK, BytesOK
  <2>2. BuildersOK' /\ SubsOK'
    BY <1>1, <1>4, SameTable DEF IInv, BuildersOK, SubsOK
  <2>3. RowsAreDecoded'
    BY <1>1, <1>2, <1>4, <2>0, SameTable DEF IInv, RowsAreDecoded
  <2> QED
    BY <2>1, <2>2, <2>3 DEF IInv
<1> QED
  BY <1>1, <1>3, <1>4

(* Every step keeps the invariant. *)
LEMMA NextKeeps ==
    ASSUME IInv, [Next]_vars
    PROVE  IInv'
<1>1. CASE Next
  BY <1>1, CreateTableKeeps, CopyStartKeeps, BeginRowKeeps, NextFieldKeeps, AppendColumnKeeps,
     FlushKeeps, CloseKeeps, StageKeeps DEF Next
<1>2. CASE UNCHANGED vars
  BY <1>2, StutterKeeps
<1> QED
  BY <1>1, <1>2

-----------------------------------------------------------------------------
(***************************************************************************)
(* The theorems                                                            *)
(***************************************************************************)
(***************************************************************************)
(* Whatever is read, what a worker holds and has written is at every step  *)
(* what the rows say, read alone: the reused scratch buffer, the ranges    *)
(* kept from row to row, the builders filled across rows and cut into      *)
(* batches, and the failures in between, change none of it (decode_row,    *)
(* append_row_ranges, finish, worker_loop).                                *)
(***************************************************************************)
THEOREM Decoding == Spec => []IInv
<1>1. Init => IInv
  BY InitHolds
<1>2. IInv /\ [Next]_vars => IInv'
  BY NextKeeps
<1> QED
  BY <1>1, <1>2, PTL DEF Spec

(* The types of the decoder's state, in every reachable state.             *)
THEOREM TypeCorrect == Spec => []TypeOK
<1>1. IInv => TypeOK
  BY DEF IInv
<1> QED
  BY <1>1, Decoding, PTL

(***************************************************************************)
(* The slices append_row_ranges takes (values.push of scratch[range]) are  *)
(* never outside scratch, and no byte is in two of them.                   *)
(***************************************************************************)
THEOREM RangesInScratch == Spec => []RangesOK
<1>1. IInv => RangesOK
  BY DEF IInv
<1> QED
  BY <1>1, Decoding, PTL

(***************************************************************************)
(* What is in the files and in the open builders is what each row, read    *)
(* alone, says; all of these rows are good; a row that is refused is not.  *)
(***************************************************************************)
THEOREM StoredAsReadAlone == Spec => []RowsAreDecoded
<1>1. IInv => RowsAreDecoded
  BY DEF IInv
<1> QED
  BY <1>1, Decoding, PTL

(***************************************************************************)
(* is_full is asked after every row: a batch is never carried on past its  *)
(* rows or bytes, and outgrows the bytes by less than one row.             *)
(***************************************************************************)
THEOREM BoundedBatches == Spec => []BatchIsBounded
<1>1. IInv => BatchIsBounded
  BY DEF IInv, BytesOK, BatchIsBounded
<1> QED
  BY <1>1, Decoding, PTL

(* A builder that may be cut makes an array its field allows.              *)
LEMMA ColumnIsValid ==
    ASSUME IInv, step \in {"row", "flush", "stage"}, NEW i \in DOMAIN columns
    PROVE  /\ ArrayType(cols[i]) = schema[i]
           /\ Entries(cols[i]) = rows
           /\ cols[i].kind = "List" => /\ Len(cols[i].offsets) = rows + 1
                                       /\ Last(cols[i].offsets) = Len(cols[i].element.vals)
                                       /\ \A r \in 1..rows : cols[i].offsets[r] <= cols[i].offsets[r + 1]
<1>1. cols[i] = Filled(Fresh(i), cols[i]) /\ BuilderOK(cols[i]) /\ rows \in Nat
  BY DEF IInv, BuildersOK, TypeOK
<1>2. Entries(cols[i]) = rows
  <2>1. Entries(cols[i]) = rows + 0
    BY DEF IInv, BuildersOK
  <2> QED
    BY <1>1, <2>1
<1>3. IsFresh(Fresh(i)) /\ ArrayType(Fresh(i)) = schema[i]
  BY FreshOK DEF IInv
<1>4. ArrayType(cols[i]) = ArrayType(Fresh(i))
  BY <1>1, <1>3, FinishedIsFresh
<1>5. ASSUME cols[i].kind = "List"
      PROVE  /\ Len(cols[i].offsets) = rows + 1
             /\ Last(cols[i].offsets) = Len(cols[i].element.vals)
             /\ \A r \in 1..rows : cols[i].offsets[r] <= cols[i].offsets[r + 1]
  <2>1. ListOK(cols[i]) /\ Len(cols[i].validity) = rows
    BY <1>1, <1>2, <1>5 DEF BuilderOK, Entries
  <2>2. DOMAIN cols[i].validity = 1..rows
    BY <2>1, DomainOfSeq DEF ListOK
  <2> QED
    BY <2>1, <2>2 DEF ListOK
<1> QED
  BY <1>2, <1>3, <1>4, <1>5

(***************************************************************************)
(* The types the builders are chosen for and the types the schema declares *)
(* are computed apart (ColumnBuilder::new, arrow_type); they agree for     *)
(* every type a column may declare, and stay so however the rows are       *)
(* appended and wherever the batches are cut, so finish cannot fail.       *)
(***************************************************************************)
THEOREM ValidBatches == Spec => []BatchIsValid
<1>1. IInv => BatchIsValid
  <2> SUFFICES ASSUME IInv, step \in {"row", "flush", "stage"}, NEW i \in DOMAIN cols
               PROVE  /\ ArrayType(cols[i]) = schema[i]
                      /\ Entries(cols[i]) = rows
                      /\ cols[i].kind = "List" =>
                            /\ Len(cols[i].offsets) = rows + 1
                            /\ Last(cols[i].offsets) = Len(cols[i].element.vals)
                            /\ \A r \in 1..rows : cols[i].offsets[r] <= cols[i].offsets[r + 1]
    BY DEF BatchIsValid
  <2>1. i \in DOMAIN columns
    BY DEF IInv, BlockOK
  <2> QED
    BY <2>1, ColumnIsValid
<1> QED
  BY <1>1, Decoding, PTL

(* A row has a field at least, so no row is good where there is no column. *)
LEMMA GoodRowsHaveColumns ==
    ASSUME IInv, NEW k \in DOMAIN load.rows, RowIsGood(k)
    PROVE  columns # <<>>
<1>1. load.rows[k].raw \in Seq(0..255)
  BY RawBytes DEF IInv
<1>2. Len(Fields(load.rows[k].raw)) # 0
  <2>1. 0 \in 0..Len(load.rows[k].raw) /\ Cut(load.rows[k].raw)[0] \in Cuts
    BY <1>1, CutTyped
  <2>2. Len(Cut(load.rows[k].raw)[0].fields) \in Nat
    BY <2>1 DEF Cuts
  <2>3. Len(Fields(load.rows[k].raw)) > Len(Cut(load.rows[k].raw)[0].fields)
    BY <1>1, <2>1, FieldsKeep
  <2>4. Len(Fields(load.rows[k].raw)) \in Nat
    BY <1>1, FieldsTyped
  <2> QED
    BY <2>2, <2>3, <2>4
<1>3. Len(columns) # 0
  BY <1>2 DEF RowIsGood
<1> QED
  BY <1>3, EmptyIsSeq

(***************************************************************************)
(* When what each row, read alone, says is what it was written from, the   *)
(* rows stored are the rows of the load, in order, each once, wherever the *)
(* batches were cut and wherever the worker failed, and no row that the    *)
(* table may have is refused: nothing depends on the rows before it.       *)
(***************************************************************************)
THEOREM StoredRows == Spec /\ []RowsAgree => []RowsAreStored
<1>1. IInv /\ RowsAgree => RowsAreStored
  <2> SUFFICES ASSUME IInv, RowsAgree PROVE RowsAreStored
    OBVIOUS
  <2>1. /\ Len(file \o Batch) = Len(file) + rows
        /\ DOMAIN (file \o Batch) = 1..(Len(file) + rows)
        /\ \A k \in 1..(Len(file) + rows) :
              (file \o Batch)[k] = StoredRow(k) /\ k \in DOMAIN load.rows /\ RowIsGood(k)
    BY AllRows
  <2>2. ASSUME NEW k \in 1..(Len(file) + rows)
        PROVE  load.rows[k].ok /\ StoredRow(k) = load.rows[k].stored
    <3>1. k \in DOMAIN load.rows /\ RowIsGood(k)
      BY <2>1
    <3>2. columns # <<>>
      BY <3>1, GoodRowsHaveColumns
    <3> QED
      BY <3>1, <3>2 DEF RowsAgree
  <2>3. rows \in Nat /\ Len(file) \in Nat
    BY DomainOfSeq DEF IInv, TypeOK
  <2>4. ASSUME step \in {"row", "flush", "stage"} \/ status = "closed"
        PROVE  Len(file) + rows = (IF step = "flush" THEN next ELSE next - 1)
    BY <2>3, <2>4 DEF IInv, RowsAreDecoded
  <2>5. \A k \in DOMAIN (file \o Batch) : load.rows[k].ok /\ (file \o Batch)[k] = load.rows[k].stored
    BY <2>1, <2>2, Zenon
  <2>6. step \in {"row", "flush", "stage"} \/ status = "closed" =>
           Len(file \o Batch) = (IF step = "flush" THEN next ELSE next - 1)
    BY <2>1, <2>4, Zenon
  <2>7. ASSUME status \in DecodeErrors PROVE ~load.rows[next].ok
    <3>1. next \in DOMAIN load.rows
      BY <2>7 DEF IInv, TypeOK
    <3>2. ~RowIsGood(next)
      BY <2>7 DEF IInv, RowsAreDecoded
    <3> QED
      BY <2>7, <3>1, <3>2 DEF RowsAgree
  <2> QED
    BY <2>5, <2>6, <2>7, Zenon DEF RowsAreStored
<1> QED
  BY <1>1, Decoding, PTL

(***************************************************************************)
(* Under the same condition, the counts of substitutions, which finish     *)
(* does not reset, are those of all rows so far.                           *)
(***************************************************************************)
THEOREM CountedSubstitutions == Spec /\ []RowsAgree => []SubstitutionsAreCounted
<1>1. IInv /\ RowsAgree => SubstitutionsAreCounted
  <2> SUFFICES ASSUME IInv, RowsAgree, step = "row" \/ status = "closed", NEW i \in DOMAIN columns
               PROVE  subs[i] = Cardinality({k \in 1..(next - 1) : load.rows[k].subst[i]})
    BY DEF SubstitutionsAreCounted
  <2>1. rows \in Nat /\ Len(file) \in Nat
    BY DomainOfSeq DEF IInv, TypeOK
  <2>2. (step = "end") = (status # "running")
    BY DEF IInv, TypeOK
  <2>3. step # "columns" /\ step # "flush" /\ (step # "end" \/ status = "closed")
    BY <2>2
  <2>4. Entries(cols[i]) = rows
    <3>1. Entries(cols[i]) = rows + 0
      BY <2>3 DEF IInv, BuildersOK
    <3> QED
      BY <2>1, <3>1
  <2>5. next - 1 = Len(file) + rows
    BY <2>1, <2>3 DEF IInv, RowsAreDecoded
  <2>6. subs[i] = Cardinality(Substituted(i, Len(file) + rows))
    BY <2>3, <2>4 DEF IInv, SubsOK
  <2>7. columns # <<>>
    BY EmptyIsSeq
  <2>8. ASSUME NEW k \in 1..(next - 1)
        PROVE  load.rows[k].subst[i] = Read(k, i).subst
    <3>1. k \in DOMAIN load.rows /\ RowIsGood(k)
      BY <2>5 DEF IInv, RowsAreDecoded
    <3> QED
      BY <2>7, <3>1 DEF RowsAgree
  <2>9. {k \in 1..(next - 1) : load.rows[k].subst[i]} = Substituted(i, Len(file) + rows)
    BY <2>5, <2>8, Zenon DEF Substituted
  <2> QED
    BY <2>6, <2>9
<1> QED
  BY <1>1, Decoding, PTL
=============================================================================
