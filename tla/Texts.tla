------------------------------- MODULE Texts -------------------------------
(***************************************************************************)
(* What the parsers use of the string and slice functions of the standard  *)
(* library.  A text is a sequence: of byte codes in a COPY field, of       *)
(* tokens (words and punctuation) in a statement.                          *)
(***************************************************************************)
EXTENDS Integers, Sequences, FiniteSets, SequencesExt

CONSTANTS Null,     \* None, and what a parser answers when there is nothing to read
          Lower     \* the lower-case form of the words that have one

Lowered(w) == IF w \in DOMAIN Lower THEN Lower[w] ELSE w

(* find and rfind: the first and the last place of a member of S, or 0.    *)
Places(s, S) == {i \in DOMAIN s : s[i] \in S}
First(s, S) == LET at == Places(s, S) IN IF at = {} THEN 0 ELSE Min(at)
LastOf(s, S) == Max({0} \cup Places(s, S))

Before(s, i) == SubSeq(s, 1, i - 1)
After(s, i) == SubSeq(s, i + 1, Len(s))

(* trim, trim_start and trim_end, of the members of `blank`.               *)
Kept(s, blank) == {i \in DOMAIN s : s[i] \notin blank}
TrimStart(s, blank) == After(s, Min(Kept(s, blank) \cup {Len(s) + 1}) - 1)
TrimEnd(s, blank) == SubSeq(s, 1, Max({0} \cup Kept(s, blank)))
Trim(s, blank) == TrimStart(TrimEnd(s, blank), blank)

(* The text between the places in `cuts`.                                  *)
Pieces(s, cuts) ==
    LET bounds == cuts \cup {0, Len(s) + 1}
        Bound(k) == CHOOSE c \in bounds : Cardinality({d \in bounds : d < c}) = k
    IN  [k \in 1..(Cardinality(cuts) + 1) |-> SubSeq(s, Bound(k - 1) + 1, Bound(k) - 1)]

(* splitn: at most n pieces.                                               *)
SplitN(s, n, c) ==
    Pieces(s, {i \in DOMAIN s : s[i] = c /\ Cardinality({j \in 1..(i - 1) : s[j] = c}) < n - 1})
=============================================================================
