------------------------- MODULE ObjectSourceProofs -------------------------
(***************************************************************************)
(* Proofs about ObjectSource, for an object, chunks and buffers of any     *)
(* size and any number of resumes.  The invariant is inductive because an  *)
(* open stream is always in step with `delivered`, the offset a resume     *)
(* starts from.                                                            *)
(***************************************************************************)
EXTENDS ObjectSource, TLAPS

(* A GET, first or resumed, starts where the bytes taken so far end.        *)
LEMMA StartInv ==
  ASSUME IInv, StartSource
  PROVE  IInv'
<1> USE SizesAssumption DEF IInv
<1>1. TypeOK'
  BY DEF TypeOK, Contiguous, StreamInStep, StartSource, OpenStream
<1>2. Contiguous'
  BY DEF TypeOK, Contiguous, StreamInStep, StartSource, OpenStream
<1>3. EofIsComplete'
  BY DEF TypeOK, Contiguous, EofIsComplete, StartSource, OpenStream
<1>4. RangeIsSatisfiable'
  BY DEF TypeOK, RangeIsSatisfiable, StreamInStep, StartSource, OpenStream
<1>5. StreamInStep'
  BY DEF TypeOK, StreamInStep, StartSource, OpenStream
<1> QED BY <1>1, <1>2, <1>3, <1>4, <1>5

(* What an action that polls the stream starts from: nothing is pending, so *)
(* everything taken from the streams has been given out.                    *)
LEMMA AtAPoll ==
  ASSUME IInv, Polls
  PROVE  /\ given = delivered /\ from = delivered /\ to = delivered
         /\ streamPos = delivered
         /\ delivered \in Nat /\ Total \in Nat /\ delivered <= Total
         /\ status = "reading"
<1>1. from = given /\ to = delivered /\ from = to /\ stream = "open" /\ status = "reading"
  BY DEF IInv, Contiguous, Polls
<1>2. streamPos = delivered
  BY <1>1 DEF IInv, StreamInStep
<1>3. delivered \in Nat /\ Total \in Nat /\ delivered <= Total
  BY SizesAssumption DEF IInv, TypeOK
<1> QED BY <1>1, <1>2, <1>3

(* A chunk of the stream follows what was delivered before it.              *)
LEMMA ChunkInv ==
  ASSUME IInv, NEW n \in Nat, Chunk(n)
  PROVE  IInv'
<1>1. Polls
  BY DEF Chunk
<1>2. /\ given = delivered /\ streamPos = delivered
      /\ delivered \in Nat /\ Total \in Nat
      /\ status = "reading"
  BY <1>1, AtAPoll
<1>3. /\ delivered' = delivered + n
      /\ streamPos' = delivered + n
      /\ from' = delivered /\ to' = delivered + n
      /\ delivered + n <= Total
      /\ UNCHANGED <<stream, resumes, given, lastGet, status>>
  BY <1>2 DEF Chunk
<1>4. delivered + n \in Nat /\ delivered <= delivered + n
  BY <1>2
<1>5. TypeOK'
  BY <1>2, <1>3, <1>4 DEF IInv, TypeOK
<1>6. Contiguous'
  BY <1>2, <1>3, <1>4 DEF Contiguous
<1>7. EofIsComplete' /\ StreamInStep'
  BY <1>2, <1>3 DEF EofIsComplete, StreamInStep
<1>8. RangeIsSatisfiable'
  BY <1>3 DEF IInv, RangeIsSatisfiable
<1> QED BY <1>5, <1>6, <1>7, <1>8 DEF IInv

(* A broken stream is resumed only while bytes are missing, and from there. *)
LEMMA BreakInv ==
  ASSUME IInv, StreamBreaks
  PROVE  IInv'
<1>1. Polls /\ UNCHANGED <<delivered, from, to, given>>
  BY DEF StreamBreaks
<1>2. /\ given = delivered /\ from = delivered /\ to = delivered
      /\ delivered \in Nat /\ Total \in Nat /\ delivered <= Total
      /\ streamPos = delivered
      /\ status = "reading"
  BY <1>1, AtAPoll
<1>3. resumes \in Nat /\ MaxResumes \in Nat /\ resumes <= MaxResumes /\ lastGet \in Nat
  BY SizesAssumption DEF IInv, TypeOK
<1>4. Contiguous'
  BY <1>1, <1>2 DEF Contiguous
<1>5. CASE /\ delivered >= Total
           /\ stream' = "closed" /\ status' = "eof"
           /\ UNCHANGED <<resumes, lastGet, streamPos>>
  <2>1. delivered = Total
    BY <1>2, <1>5
  <2> QED BY <1>1, <1>2, <1>3, <1>4, <1>5, <2>1
          DEF IInv, TypeOK, EofIsComplete, RangeIsSatisfiable, StreamInStep
<1>6. CASE /\ status' = "error"
           /\ UNCHANGED <<stream, resumes, lastGet, streamPos>>
  BY <1>1, <1>2, <1>3, <1>4, <1>6
     DEF IInv, TypeOK, EofIsComplete, RangeIsSatisfiable, StreamInStep
<1>7. CASE /\ delivered < Total
           /\ resumes < MaxResumes
           /\ resumes' = resumes + 1
           /\ OpenStream("reading")
  <2>1. resumes' \in Nat /\ resumes' <= MaxResumes
    BY <1>3, <1>7
  <2>2. lastGet' = delivered /\ streamPos' = delivered
    BY <1>2, <1>7 DEF OpenStream
  <2>3. stream' \in {"open", "closed"} /\ status' \in {"reading", "error"}
    BY <1>7 DEF OpenStream
  <2>4. TypeOK'
    BY <1>1, <1>2, <2>1, <2>2, <2>3 DEF IInv, TypeOK
  <2>5. RangeIsSatisfiable'
    BY <1>7, <2>2 DEF RangeIsSatisfiable
  <2>6. EofIsComplete' /\ StreamInStep'
    BY <1>1, <2>2, <2>3 DEF EofIsComplete, StreamInStep
  <2> QED BY <1>4, <2>4, <2>5, <2>6 DEF IInv
<1> QED BY <1>5, <1>6, <1>7 DEF StreamBreaks

(* A stream that ends is a clean end of input only when nothing is missing. *)
LEMMA EndInv ==
  ASSUME IInv, StreamEnds
  PROVE  IInv'
<1>1. /\ Polls
      /\ stream' = "closed"
      /\ status' = IF delivered < Total THEN "error" ELSE "eof"
      /\ UNCHANGED <<streamPos, delivered, resumes, from, to, given, lastGet>>
  BY DEF StreamEnds
<1>2. given = delivered /\ delivered \in Nat /\ Total \in Nat /\ delivered <= Total
  BY <1>1, AtAPoll
<1>3. status' \in {"error", "eof"} /\ (status' = "eof" => ~(delivered < Total))
  BY <1>1
<1>4. ~(delivered < Total) => delivered = Total
  BY <1>2
<1>5. EofIsComplete'
  BY <1>1, <1>2, <1>3, <1>4 DEF EofIsComplete
<1>6. TypeOK'
  BY <1>1, <1>3 DEF IInv, TypeOK
<1>7. Contiguous' /\ RangeIsSatisfiable' /\ StreamInStep'
  BY <1>1, <1>3 DEF IInv, Contiguous, RangeIsSatisfiable, StreamInStep
<1> QED BY <1>5, <1>6, <1>7 DEF IInv

(* read() gives out a prefix of what is pending.                            *)
LEMMA ReadInv ==
  ASSUME IInv, NEW n \in 1..MaxBuf, Read(n)
  PROVE  IInv'
<1> USE SizesAssumption DEF IInv, TypeOK, Contiguous, EofIsComplete, RangeIsSatisfiable, StreamInStep
<1> DEFINE take == Min(to - from, n)
<1>1. take \in Nat /\ take <= to - from
  BY DEF Min, Read
<1>2. /\ given' = given + take
      /\ from' = from + take
  BY DEF Read
<1> HIDE DEF take
<1> QED BY <1>1, <1>2 DEF Read

(* The inductive invariant holds of every behaviour of ObjectSource.        *)
THEOREM Invariance == Spec => []IInv
<1>1. Init => IInv
  BY SizesAssumption DEF Init, IInv, TypeOK, Contiguous, EofIsComplete, RangeIsSatisfiable, StreamInStep
<1>2. IInv /\ [Next]_vars => IInv'
  <2> SUFFICES ASSUME IInv, [Next]_vars PROVE IInv'
    OBVIOUS
  <2>1. CASE UNCHANGED vars
    BY <2>1 DEF vars, IInv, TypeOK, Contiguous, EofIsComplete, RangeIsSatisfiable, StreamInStep
  <2>2. CASE Progress
    BY <2>2, StartInv, BreakInv, EndInv, ChunkInv DEF Progress
  <2>3. CASE Chunk(0)
    BY <2>3, ChunkInv
  <2>4. CASE \E n \in 1..MaxBuf : Read(n)
    BY <2>4, ReadInv
  <2> QED BY <2>1, <2>2, <2>3, <2>4 DEF Next
<1> QED BY <1>1, <1>2, PTL DEF Spec

(* No byte is lost or repeated across any number of resumes, whatever the   *)
(* sizes of the object, of its chunks and of the caller's buffers.          *)
THEOREM NoGapNoRepeat == Spec => []Contiguous
<1>1. IInv => Contiguous
  BY DEF IInv
<1> QED BY <1>1, Invariance, PTL

(* A clean end of input is the whole object.                                *)
THEOREM EofMeansComplete == Spec => []EofIsComplete
<1>1. IInv => EofIsComplete
  BY DEF IInv
<1> QED BY <1>1, Invariance, PTL

(* A finished transfer is never resumed.                                    *)
THEOREM NeverPastTheEnd == Spec => []RangeIsSatisfiable
<1>1. IInv => RangeIsSatisfiable
  BY DEF IInv
<1> QED BY <1>1, Invariance, PTL
=============================================================================
