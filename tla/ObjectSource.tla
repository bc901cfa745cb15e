---------------------------- MODULE ObjectSource ----------------------------
(***************************************************************************)
(* Reading a dump out of object storage (ObjectSource in src/source.rs): a *)
(* streaming GET that is resumed from the current offset when it breaks, a *)
(* bounded number of times, and that must neither lose, repeat nor silently*)
(* cut off a byte, because a dump carries no row counts to tell.           *)
(*                                                                         *)
(* Bytes are identified by their offset.  The caller (the decompressor and *)
(* ChunkReader) reads until it gets no byte or an error, and stops there.  *)
(***************************************************************************)
EXTENDS Naturals

CONSTANTS Total,        \* the object's length, from the HEAD request
          MaxResumes,   \* MAX_RESUMES
          MaxChunk,     \* the longest chunk the store sends
          MaxBuf        \* the longest buffer the caller offers

ASSUME SizesAssumption == /\ Total \in Nat
                          /\ MaxResumes \in Nat
                          /\ MaxChunk \in Nat \ {0}
                          /\ MaxBuf \in Nat \ {0}

VARIABLES stream,      \* "open" | "closed": the GET in progress
          streamPos,   \* the offset of the next byte that GET will send
          delivered,   \* bytes taken from the streams so far
          resumes,
          from, to,    \* pending: the bytes from..to-1 of the last chunk, not given out yet
          given,       \* bytes given to the caller so far
          lastGet,     \* the offset of the last GET, which is ranged unless 0
          status       \* "new" | "reading" | "eof" | "error": what the caller knows

vars == <<stream, streamPos, delivered, resumes, from, to, given, lastGet, status>>

Min(a, b) == IF a < b THEN a ELSE b

Init == /\ stream = "closed"
        /\ streamPos = 0
        /\ delivered = 0
        /\ resumes = 0
        /\ from = 0 /\ to = 0
        /\ given = 0
        /\ lastGet = 0
        /\ status = "new"

(* Mutant: the range is not asked for. *)
OpenStreamFromStart(next) ==
    /\ lastGet' = 0
    /\ \/ stream' = "open" /\ streamPos' = 0 /\ status' = next
       \/ stream' = "closed" /\ status' = "error" /\ UNCHANGED streamPos

(* A GET from offset `delivered`; the store may refuse it.                 *)
OpenStream(next) ==
    /\ lastGet' = delivered
    /\ \/ stream' = "open" /\ streamPos' = delivered /\ status' = next
       \/ stream' = "closed" /\ status' = "error" /\ UNCHANGED streamPos

StartSource == /\ status = "new"
               /\ OpenStream("reading")
               /\ UNCHANGED <<delivered, resumes, from, to, given>>

(* read() with nothing pending polls the stream: next_chunk's loop.        *)
Polls == status = "reading" /\ from = to /\ stream = "open"

Chunk(n) == /\ Polls
            /\ streamPos + n <= Total
            /\ streamPos' = streamPos + n
            /\ delivered' = delivered + n
            /\ from' = streamPos /\ to' = streamPos + n
            /\ UNCHANGED <<stream, resumes, given, lastGet, status>>

(* Mutants: the tail is resumed too; the count starts over. *)
StreamBreaksAtTail == /\ Polls
                      /\ \/ /\ resumes >= MaxResumes
                            /\ status' = "error"
                            /\ UNCHANGED <<stream, resumes, lastGet, streamPos>>
                         \/ /\ resumes < MaxResumes
                            /\ resumes' = resumes + 1
                            /\ OpenStream("reading")
                      /\ UNCHANGED <<delivered, from, to, given>>

StreamBreaksStartsOver == /\ Polls
                          /\ delivered < Total
                          /\ resumes' = IF resumes >= MaxResumes THEN 0 ELSE resumes + 1
                          /\ OpenStream("reading")
                          /\ UNCHANGED <<delivered, from, to, given>>

(* The stream reports an error: done, given up, or resumed.                *)
StreamBreaks == /\ Polls
                /\ \/ /\ delivered >= Total
                      /\ stream' = "closed"
                      /\ status' = "eof"
                      /\ UNCHANGED <<resumes, lastGet, streamPos>>
                   \/ /\ delivered < Total
                      /\ resumes >= MaxResumes
                      /\ status' = "error"
                      /\ UNCHANGED <<stream, resumes, lastGet, streamPos>>
                   \/ /\ delivered < Total
                      /\ resumes < MaxResumes
                      /\ resumes' = resumes + 1
                      /\ OpenStream("reading")
                /\ UNCHANGED <<delivered, from, to, given>>

(* Mutant: the length is not compared. *)
StreamEndsShort == /\ Polls
                   /\ stream' = "closed"
                   /\ status' = "eof"
                   /\ UNCHANGED <<streamPos, delivered, resumes, from, to, given, lastGet>>

(* The stream just ends, where it should or short of it.                   *)
StreamEnds == /\ Polls
              /\ stream' = "closed"
              /\ status' = IF delivered < Total THEN "error" ELSE "eof"
              /\ UNCHANGED <<streamPos, delivered, resumes, from, to, given, lastGet>>

(* read() with a buffer of n bytes and something pending copies a prefix.  *)
Read(n) == /\ status = "reading"
           /\ from < to
           /\ LET take == Min(to - from, n) IN
              /\ given' = given + take
              /\ from' = from + take
           /\ UNCHANGED <<stream, streamPos, delivered, resumes, to, lastGet, status>>

Progress == StartSource \/ StreamBreaks \/ StreamEnds
              \/ \E n \in 1..MaxChunk : Chunk(n)

Next == Progress \/ Chunk(0) \/ \E n \in 1..MaxBuf : Read(n)

(* The caller goes on reading, and a store does not send empty chunks only.*)
Spec == Init /\ [][Next]_vars /\ WF_vars(Next) /\ SF_vars(Progress)

-----------------------------------------------------------------------------
(* Types, and the bound on resumes: no more than MAX_RESUMES, and never    *)
(* more bytes than the object has.                                         *)
TypeOK == /\ stream \in {"open", "closed"}
          /\ streamPos \in Nat /\ delivered \in Nat /\ given \in Nat
          /\ delivered <= Total
          /\ resumes \in Nat /\ resumes <= MaxResumes
          /\ from \in Nat /\ to \in Nat
          /\ lastGet \in Nat
          /\ status \in {"new", "reading", "eof", "error"}

(* No gap and no repetition across resumes: the bytes waiting to be given  *)
(* to the caller start at the very offset it has reached, and end at the   *)
(* offset from which a broken stream would be resumed.                     *)
Contiguous == /\ from = given
              /\ to = delivered
              /\ from <= to

(* A clean end of input means the whole object: a truncated or abandoned   *)
(* transfer is an error, never a shorter dump.                             *)
EofIsComplete == status = "eof" => given = Total

(* No GET asks for a range at or past the end, "which every store          *)
(* rejects": an error on the tail of a finished transfer is not resumed.   *)
RangeIsSatisfiable == lastGet = 0 \/ lastGet < Total

(* An open stream sends what comes next.                                   *)
StreamInStep == /\ stream = "open" => streamPos = delivered
                /\ status = "new" => delivered = 0

(* The inductive invariant: the next byte of an open GET is the next byte  *)
(* the caller misses, which is what makes a resume continue the stream.    *)
IInv == TypeOK /\ Contiguous /\ EofIsComplete /\ RangeIsSatisfiable /\ StreamInStep

(* Reading ends: with the whole object or with an error, after a bounded   *)
(* number of resumes, however often the stream breaks.                     *)
ReadingEnds == <>(status \in {"eof", "error"})
=============================================================================
