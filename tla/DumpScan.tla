------------------------------ MODULE DumpScan ------------------------------
(***************************************************************************)
(* From a byte stream to the scanner's events: ChunkReader (src/dump.rs)   *)
(* cuts the stream into newline-aligned chunks, Scanner::feed (src/scan.rs)*)
(* turns each chunk into events, and copy::rows (src/copy.rs) cuts a       *)
(* CopyRows payload back into rows in a worker.                            *)
(*                                                                         *)
(* Only the bytes that decide anything are told apart.  "n" is a newline,  *)
(* "cr" a carriage return, <<"\\", ".">> the end-of-data line; the first   *)
(* byte of any other line says what the statement is:                      *)
(*    V  the version comment of a pg_dump this build supports              *)
(*    W  the version comment of one it does not                            *)
(*    F  the server's version        T t  CREATE TABLE t                   *)
(*    C t  COPY t ... FROM stdin;    X    CREATE TABLE in an excluded schema*)
(* A last byte ")" stands for the ");" that ends a statement.  Any other   *)
(* line is a column, a row or a statement nobody looks at.                 *)
(***************************************************************************)
EXTENDS Naturals, Sequences, FiniteSets, SequencesExt

CONSTANTS Bytes,       \* what a stream is made of
          Inputs,      \* the byte streams to read
          Feeders,     \* who feeds the scanner: "reader" (ChunkReader) | "any"
          Target,      \* DEFAULT_CHUNK_BYTES: the chunk size aimed for
          MaxChunk     \* the ceiling of a chunk

ASSUME InputsAssumption == {"n", "cr"} \subseteq Bytes /\ Inputs \subseteq Seq(Bytes)

ASSUME FeedersAssumption == Feeders \subseteq {"reader", "any"}

ASSUME SizesAssumption == Target \in Nat \ {0} /\ MaxChunk \in Nat /\ Target <= MaxChunk

VARIABLES input,     \* the byte stream
          feeder,    \* whether ChunkReader cuts the chunks, or anybody, anywhere
          pos,       \* bytes read from it
          buf,       \* ChunkReader: what is read and not handed out
          target, eof,
          sc,        \* the Scanner
          fed,       \* bytes fed to the scanner
          events,    \* every event returned by feed
          status     \* "reading", or how it ended

vars == <<input, feeder, pos, buf, target, eof, sc, fed, events, status>>

(* The lines of b that are complete, and what follows the last newline.    *)
CutByte(cut, byte) == IF byte = "n" THEN [lines |-> Append(cut.lines, cut.rest), rest |-> <<>>]
                                    ELSE [lines |-> cut.lines, rest |-> Append(cut.rest, byte)]

Cutting == INSTANCE FoldSteps WITH Step <- CutByte

Cut(b) == Cutting!Result([lines |-> <<>>, rest |-> <<>>], b)

Lines(b) == Cut(b).lines
AfterLines(b) == Cut(b).rest
LastNewline(b) == Len(b) - Len(AfterLines(b))
FirstNewline(b) == SelectInSeq(b, LAMBDA byte : byte = "n")

StripCr(line) == IF line # <<>> /\ Last(line) = "cr" THEN Front(line) ELSE line

EndOfData == <<"\\", ".">>

Begins(line, byte) == line # <<>> /\ Head(line) = byte
EndsStatement(line) == line # <<>> /\ Last(line) = ")"

-----------------------------------------------------------------------------
(***************************************************************************)
(* The Scanner.  `out` and `run` are local to one call of feed: the events *)
(* so far and the run of whole rows not emitted yet; `err` is what `?`     *)
(* returns.                                                                *)
(***************************************************************************)
NewScanner == [state |-> "Sql", pending |-> <<>>, ddl |-> <<>>, inCreate |-> FALSE,
               skipping |-> FALSE, open |-> "none", dumpedBy |-> FALSE, fromDb |-> FALSE,
               tables |-> {}, out |-> <<>>, run |-> <<>>, err |-> "none"]

Emit(s, e) == [s EXCEPT !.out = Append(@, e)]
Error(s, e) == [s EXCEPT !.err = e]

(* parse_create_table: a statement whose name cannot be read is an error.  *)
Define(s, ddl) == IF Len(ddl) < 2 \/ ddl[2] = ")"
                  THEN Error(s, "MalformedCreateTable")
                  ELSE Emit([s EXCEPT !.tables = @ \cup {ddl[2]}], [type |-> "Table", table |-> ddl[2]])

SqlLine(s, line) ==
    CASE s.skipping -> [s EXCEPT !.skipping = ~EndsStatement(line)]
      [] ~s.skipping /\ s.inCreate ->
           IF EndsStatement(line)
           THEN Define([s EXCEPT !.inCreate = FALSE, !.ddl = <<>>], s.ddl \o line)
           ELSE [s EXCEPT !.ddl = @ \o line]
      [] OTHER ->
           CASE Begins(line, "V") -> Emit([s EXCEPT !.dumpedBy = TRUE],
                                          [type |-> "DumpVersion", fromDb |-> s.fromDb])
             [] Begins(line, "W") -> Error(s, "UnsupportedDumpVersion")
             [] Begins(line, "F") -> [s EXCEPT !.fromDb = TRUE]
             [] Begins(line, "X") -> [s EXCEPT !.skipping = ~EndsStatement(line)]
             [] Begins(line, "T") -> IF EndsStatement(line)
                                     THEN Define([s EXCEPT !.ddl = <<>>], line)
                                     ELSE [s EXCEPT !.ddl = line, !.inCreate = TRUE]
             [] Begins(line, "C") -> IF Len(line) < 2
                                     THEN Error(s, "MalformedCopyHeader")
                                     ELSE Emit([s EXCEPT !.open = line[2], !.state = "Copy"],
                                               [type |-> "CopyStart", table |-> line[2]])
             [] OTHER -> s

CloseCopy(s) == Emit([s EXCEPT !.state = "Sql", !.open = "none"], [type |-> "CopyEnd", table |-> s.open])

FlushRun(s) == IF s.run = <<>> THEN s
               ELSE Emit([s EXCEPT !.run = <<>>], [type |-> "CopyRows", bytes |-> s.run])

(* A line completed from `pending` is handed on by itself, its CR removed. *)
PendingLine(s, raw) ==
    LET line == StripCr(raw) IN
    CASE s.state = "Sql" -> SqlLine(s, line)
      [] s.state = "Copy" /\ line = EndOfData -> CloseCopy(s)
      [] OTHER -> Emit(s, [type |-> "CopyRows", bytes |-> Append(line, "n")])

(* Mutant: the rows before the terminator come after it. *)
ChunkLineLateFlush(s, raw) ==
    CASE s.err # "none" -> s
      [] s.err = "none" /\ s.state = "Sql" -> SqlLine(s, StripCr(raw))
      [] OTHER -> IF StripCr(raw) = EndOfData THEN FlushRun(CloseCopy(s))
                  ELSE [s EXCEPT !.run = @ \o Append(raw, "n")]

(* A line inside the chunk: the rows of a block are passed on as one slice,*)
(* byte for byte, up to the terminator (find_terminator) or the chunk's    *)
(* last newline.                                                           *)
ChunkLine(s, raw) ==
    CASE s.err # "none" -> s
      [] s.err = "none" /\ s.state = "Sql" -> SqlLine(s, StripCr(raw))
      [] OTHER -> IF StripCr(raw) = EndOfData THEN CloseCopy(FlushRun(s))
                  ELSE [s EXCEPT !.run = @ \o Append(raw, "n")]

Scanning == INSTANCE FoldSteps WITH Step <- ChunkLine

(* The complete lines of b, from state s on. *)
ScanLines(s, b) == FlushRun(Scanning!Result(s, Lines(b)))

(* Mutant: the carried line is forgotten. *)
FeedDropsPending(s0, chunk) ==
    [ScanLines([s0 EXCEPT !.out = <<>>], chunk) EXCEPT !.pending = AfterLines(chunk)]

Feed(s0, chunk) ==
    LET s == [s0 EXCEPT !.out = <<>>]
        nl == FirstNewline(chunk)
        first == PendingLine([s EXCEPT !.pending = <<>>], s.pending \o SubSeq(chunk, 1, nl - 1))
        start == IF s.pending = <<>> THEN s ELSE first
        rest == IF s.pending = <<>> THEN chunk ELSE SubSeq(chunk, nl + 1, Len(chunk))
    IN  IF s.pending # <<>> /\ nl = 0
        THEN [s EXCEPT !.pending = @ \o chunk]
        ELSE [ScanLines(start, rest) EXCEPT !.pending = AfterLines(rest)]

-----------------------------------------------------------------------------
Init == /\ input \in Inputs
        /\ feeder \in Feeders
        /\ pos = 0
        /\ buf = <<>>
        /\ target = Target
        /\ eof = FALSE
        /\ sc = NewScanner
        /\ fed = 0
        /\ events = <<>>
        /\ status = "reading"

(* scanner.feed(chunk)?: an error discards the events of its chunk.        *)
FeedChunk(chunk) == /\ sc' = Feed(sc, chunk)
                    /\ fed' = fed + Len(chunk)
                    /\ events' = IF sc'.err = "none" THEN events \o sc'.out ELSE events
                    /\ status' = IF sc'.err = "none" THEN status ELSE sc'.err

(* One read of next_chunk's inner loop: short, empty at the end, or failing.*)
Fill == /\ status = "reading"
        /\ feeder = "reader"
        /\ Len(buf) < target
        /\ ~eof
        /\ \/ /\ pos = Len(input)
              /\ eof' = TRUE
              /\ UNCHANGED <<pos, buf, status>>
           \/ \E n \in 1..(target - Len(buf)) :
                /\ pos + n <= Len(input)
                /\ buf' = buf \o SubSeq(input, pos + 1, pos + n)
                /\ pos' = pos + n
                /\ UNCHANGED <<eof, status>>
           \/ status' = "ReadFailed" /\ UNCHANGED <<pos, buf, eof>>
        /\ UNCHANGED <<input, feeder, target, sc, fed, events>>

Filled == status = "reading" /\ feeder = "reader" /\ (Len(buf) >= target \/ eof)

(* Mutant: a full buffer with no newline is handed out as it is. *)
HandOutUnaligned == /\ Filled
                    /\ buf # <<>>
                    /\ FeedChunk(buf)
                    /\ buf' = <<>>
                    /\ UNCHANGED <<input, feeder, pos, target, eof>>

(* The chunk ends after the last newline; only the last may lack one.      *)
HandOut == /\ Filled
           /\ \/ /\ LastNewline(buf) > 0
                 /\ FeedChunk(SubSeq(buf, 1, LastNewline(buf)))
                 /\ buf' = AfterLines(buf)
              \/ /\ LastNewline(buf) = 0
                 /\ buf # <<>>
                 /\ eof
                 /\ FeedChunk(buf)
                 /\ buf' = <<>>
           /\ UNCHANGED <<input, feeder, pos, target, eof>>

(* Mutants: the ceiling is met too early, or never; the buffer stays. *)
GrowEarly == /\ Filled /\ ~eof
             /\ LastNewline(buf) = 0
             /\ \/ /\ target * 2 >= MaxChunk
                   /\ status' = "RowTooLarge"
                   /\ UNCHANGED target
                \/ /\ target * 2 < MaxChunk
                   /\ target' = target * 2
                   /\ UNCHANGED status
             /\ UNCHANGED <<input, feeder, pos, buf, eof, sc, fed, events>>

GrowUnbounded == /\ Filled /\ ~eof
                 /\ LastNewline(buf) = 0
                 /\ target' = target * 2
                 /\ UNCHANGED <<input, feeder, pos, buf, eof, sc, fed, events, status>>

GrowNot == /\ Filled /\ ~eof
           /\ LastNewline(buf) = 0
           /\ UNCHANGED vars

(* One line is longer than the target: a bigger buffer, up to the ceiling. *)
Grow == /\ Filled /\ ~eof
        /\ LastNewline(buf) = 0
        /\ \/ /\ target >= MaxChunk
              /\ status' = "RowTooLarge"
              /\ UNCHANGED target
           \/ /\ target < MaxChunk
              /\ target' = IF target * 2 < MaxChunk THEN target * 2 ELSE MaxChunk
              /\ UNCHANGED status
        /\ UNCHANGED <<input, feeder, pos, buf, eof, sc, fed, events>>

(* Mutant: an open block is not looked for. *)
VerdictUnchecked == IF sc.dumpedBy THEN "ok" ELSE "MissingDumpVersion"

(* Scanner::finish, and the pipeline's own look at dumped_by after it.     *)
Verdict == CASE sc.state = "Copy" -> "UnterminatedCopy"
             [] sc.state # "Copy" /\ ~sc.dumpedBy -> "MissingDumpVersion"
             [] OTHER -> "ok"

Finish == /\ Filled
          /\ buf = <<>>
          /\ status' = Verdict
          /\ UNCHANGED <<input, feeder, pos, buf, target, eof, sc, fed, events>>

(* The scanner by itself, fed with chunks cut anywhere, as its own tests   *)
(* and other users of the crate do.                                        *)
FeedAny == /\ status = "reading"
           /\ feeder = "any"
           /\ \E n \in 1..(Len(input) - fed) :
                /\ FeedChunk(SubSeq(input, fed + 1, fed + n))
                /\ pos' = pos + n
           /\ UNCHANGED <<input, feeder, buf, target, eof>>

FinishAny == /\ status = "reading"
             /\ feeder = "any"
             /\ fed = Len(input)
             /\ status' = Verdict
             /\ UNCHANGED <<input, feeder, pos, buf, target, eof, sc, fed, events>>

Next == Fill \/ HandOut \/ Grow \/ Finish \/ FeedAny \/ FinishAny

(* Who feeds the scanner goes on until the stream ends or an error.        *)
Spec == Init /\ [][Next]_vars /\ WF_vars(Next)

-----------------------------------------------------------------------------
(***************************************************************************)
(* Properties                                                              *)
(***************************************************************************)

Names == Bytes \cup {"none"}

Events == [type : {"Table", "CopyStart", "CopyEnd"}, table : Names]
            \cup [type : {"DumpVersion"}, fromDb : BOOLEAN]
            \cup [type : {"CopyRows"}, bytes : Seq(Bytes)]

ScanErrors == {"MalformedCreateTable", "MalformedCopyHeader", "UnsupportedDumpVersion"}

Scanners == [state : {"Sql", "Copy"}, pending : Seq(Bytes), ddl : Seq(Bytes), inCreate : BOOLEAN,
             skipping : BOOLEAN, open : Names, dumpedBy : BOOLEAN, fromDb : BOOLEAN,
             tables : SUBSET Names, out : Seq(Events), run : Seq(Bytes), err : {"none"} \cup ScanErrors]

(* Types, and the bound on memory: the buffer of ChunkReader never         *)
(* outgrows its target, nor the target the ceiling.                        *)
TypeOK == /\ pos \in 0..Len(input) /\ fed \in 0..pos
          /\ sc \in Scanners /\ events \in Seq(Events)
          /\ Len(buf) <= target /\ target \in Target..MaxChunk
          /\ eof \in BOOLEAN
          /\ status \in {"reading", "ok", "ReadFailed", "RowTooLarge", "UnterminatedCopy", "MissingDumpVersion"}
                       \cup ScanErrors

(* The reference: a reader that sees the whole text at once.  What it is   *)
(* in after a line, the table of the COPY block, and the rows so far.      *)
ReadLine(r, raw) ==
    LET line == StripCr(raw) IN
    CASE r.in = "copy" -> IF line = EndOfData THEN [r EXCEPT !.in = "sql"]
                          ELSE [r EXCEPT !.rows = Append(@, [table |-> r.table, row |-> line])]
      [] r.in \in {"create", "skip"} -> IF EndsStatement(line) THEN [r EXCEPT !.in = "sql"] ELSE r
      [] OTHER -> CASE Begins(line, "C") /\ Len(line) > 1 -> [r EXCEPT !.in = "copy", !.table = line[2]]
                    [] Begins(line, "T") /\ ~EndsStatement(line) -> [r EXCEPT !.in = "create"]
                    [] Begins(line, "X") /\ ~EndsStatement(line) -> [r EXCEPT !.in = "skip"]
                    [] OTHER -> r

Reading == INSTANCE FoldSteps WITH Step <- ReadLine

Reference(b) == Reading!Result([in |-> "sql", table |-> "none", rows |-> <<>>], Lines(b))

(* What the workers decode: each payload cut into rows by copy::rows, under*)
(* the table of the last CopyStart.                                        *)
RowsOf(table, bytes) == [n \in DOMAIN Lines(bytes) |-> [table |-> table, row |-> StripCr(Lines(bytes)[n])]]

DecodeEvent(d, e) ==
    CASE e.type = "CopyStart" -> [d EXCEPT !.table = e.table]
      [] e.type = "CopyRows" -> [d EXCEPT !.rows = @ \o RowsOf(d.table, e.bytes)]
      [] OTHER -> d

Decoding == INSTANCE FoldSteps WITH Step <- DecodeEvent

Decoded(es) == Decoding!Result([table |-> "none", rows |-> <<>>], es)

(* Of CR CR LF the scanner strips one CR, and copy::rows another from a    *)
(* line that came in two pieces.                                           *)
DoubleCr(b) == \E i \in 1..(Len(b) - 2) : b[i] = "cr" /\ b[i + 1] = "cr" /\ b[i + 2] = "n"

(* "alignment is an efficiency property rather than a correctness          *)
(* requirement" (Scanner::feed): wherever the chunks are cut, the rows the *)
(* workers decode are exactly the rows of the text read so far, each once, *)
(* in order, whole and under its own table.  (Of lines that end in CR CR   *)
(* this holds only for the aligned chunks the pipeline feeds.)             *)
RowsAreTheText ==
    status = "reading" /\ (feeder = "reader" \/ ~DoubleCr(input)) =>
        Decoded(events).rows = Reference(SubSeq(input, 1, fed)).rows

(* "no row is ever split across a chunk" (dump.rs): a partial line is left *)
(* with the scanner only by the last chunk of the stream.                  *)
ChunksAreAligned == feeder = "reader" /\ sc.pending # <<>> => fed = Len(input)

(* Events es end inside a COPY block of table t.                           *)
OpenAt(es, t) == \E j \in DOMAIN es : /\ es[j].type = "CopyStart" /\ es[j].table = t
                                      /\ \A i \in (j + 1)..Len(es) : es[i].type = "CopyRows"

(* Events es end in no block: the last of them opens and continues none.   *)
ClosedAt(es) == es # <<>> => es[Len(es)].type \notin {"CopyStart", "CopyRows"}

Bracketed(es) ==
    /\ \A k \in DOMAIN es : es[k].type \in {"CopyRows", "CopyEnd"} =>
         \E j \in 1..(k - 1) : /\ es[j].type = "CopyStart"
                               /\ \A i \in (j + 1)..(k - 1) : es[i].type = "CopyRows"
                               /\ es[k].type = "CopyEnd" => es[k].table = es[j].table
    /\ \A k \in 1..(Len(es) - 1) : es[k].type \in {"CopyStart", "CopyRows"} =>
                                       es[k + 1].type \in {"CopyRows", "CopyEnd"}

(* What drive() relies on when it calls rows without an open block, a      *)
(* nested COPY or an end under another name internal errors: rows and ends *)
(* come only inside a block, an end names the table of its CopyStart, and  *)
(* inside a block nothing comes but its rows and its end: no other COPY,   *)
(* no table, no version.                                                   *)
EventsAreBracketed == Bracketed(events)

(* A load goes on to commit only if the whole text was read, no COPY block *)
(* of it is open and a version was stated.  So a stream cut inside a block *)
(* or before its version line is an error; one cut between two blocks is a *)
(* complete, shorter dump, to the code as here.                            *)
OkMeansComplete ==
    status = "ok" =>
        /\ fed = Len(input)
        /\ Reference(input).in # "copy"
        /\ \E k \in DOMAIN events : events[k].type = "DumpVersion"

(* RowTooLarge is reported for a line that fills the ceiling, never for    *)
(* one that fits below it however the reads were cut.                      *)
TooLargeIsReal ==
    status = "RowTooLarge" =>
        \E i \in DOMAIN input : /\ i + MaxChunk - 1 <= Len(input)
                                /\ \A j \in i..(i + MaxChunk - 1) : input[j] # "n"

(* Reading ends, with every byte of the stream or with an error.           *)
ReadingEnds == <>(status # "reading")

-----------------------------------------------------------------------------
(***************************************************************************)
(* The inductive invariant                                                 *)
(***************************************************************************)

(* Where the reader is in the stream.                                      *)
ReaderInv == /\ input \in Inputs /\ feeder \in Feeders
             /\ buf = SubSeq(input, fed + 1, pos)
             /\ feeder = "any" => pos = fed
             /\ eof => pos = Len(input)

(* The scanner s, with the events es so far, is where the reference r is.  *)
Rows == [table : Names, row : Seq(Bytes)]
References == [in : {"sql", "create", "skip", "copy"}, table : Names, rows : Seq(Rows)]

Tracks(s, es, r) ==
    /\ r \in References
    /\ s.state = "Sql" =>
         /\ s.run = <<>>
         /\ ~(s.skipping /\ s.inCreate)
         /\ ClosedAt(es)
         /\ r.in = IF s.skipping THEN "skip" ELSE IF s.inCreate THEN "create" ELSE "sql"
    /\ s.state = "Copy" =>
         /\ ~s.skipping /\ ~s.inCreate
         /\ r.in = "copy" /\ r.table = s.open
         /\ OpenAt(es, s.open)
    /\ AfterLines(s.run) = <<>>
    /\ s.dumpedBy => \E k \in DOMAIN es : es[k].type = "DumpVersion"
    /\ s.tables = {es[k].table : k \in {j \in DOMAIN es : es[j].type = "Table"}}
    /\ Bracketed(es)

(* The rows decoded from the events, and those still to be emitted, are    *)
(* the rows of the reference.                                              *)
RowsTrack(s, es, r) == /\ s.state = "Copy" => Decoded(es).table = s.open
                       /\ r.rows = Decoded(es).rows \o RowsOf(s.open, s.run)

ScanInv ==
    /\ sc.run = <<>>
    /\ status = "reading" =>
         LET r == Reference(SubSeq(input, 1, fed)) IN
         /\ sc.err = "none"
         /\ sc.pending = AfterLines(SubSeq(input, 1, fed))
         /\ Tracks(sc, events, r)
         /\ feeder = "reader" \/ ~DoubleCr(input) => RowsTrack(sc, events, r)

IInv == /\ TypeOK /\ ReaderInv /\ ScanInv
        /\ ChunksAreAligned /\ EventsAreBracketed /\ OkMeansComplete /\ TooLargeIsReal
=============================================================================
