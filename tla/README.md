# TLA+ models of pgdelta

pgdelta streams a PostgreSQL `pg_dump` text dump into Delta Lake tables. These
modules model the parts of it in which ordering, concurrency, failure and
boundaries decide whether a table comes out right; TLC checks them on small
instances, and TLAPS proves the safety of the channel, the resuming reader, the
chunk reader and scanner, the pipeline and the loads over the logs for every
size.
Paths are those of the repository (`src/...`).

## 1. The system

```
 source.rs          dump.rs        scan.rs          pipeline.rs                 sink.rs / manifest.rs
 ObjectSource  -->  ChunkReader -> Scanner  -->  drive() == jobs ==> worker()  -> Parquet files
 (resumes)          (aligned       (events)        |   (one bounded   |            |
                     chunks)                       |    queue each)   |            v
                                                   |<=== events =====+      commit_table per table,
                                                   |    (chan.rs)           then the load history
                                                   v
                                              commit burst
```

| Component | State | Operations | Hard behaviour | What makes it correct |
|---|---|---|---|---|
| Bounded channel, `chan.rs` | a `VecDeque`, two handle counts, one mutex, two condition variables | `send`, `recv`, `clone`, `drop` of either end | notifications are sent after the lock is released; handle counts decide when it is closed; `notify_one` against several parked threads | no lost wake-up, no mutual wait, a close is final, FIFO, never more than `capacity` items |
| Load pipeline, `pipeline.rs` | the reader's block, barrier and staging; per worker its contexts and open blocks; job and event channels | `execute`, `drive`, `dispatch`, `worker`, `worker_loop` | threads fail or panic with jobs queued behind; the barrier counts answers; joins with nobody reading events; commits in any order | no row lost or doubled, no short table committed, all or nothing before the commit burst, always returns |
| Delta sink, `sink.rs` | the log of each table, staged actions | `preload_table`, `finish_open`, `stage`, `commit_table` | snapshots loaded long before the commit; schema drift; crash between two steps; re-runs; a commit that landed but is reported as failed | versions whole, schema and files agree, re-running repairs |
| Load history, `manifest.rs` | one Delta table | `append`, `rows_for` | appended after the commits, may fail; tables that are missing, filtered or drifted | a recorded version is what that load produced, and the rows tell what changed |
| Dump source, `source.rs` | stream, `delivered`, `resumes`, pending bytes | `start`, `open_stream`, `next_chunk`, `read` | broken, truncated and refused streams | no gap, no repetition, no silent truncation, bounded resumes |
| Chunk reader, `dump.rs` | buffer, target, carry | `next_chunk` | short reads, lines longer than a chunk | chunks end at line ends, memory bounded |
| Scanner, `scan.rs` | SQL/COPY state, pending line, open statement, recovered tables | `feed`, `finish`, `parse_create_table`, `parse_copy_header` | boundaries inside a terminator, a CRLF or a statement; rows that look like statements; punctuation inside names and expressions | the rows handed on are the rows of the text, and each column has the type its table declares |
| COPY decoder, `copy.rs` | scratch and ranges, reused for every row | `rows`, `fields`, `unescape_into`, `decode_row` | escapes that run into what follows, limits, NULL against `N` | decoding undoes PostgreSQL's escaping, and only malformed rows are refused |
| Batch builders, `builders.rs` | one builder per column (a list has a builder of its own), rows, bytes, substitutions | `arrow_type`, `append_row*`, `is_full`, `finish` | schema and builder decided apart; half-appended rows, batch cuts, list offsets | every batch is valid for its schema and bounded, each row in one batch, substitutions counted |
| Values, `values.rs`; types, `types.rs` | none (pure) | the parsers, `resolve` | calendar, offset, decimal and integer edges; array literals; parameters inside a type's name | a value PostgreSQL printed is read back, and nothing else is accepted |
| Errors, crate root, Python bindings, tools | none of their own | conversions | none | not modelled |

The parts interact by calls (reader, scanner, sink), by messages (`Job` and
`WorkerEvent` over the channels), by shared state (the channel's mutex and
counts; the tables' logs in object storage, which outlive a load) and by one
callback (progress, through which the caller may interrupt). `PROJECT.json`
lists under `hazards` the lines where this can go wrong.

## 2. The modules

| Module | Models | Used by |
|---|---|---|
| `BlockingChan` | the channel's contract: one atomic step per call, no lock | refined by `Chan`; the channel that `Pipeline` assumes |
| `Chan` | `chan.rs`, one step per critical section and per notification | `MCChan`, `ChanProofs` |
| `AllOrNothing` | what `run()` promises the readers of the tables | refined by `Pipeline` |
| `Pipeline` | one load: reader, workers, channels, barrier, commit burst | `MCPipeline`, `PipelineProofs`, `PipelineRowsProofs` |
| `DeltaLoad` | several loads over the logs of the tables: open, create, stage, commit, history, crash | `MCDeltaLoad`, `DeltaLoadProofs` |
| `ObjectSource` | the resuming reader | `MCObjectSource`, `ObjectSourceProofs` |
| `FoldSteps` | a loop that carries a state along a sequence, and what holds of any such loop | `DumpScan`, `Values`, `Columns`, `RowDecode`, by INSTANCE |
| `DumpScan` | byte stream to chunks to events to rows | `MCDumpScan`, `DumpScanProofs` |
| `Texts` | the string and slice functions of the standard library the parsers use | `Values`, `PgTypes`, `Ddl` |
| `Values` | `values.rs`: the parsers of every type, and of array literals | `Columns` |
| `PgTypes` | `types.rs`: the text of a type to the type | `Columns` |
| `Ddl` | the parsers of CREATE TABLE and of a COPY header in `scan.rs` | `RowDecode` |
| `Columns` | `builders.rs`: the Arrow type of a column and its builder | `RowDecode` |
| `RowDecode` | one table from its CREATE TABLE to its files: statements, filters, rows, values, batches | `MCRowDecode`, `RowDecodeProofs` |

Definitions named in comments as mutants are broken variants of the action or
operator that follows them. They are used by nothing: each shows a bug that one
of the properties would catch.

### Chan

`items`, `senders` and `receivers` are the fields of `State`. `pc[t]` is where
thread `t` is: outside a call, about to run the loop body under the lock,
parked, about to notify, or gone. `SendPush` and `SendNotify` are two steps
because `send` drops the lock before `notify_one`; likewise `RecvPop` and
`RecvNotify`, `DropSender` and `DropSenderNotify`. `NotifyOne`, `NotifyAll` and
`SpuriousWakeup` are the standard library's condition variable, as this code
uses it. A thread owns at most one handle, so the handles are the threads.
`slot[t]` is the value in a sender's hand and a receiver's last answer.
Poisoning is left out: nothing panics under the lock.

Refinement: a call has taken effect at the end of its critical section; a
pending notification is invisible. The contract's fairness says that *some*
blocked sender is served while there is room, and *every* blocked thread once
the channel is closed. It does not promise that a given sender is served, and
a condition variable would not either.

### Pipeline

A dump is the sequence of the scanner's events. `rpc` is where the reader is:
`scan` (handling events), `open`/`close` (a broadcast, one `dispatch` per step),
`acks` (the barrier), `cause` (the error arm of `dispatch`), `commit`,
`shutdown`, `join`, `done`. A channel call is one step, enabled when it would
return: that is `BlockingChan`, which `Chan` implements. A payload is its place
in the dump, so that losing or doubling one is visible. A worker decodes and
stages in one step per job; each step may fail in each way the code has.
`leaving` and `exit` are apart because a worker drops its event senders and its
job receiver at different moments, and the reader can see the difference.
`commits` are the futures of `buffer_unordered`, and an error may be reported
for a commit that landed. Files are sets of `(generation, worker, payloads)`;
how a worker cuts its rows into batches and files is not told apart.
The hand-over of the staged actions is `Actions(i)`: the first target of a
table is given all of them, and the target of a further COPY block of the same
table none. A dump of pg_dump has one block per table, except with
`--load-via-partition-root`; the tenth dump of the run has two. `FedOnce(t)`
says that one block feeds `t`, and what is claimed of a table fed by several is
weaker: `CommittedIsWhole` allows it to be without rows until the load has
succeeded, and `ImplementsAllOrNothing` is about the other tables only.

`drive()` also has internal errors for rows without an open block, a nested
COPY and a mismatched end. The scanner never produces such events, for any text
(`DumpScanProofs`, `Bracketing`: rows and ends come only inside a block, and
inside a block comes nothing but its rows and its end), so they are not in the
dumps (`DumpsAssumption`).

### DeltaLoad

`log[t]` is the sequence of versions of a table: its files, the schema it
declares, what the version removed and whether it changed metadata. A schema is
a sequence of fields. A load is its list of COPY blocks; `OpenBlock` is
`preload_table` with `finish_open`, `SkipBlock` a block the filters leave out,
`StageBlock` the end of a block, `EndPass` the hand-over of the staged actions
to the targets, `CommitTable(i)` one future of the burst, `Record` the report's
rows (`rows_for`) in the history. `diff_schema` compares by name, as the code
does, and `DeclaresSchema` compares whole schemas, as `commit_table` does.
`Crash` may come anywhere; what survives is the log and the history. `Fault`
is a storage error: before a step, after it landed, or during the history
append. `Expected` and `Allowed` are `expect_tables` and `tables` of the
configuration, or Null; `Expectation` falls back from the one to the other, as
the code does. The runs give `Expected`; the other cases are in the proofs, which
hold for all values of both. `Conflicts` stands for the conflict check of the Delta library (external),
reduced to the two cases this code can meet: metadata changed, or a file it
removes was already removed. All loads of a behaviour use one mode. The blocks
of one table in one dump have the same schema: it comes from the same CREATE
TABLE.

### ObjectSource

Bytes are offsets. `from..to` is what `pending` holds, `given` what the caller
has, `delivered` the offset a resume asks for, `streamPos` where the open GET
really is. `Chunk`, `StreamBreaks` and `StreamEnds` are the three arms of
`next_chunk`; a failing GET is an outcome of `OpenStream`.

### DumpScan

Only the bytes that decide anything are told apart (see the module's header).
`Fill`, `HandOut`, `Grow` and `Finish` are `ChunkReader::next_chunk` with the
reads cut anywhere; `FeedAny` feeds the scanner with chunks cut anywhere, as a
direct user of it may. `Cut` cuts a text into its lines and what follows the
last newline; `Feed` is `Scanner::feed` as a loop over lines. Each loop is an
instance of `FoldSteps`. The reference definition, `Reference`, reads the lines
of the whole text, one after the other, and knows nothing of chunks; `Decoded`
is what the workers make of the events.

### RowDecode, with Ddl, PgTypes, Columns, Values and Texts

The inside of `Pipeline`'s `Table`, `CopyStart`, `WorkerRows` and `WorkerClose`.
`CreateTable` and `CopyStart` are the scanner's and the reader's handling of the
two statements: exclusion, parsing, filters, `resolve_copy_columns`, the reserved
name, `relative_path`, and the schema and builders that follow. `BeginRow` and
`NextField` are `decode_row` over `Fields`, one step per field; `AppendColumn`
is one turn of `append_row_ranges`; `Flush`, `Close` and `Stage` are the
worker's use of `is_full`, `finish`, `write` and `stage`, the last two of which
may fail.

The parsers are operators. A statement is a sequence of tokens: a word stands
for any run of characters no parser looks into, punctuation and quotes are
tokens of their own, so that what a scanner sees between quotes or parentheses
is still there to be misread. A field is a sequence of byte codes. Values are
kept in forms that lose nothing at any width and fit TLC's integers: an integer
as sign and digits, an instant as day, second and microsecond, with the bounds
of an i64 written out. `Columns` keeps `arrow_type` and `ColumnBuilder::new`
apart, as the code does; that they agree is a property. The loops over a field's
bytes (`UnescapeTurn`), an array literal (`QuotedTurn`, `ElementTurn`) and the
elements of a list (`AppendElement`) are instances of `FoldSteps`.

A row *alone* is what the decoder is measured against: `Fields` splits it at its
tabs, `FieldValue` unescapes a field, `Read(k, i)` is what a new builder makes of
field i of row k, `StoredRow(k)` the values and `RowIsGood(k)` whether all of it
succeeds. These definitions have no buffer, no ranges and no batch.

Each load carries what its rows and columns were written for, so the reference
is the printer in `MCRowDecode`: it writes statements the way pg_dump does
(quoting names that need it) and values the way PostgreSQL does, from a date or
a number rather than from the parser's arithmetic, and knows every form in
which a byte may stand in a COPY field and an element in an array literal. It
knows nothing of the decoder's control.

## 3. The runs

| Run | Instance | Distinct states | Shows |
|---|---|---|---|
| `chan` | 2 senders, 2 receivers, capacity 2, 2 values | 75 977 | `NoStrandedReceiver`, `NoStrandedSender`, `NeverBothParked`, `ClosedIsFinal`, the inductive invariant `IInv`, and `ImplementsContract` (safety and progress) |
| `pipeline` | 3 workers, queues of 1 job, 2 commits at a time, 10 dumps | 64 234 | `EventRoom`, `AnswersMatchBlock`, `RowsFindTheirBlock`, `RowsConserved`, `CommittedIsWhole`, the inductive invariant `IInv`, `ImplementsAllOrNothing`, `AlwaysReturns` |
| `delta_loads` | 2 tables, 3 loads, 2 faults, the three modes; dumps whose tables drift, are reordered, filtered, absent, empty or fed by two blocks | 757 177 | `SchemaAgrees`, `VersionsAreWhole`, `HistoryReadable`, `RerunRecovers`, `HistoryTells`, `NoSelfConflict`, the inductive invariant `IInv`, `CommittedRowsStay` |
| `object_source` | 6 bytes, chunks to 3, buffers to 2, 3 resumes | 351 | `Contiguous`, `EofIsComplete`, `RangeIsSatisfiable`, `ReadingEnds` |
| `dump_scan` | 35 streams, chunks of 2 to 5 bytes or cut anywhere | 4 230 | `RowsAreTheText`, `ChunksAreAligned`, `EventsAreBracketed`, `OkMeansComplete`, `TooLargeIsReal`, the inductive invariant `IInv`, `ReadingEnds` |
| `row_decode` | over 2 600 loads: names, types, defaults and clauses in all combinations; each type's values at the ends of its range; arrays; every COPY encoding of the texts of up to 2 bytes; malformed rows; blocks of 3 rows; fields to 42 and rows to 46 bytes, batches of 2 rows or 3 bytes | 24 846 | `ColumnsRecovered`, `RowsAgree`, `RowsAreStored`, `BatchIsValid`, `BatchIsBounded`, `SubstitutionsAreCounted`, the inductive invariant `IInv` |

The types of every module's state are part of what is proved. `RowsAgree` is
about the parsers and says nothing of steps: each row, read alone, gives the
values it was printed from, and fails where it should. `RowsAreStored` is about
the steps: what the files hold is what the rows say, and no good row is refused.

**Why the bounds are enough.** Two parked threads on one side are what tells
`notify_one` from `notify_all`, and a queue of two is what tells a wake-up per
item from a wake-up per change of emptiness. (The capacity is positive in the
run: a requested zero, which `bounded()` clamps, is covered by the theorem
`NoMutualWait`.) Three workers over queues of one
job have one worker fail, one answer and one still work at the same time, with
the reader blocked on any of them. The dumps have two consecutive blocks, a
block with fewer payloads than workers, a payload that does not decode with
others behind it, two blocks of one table whose commits land in either order,
and an end in every state of the reader. Three loads are a
failed one, the load that follows it, and one that meets what both left behind;
two faults let a commit land unreported in one load and fail in the next.
Six bytes with chunks of up to three leave room for a break before, inside and
after any chunk. The streams are longer than the ceiling of a chunk, and every
row text that could be mistaken for something else is next to every other.
Texts of two bytes have every short escape next to a byte it could take for one
more digit; one field and one row are as long as they may be and others one
byte longer, and of three rows one is in a batch cut before the row that fails.
Values sit on both sides of every bound a parser has: the widths of the
integers, precision and scale, eras, leap days, offsets that change the day,
the last microsecond of an i64. Every name has a character that some scanner
looks for, every tail a keyword or a parenthesis; one column of each kind beside
a generated and a plain one is enough to see a shift.

**Fairness.** `Chan`: a thread inside a call is scheduled and gets the mutex;
nothing makes a thread begin a call, and no spurious wake-up has to come.
`Pipeline`: every thread and task that can take a step takes one; reads,
storage calls and the callback return, one way or the other. `ObjectSource`:
the caller goes on reading, and the store does not send empty chunks only for
ever. `DumpScan`: whoever feeds the scanner goes on. `DeltaLoad` has no
liveness property: a load may be abandoned at any point.

**Deadlock** checking is off everywhere because every model may stop: threads
that have dropped their handles, a load that has returned, a stream that has
ended. What must not stop is stated as a liveness property instead.

### Disagreements between the code and what is written about it

Six runs are expected to be violated; each states what a comment or document
says.

- `pipeline_cause` / `RealCause`: when a dispatch fails, the next event is not
  always the cause. Another worker's `Closed` can be ahead of the `Failed`, and
  the load ends with "decode pool stopped unexpectedly". It still fails, and
  nothing is committed.
- `delta_error_schema` / `SchemaAgreesOnError`: under error-if-exists an existing but
  empty table with another schema is filled without declaring the new one. Such
  a table is what a crash after `create` leaves behind.
- `delta_count` / `CountIsTruthful`: `api.md:241` says of `committed` that "zero
  means nothing became visible". A load of one table by one block, whose commit
  lands and whose reload then fails, ends with `committed = 0` and the table's
  new rows visible.
- `delta_invisible` / `PassIsInvisible`: a failed pass leaves the empty tables
  it created.
- `delta_conflict` / `NoSelfConflictAtAll`: when a dump has two COPY blocks for
  one table, an overwriting re-run conflicts with itself. In the same situation
  the history records version 0 for the second block, and the target without
  files may commit first, which leaves the table empty for a moment, or until
  the next run if the other then conflicts. `HistoryReadable`,
  `VersionsAreWhole` and `NoSelfConflict` are therefore checked for tables that
  one block feeds.
- `ddl_literals` / `ColumnsRecovered`: the statement parsers know quoted
  identifiers and no string literals. `DEFAULT ')'` ends the column list early,
  `DEFAULT ','` cuts a column in two, `DEFAULT '"'` hides the rest; the table is
  refused, and a literal such as `', z integer'` reads as one more column. The
  loads of `row_decode` have no such literals.

Met while modelling, without a run of their own. The model follows the code in
each. Where the runs meet the case, their data names it as what the code does:
`Unread` and `Lenient` in `MCRowDecode`, and the outcomes of `NameLoads`.

- `relative_path` is applied in `preload_table`, under the name of the last
  CREATE TABLE with the header's joined name (`pipeline.rs:782-799`, `840-852`),
  and columns are looked up in that statement too. With `public.t` and a bare
  `"public.t"` in one dump, the later statement stands for both: either both are
  refused for a name only one of them has, or the rows of one are read with the
  columns of the other and opened at its place. `ColumnsRecovered` is stated for
  the last statement of the joined name; the loads have the pair in both orders.

- A row ending in CR CR LF loses one CR inside a chunk and two if it straddles
  a boundary (`feed` strips one, `copy::rows` another). The pipeline only feeds
  aligned chunks, where this cannot happen: `RowsAreTheText` is stated, and
  proved, for aligned chunks of any text and for chunks cut anywhere of a text
  without CR CR LF.
- `time '24:00:00'` is stored as 00:00:00 (`rem_euclid`) and not counted as a
  substitution; `numeric 'Infinity'` is refused where `NaN` is stored as NULL.
- Timestamps after 294247-01-10 are valid in PostgreSQL and beyond an i64 of
  microseconds: the code refuses the row, although "valid but not representable"
  is meant to become NULL (`values.rs:16-19`). `row_decode` has such a timestamp
  (`Unread`): `RowsAgree` and `RowsAreStored` hold with it because the data says
  what the code does, not what that comment says.
- The float parsers also read `inf`, `infinity` and `nan` in any case and with a
  sign, which PostgreSQL never writes (`Lenient`).
- `split_offset` takes the last dash of a bare date for an offset
  (`values.rs:415-419` says it does not); no timestamp with time zone is printed
  without a time. `MIN_SUPPORTED_DAY` is not the day of 0001-01-01, and no date
  reaches the test.
- A scale that does not fit an i8 becomes scale 0 in `numeric_params`.
- A column named `exclude`, which pg_dump does not quote, is skipped as a
  constraint; an INHERITS child declares only its own columns. Their COPY
  headers are then refused.
- With native arrays, a multi-dimensional value in a one-dimensional column and
  an explicit lower bound (`[2:3]={..}`) are refused, and PostgreSQL allows both;
  `api.md:552-558` says the flag moves a column "never toward failure". The first
  is in the data of `row_decode` (`Unread`).
- A stream cut between two COPY blocks, after the version line, is a complete
  dump to the code. `OkMeansComplete` says what it can: a cut inside a block or
  before the version line is an error.
- A COPY header without a column list has arity zero.
- `diff_schema` says it decides as `commit_table` does; for reordered columns it
  does not, and a drift that a failed load already declared is not reported by
  the re-run. `HistoryTells` is stated against what each load found.

## 4. The proofs

**`ChanProofs`**, for any finite disjoint sets of threads, any requested
capacity and any values: `Invariance` (`Spec => []IInv`), and from it
`TypeCorrect`, `NoReceiverStranded`, `NoSenderStranded`, `NoMutualWait`,
`ClosingIsFinal`.

The properties are not inductive. That a parked receiver has *some* wake-up
under way does not survive that wake-up being used for one of two items. The
invariant has to count:

- `WakeupsCoverItems`: while a receiver is parked, there are at most as many
  items as pending notifications of senders plus receivers on their way. A push
  adds one to both sides; a notification turns the one kind into the other; a
  pop uses one of each.
- `WakeupsCoverRoom`: dually, for free slots, while a receiver is left.
- `CloseIsAnnounced`: who is parked on a closed channel has a `notify_all`
  coming.
- `CountsAgree`: the two counters are the numbers of live handles, which turns
  the code's tests of a counter into facts about threads.
- `HandsAgree`: a sender in its loop holds a value.

There is a lemma per action, and lemmas on how the sizes of the sets of threads
at a label change when one thread moves. `NoMutualWait` also needs that the
capacity is positive, which is `bounded()`'s clamp.

`ImplementsSafely` is the refinement step by step: every step of `Chan` is a
step of `BlockingChan` or leaves it as it was. A call takes effect at the end
of its critical section, so the notification that follows, the parking and the
spurious wake-ups map to no step. The mapping needs the invariant: the contract
asks whether a handle is left, the code whether a counter is zero
(`CountsAgree`).

**`PipelineProofs`**, for any number of workers, depth of the queues, tables and
dumps: `InductiveInvariant` (`Spec => []PoolInv`), and from it `TypeCorrect`,
`AnswersMatch`, `RowsFindBlock` and `RoomForEvents`. `PoolInv` is about the
protocol between the reader and the pool:

- `ReaderInv`: where the reader is fits the event of the dump it is at.
- `WorkerInv(w)`: what the reader has sent to worker `w` and `w` has not dealt
  with, the contexts and the open block it holds, and how far the broadcast has
  come, all belong to the block under way. What a worker will find when it
  takes up a job follows from the jobs before it.
- `AnswersInv`: the events that are queued or counted are the answers of
  *different* workers. The code keeps only their number; the invariant has to
  name the workers (`AnsweredBy`), because that is what keeps one of them from
  answering twice and another from being forgotten. It is also what bounds the
  event channel.

**`PipelineRowsProofs`**, under the same assumptions: `PayloadInvariant`
(`Spec => []IInv`), and from it `PayloadsConserved`, `CommittedWhole` and
`LoadIsAllOrNothing`. `IInv` adds to `PoolInv` where the payloads are:

- `RowsInOrder`, `RowsAreGood`: a worker's payloads keep the order of the dump,
  so it cannot hold one twice, and only those that decode reach a block.
- `HeldApart`, `FilesApart`: no payload is with two workers, in two files, or
  with a worker and in a file.
- `BlockInv`, `StagedInv`: what is under way belongs to the open block's table,
  what is staged to the table it is staged for.
- `NothingLost`: before anything fails, each payload of a wanted table that the
  reader has passed is somewhere.
- `OutcomeInv`, `CommitInv`, `OpenedInv`: the commit burst begins only with the
  dump read, the pool idle and every payload staged; a first target makes
  visible what was staged, a further one nothing.

`LoadIsAllOrNothing` is the refinement of `AllOrNothing` without its fairness,
for the tables that one COPY block feeds. Its core is `CommittedWhole`: such a
table, once visible, is whole, so no step of the load shows its readers a short
one. Of a table fed by several blocks it says that the commits publish all its
rows or none, and all when the load succeeds: the first target has every file
(`TargetInv`: each table opened has one), the others none.

**`ObjectSourceProofs`**, for any object, chunk and buffer size and any number
of resumes: `Invariance`, and from it `NoGapNoRepeat`, `EofMeansComplete`,
`NeverPastTheEnd`. The strengthening is `StreamInStep`: an open GET is at
`delivered`, which is what makes a resume from there continue the stream.

**`DeltaLoadProofs`**, for any tables, dumps, write modes, numbers of loads,
crashes and storage faults: `Invariance`, and from it `SchemasAgree`,
`RerunsRecover` and `RowsStay`. `SchemaAgrees` is not inductive: a commit is
computed from the version its table had when it was opened, a whole pass
before, and says nothing of what has landed since. The invariant adds:

- `PassInv`: the staged files are those of the blocks read so far, every table
  opened has a target, and the first target of a table is given all its files.
- `GoodTarget`, of each target: its drift is that of the version it was opened
  over; since then only this load has written to the table, so what is there
  is the files of that version or the load's own; unless some version since has
  changed the metadata, the schema is still the one the drift was computed
  from. A target that ended well has its files in, and under overwrite those it
  was opened over out.
- `RunsInv`: a load's files are none of an earlier load's.

A commit that does not conflict meets no change of metadata, so either its
schema shows no drift from what is declared now, or it declares its own
(`LandedAgrees`). The other targets of the same table survive it because what
it removes is older than what they add (`LandedKeepsTargets`).

Its second part is about what is recorded: `RecordInvariance` (`Spec => []IInv`), and
from it `WholeVersions`, `HistoryIsReadable`, `HistoryIsTold` and `NoConflict`.
`IInv` adds to the invariant above (`LoadInv`):

- `OpenedInv`: each target comes from a block already read, a table that one
  block feeds has one target, and a table without a target is as the load found
  it.
- `SolesInv`: of such a table's target, nothing lands before its commit, so the
  version it was opened over is still the newest one and there is nothing to
  conflict with; under error that version is empty.
- `StatsInv`: the statistics are in step with the targets, which the code
  relies on when it fills in the versions by index; a committed one has the
  version its commit made.
- `RecordedInv`: the history is about loads that are over.

The logs only grow, which is why a version that was recorded stays what it was.
That the drift reported is the difference of the two sets of fields is a lemma
about `diff_schema` (`DriftNames`).

**`FoldSteps`** makes induction over data possible. The library's induction
theorems take an operator as an argument, which the provers cannot be given;
here a property is the *set* of the numbers or sequences that have it. Nat is
well founded, so every non-empty set of numbers has a least member
(`LeastNumber`), and induction over numbers (`Induction`, `BoundedInduction`)
and over sequences (`SequenceInduction`) follow. `AfterStep` shows that the
recursive function of the loop is defined, `AfterPrefix` that what it does with
a prefix does not depend on the rest, `ResultAppend` and `ResultEmpty` what
`Result` computes. The step is a CONSTANT, so each instance has these theorems
about its own loop.

**`DumpScanProofs`**, for any bytes, streams, target and ceiling of a chunk, cuts
of the reads, and for chunks cut by `ChunkReader` or anywhere: `Invariance`
(`Spec => []IInv`), and from it `RowsAreText`, `Aligned`, `Bracketing`,
`OkIsComplete` and `TooLarge`. `IInv` adds to the properties:

- `ReaderInv`: the buffer is the piece of the stream between what was fed and
  what was read.
- `ScanInv`: outside a block the last event neither opens nor continues one
  (`ClosedAt`), which is why no COPY can be nested; the carried line is what
  follows the last newline of the text fed so far; the scanner is where
  `Reference` is after that text (`Tracks`); and the rows decoded from the
  events, with those of the run not emitted yet, are the rows of `Reference`
  (`RowsTrack`).

The argument: cutting a text and then its continuation is cutting both together
(`CutConcat`, `CutConcatLine`), so the lines of the text fed so far are the
lines before, the completed carried line, and the lines of the chunk. There is a
lemma for each kind of line that `Tracks` and `RowsTrack` survive it;
`ScanLinesFollow` takes them along the lines of a chunk by induction;
`FeedFollows` has the three cases of `feed` (nothing carried, a carried line
completed, a carried line still without its newline). There is a lemma per
action on top.

**`RowDecodeProofs`**, for any loads, rows of any bytes, type texts, limits and
bounds of a batch, and whatever fails: `Decoding` (`Spec => []IInv`), and from it
`TypeCorrect`, `RangesInScratch`, `StoredAsReadAlone`, `ValidBatches`,
`BoundedBatches`, `StoredRows` and `CountedSubstitutions`.

What could go wrong is that a row is read with something of another: `scratch`
and `ranges` are reused for every row, the builders are filled over many rows
and emptied when a batch is cut, and an error may stop the worker in the middle
of a row. `IInv` says at each step how the loop's state and the rows alone
relate:

- `RangesOK`: the ranges lie in `scratch`, one after another, so what is added
  to `scratch` for a field changes no value before it.
- `FieldsOK`: while fields are read, the fields cut off so far are the first
  fields of the row, and the ranges hold their values.
- `ColumnsOK`: while columns are appended, there is a range for each column, it
  holds the value of the row's field, and the columns before were read.
- `BlockOK` and `BuildersOK`: the builders are those the columns' types call
  for, filled with nothing but values, and each has an entry per row, one more
  if the row at hand was already appended to it. In a list builder the offsets
  count its elements.
- `RowsAreDecoded`: the files hold, row for row, what the rows say alone; the
  builders hold what the rows after them say; all of these rows are good; and
  whoever stops at a row with a decoding error stops at one that is not.
- `SubsOK`: the counts are those of the rows stored and held.
- `BytesOK`: `BatchIsBounded` is not inductive: within a row, the bytes added so
  far are those of the fields before the next range.

The lemmas go from the values up. A value is read the same whatever the builder
holds, and becomes its last entry: for scalars by cases over the kinds
(`AppendScalarShape`), for the elements of a list by induction over them
(`SameElementsAll`), and so for every builder (`AppendValueReads`). A finished
builder is a new one (`FinishedIsFresh`). `arrow_type` and `ColumnBuilder::new`
agree for every type `resolve` can return, which is for every text
(`NewBuilderType`, `ResolveKnown`). Unescaping gives bytes, no more than the
field has (`UnescapeTyped`, by induction over the turns of its loop), which is
why a row adds no more bytes than its length to a batch. `CutRun` and `CutKeeps`
relate the reader's position to the row's fields. There is a lemma per action on
top, with one for each outcome of a field and of a value.

`StoredRows` and `CountedSubstitutions` state their property under
`[]RowsAgree`. What a load says of its rows (`ok`, `stored`, `subst`) is given
with the load; that the parsers compute it is no consequence of the steps but
the question whether they read what PostgreSQL printed (but for the values
named above). The run `row_decode`
checks `RowsAgree` for all its loads, so the condition holds there; without it,
`StoredAsReadAlone` says the same of what each row decodes to.

**Assumptions.** The named `ASSUME`s of `Chan`, `ObjectSource`, `DumpScan`,
`Pipeline` and `DeltaLoad`: finite, disjoint sets of threads, values distinct from the markers,
sizes that are natural numbers; at least one worker, one place in a queue and
one commit at a time (`PoolAssumption`: the code clamps or fixes each); the
fields of a schema have distinct names, and the blocks of a table in one dump
have the same fields in whatever order, since both come from its one CREATE
TABLE (`PlansAssumption`). `DumpsAssumption` says that COPY blocks are bracketed:
rows and ends lie inside a block, starts do not, and an end names the table of
its start. That is what the scanner produces, which `Bracketing` proves. For
`DumpScan` itself: streams are sequences of bytes, newline and CR among them
(`InputsAssumption`), fed in one of the two ways (`FeedersAssumption`), and the
target of a chunk is positive and no larger than the ceiling
(`SizesAssumption`: `with_limits` clamps both). For `RowDecode`: the limits are
numbers, the bounds of a batch positive (`LimitsAssumption`); a load has a
statement or more and its rows are sequences of bytes (`LoadsAssumption`); NULL
is no range (`NullAssumption`). TLC evaluates all of them in the runs.

**Only model-checked.** Everything under fairness: the progress that
`ImplementsContract` and `ImplementsAllOrNothing` ask for, `AlwaysReturns`,
`ReadingEnds`. And what the parsers compute from the text they are given:
`ColumnsRecovered` (the statements) and `RowsAgree` (the values), which compare
it with what was printed, for the statements and values of `row_decode`.

## 5. Not modelled

- gzip and magic-byte detection (`dump.rs`): a library and a prefix test.
- `leading_major`, the progress counts and the report's timings and rendering,
  `reject_managed_storage` (`pipeline.rs`): data without control, or one test.
- Storage options, `SharedStore` and the single-threaded `TableSink`
  (`sink.rs`) and `append_row` (`builders.rs`), which the pipeline does not use;
  URI classification and the local reader (`source.rs`).
- The Arrow layout of batches, files and history rows; the rounding of floats;
  names with bytes that are not UTF-8, and UTF-8 beyond single bytes.
- An object replaced between two GETs of one read: the code compares only its
  length, and promises nothing.
- Other writers to the same tables while a load runs.
- Errors, Python bindings, catalog helper, tools: no state of their own.

## 6. Plan

Done: `BlockingChan`, `Chan`, `ChanProofs`; `AllOrNothing`, `Pipeline`,
`PipelineProofs`, `PipelineRowsProofs`; `DeltaLoad`, `DeltaLoadProofs`,
`ObjectSource`, `ObjectSourceProofs`; `FoldSteps`, `DumpScan`,
`DumpScanProofs`; `Texts`, `Values`, `PgTypes`, `Ddl`, `Columns`, `RowDecode`,
`RowDecodeProofs`.

Next, in this order:

1. Parsers against printers, as theorems: that `parse_array_elements` reads what
   `array_out` writes, and `unescape_into` what COPY escapes, for lists and texts
   of any length, by induction over the turns of their loops.
2. In `DeltaLoad`, another writer to the same tables, once the code says what it
   promises there.
