----------------------------- MODULE RowDecode -----------------------------
(***************************************************************************)
(* One table of a load, from its CREATE TABLE to its batches.  The scanner *)
(* recovers the columns (Ddl), the reader looks the columns of the COPY    *)
(* header up and opens the block (drive in src/pipeline.rs), and a worker  *)
(* decodes the rows: decode_row splits and unescapes a row into a reused   *)
(* scratch buffer (src/copy.rs), append_row_ranges binds the fields to one *)
(* builder per column (Columns, Values) and finish turns full builders     *)
(* into a batch, which the worker writes (worker_loop in src/pipeline.rs). *)
(* It is the inside of the steps Table, CopyStart, WorkerRows and          *)
(* WorkerClose of Pipeline.                                                *)
(***************************************************************************)
EXTENDS Ddl, Columns

CONSTANTS Loads,        \* what may be read: see the fields below
          SafeWords,    \* the words of letters, digits, _ and - alone
          MaxRow, MaxField, MaxColumns,     \* copy::Limits
          BatchRows, BatchBytes             \* BatchBuilder's bounds

(* Of a load: creates, its CREATE TABLE statements; copy, the header of    *)
(* the COPY block; rows, the rows this worker gets, as [raw, ...]; wide,   *)
(* native, tables, excluded and manifest, of LoadConfig.  For the          *)
(* properties: outcome, "loads", "refused" or "skipped"; declares, the     *)
(* columns in the order of the header, as [name, sql_type]; and of each    *)
(* row ok, whether it is a row this table can take, stored, its values,    *)
(* and subst, where a NULL stands for a value Arrow cannot hold.           *)

ASSUME LimitsAssumption == /\ MaxRow \in Nat /\ MaxField \in Nat /\ MaxColumns \in Nat
                           /\ BatchRows \in Nat \ {0} /\ BatchBytes \in Nat \ {0}

(* A sequence, of whatever.                                                *)
IsSeq(s) == Len(s) \in Nat /\ s = [k \in 1..Len(s) |-> s[k]]

(* A load has statements and rows of bytes, and a header that can be read  *)
(* has a list of columns.                                                  *)
LoadOK(l) == /\ IsSeq(l.creates) /\ l.creates # <<>>
             /\ IsSeq(l.rows)
             /\ \A k \in DOMAIN l.rows : /\ IsSeq(l.rows[k].raw)
                                        /\ \A i \in DOMAIN l.rows[k].raw : l.rows[k].raw[i] \in 0..255
             /\ LET header == parse_copy_header(l.copy) IN header # Null => IsSeq(header.columns)

ASSUME LoadsAssumption == \A l \in Loads : LoadOK(l)

(* NULL is no range of a buffer.                                           *)
ASSUME NullAssumption == Null \notin [from : Nat, to : Nat]

VARIABLES load,       \* the load, with the configuration it runs under
          step,       \* "create" | "copy" | "row" | "fields" | "columns" | "flush" | "stage" | "end"
          defs,       \* table_defs: by qualified name
          columns,    \* BlockCtx.columns: name, type text and resolved type
          next,       \* the statement being read; then the row being decoded
          pos,        \* Fields.pos: where the next field starts
          count,      \* Fields.count; then the column being appended
          scratch,    \* the decoded bytes of the row
          ranges,     \* the fields of the row as ranges of scratch, or Null
          schema,     \* the Arrow types of the batches
          cols,       \* the column builders
          rows,       \* BatchBuilder.rows
          bytes,      \* BatchBuilder.bytes
          subs,       \* BatchBuilder.substitutions
          file,       \* the rows handed to the TableWriter
          status      \* "running", "skipped", "closed", or the error the load stops with

batch == <<cols, rows, bytes, subs>>
table == <<load, defs, columns, schema>>
vars == <<load, step, defs, columns, next, pos, count, scratch, ranges, schema, cols, rows, bytes, subs, file, status>>

Tab == 9
Newline == 10
NullMarker == <<Backslash, 78>>

-----------------------------------------------------------------------------
(***************************************************************************)
(* unescape_into                                                           *)
(***************************************************************************)
Named == [c \in {98, 102, 110, 114, 116, 118} |->
            CASE c = 98 -> 8 [] c = 102 -> 12 [] c = 110 -> 10 [] c = 114 -> 13 [] c = 116 -> 9 [] c = 118 -> 11]

OctalDigits == 48..55
HexDigits == 48..57 \cup 65..70 \cup 97..102

DigitValue(d) == hex_val(d)

(* How many of the at most `most` bytes from i on are in S.                *)
RunLength(b, i, S, most) ==
    Max({n \in 0..most : i + n - 1 <= Len(b) /\ \A j \in i..(i + n - 1) : b[j] \in S})

(* The number the n digits from i on write.                                *)
Number(b, i, n, base) ==
    CASE n = 1 -> DigitValue(b[i])
      [] n = 2 -> DigitValue(b[i]) * base + DigitValue(b[i + 1])
      [] n = 3 -> (DigitValue(b[i]) * base + DigitValue(b[i + 1])) * base + DigitValue(b[i + 2])

(* The escape whose letter is b[i]: the byte it stands for, and where to   *)
(* read on.  Of an over-wide octal number the low byte is taken.           *)
Escape(b, i) ==
    LET c == b[i]
        hex == RunLength(b, i + 1, HexDigits, 2)
        oct == RunLength(b, i, OctalDigits, 3)
        Byte(v, after) == [err |-> "none", byte |-> v, after |-> after]
    IN  CASE c \in DOMAIN Named -> Byte(Named[c], i + 1)
          [] c = 120 /\ hex = 0 -> [err |-> "InvalidHexEscape"]
          [] c = 120 /\ hex > 0 -> Byte(Number(b, i + 1, hex, 16), i + 1 + hex)
          [] c \in OctalDigits  -> Byte(Number(b, i, oct, 8) % 256, i + oct)
          [] OTHER -> Byte(c, i + 1)

(* One turn of the loop: a byte, or an escape.                             *)
UnescapeTurn(s, turn) ==
    LET Escaped(e) == IF e.err = "none" THEN [s EXCEPT !.out = Append(@, e.byte), !.i = e.after]
                                        ELSE [s EXCEPT !.err = e.err]
    IN  IF s.err # "none" \/ s.i > Len(s.text) THEN s
        ELSE IF s.text[s.i] # Backslash THEN [s EXCEPT !.out = Append(@, s.text[s.i]), !.i = @ + 1]
        ELSE IF s.i = Len(s.text) THEN [s EXCEPT !.err = "TruncatedEscape"]
        ELSE Escaped(Escape(s.text, s.i + 1))

Unescaping == INSTANCE FoldSteps WITH Step <- UnescapeTurn

Unescape(text) == Unescaping!Result([text |-> text, err |-> "none", out |-> <<>>, i |-> 1], text)

-----------------------------------------------------------------------------
Fail(e) == status' = e /\ step' = "end"

Init == /\ load \in Loads
        /\ step = "create"
        /\ defs = <<>>
        /\ columns = <<>>
        /\ next = 1
        /\ pos = 1
        /\ count = 0
        /\ scratch = <<>>
        /\ ranges = <<>>
        /\ schema = <<>>
        /\ cols = <<>>
        /\ rows = 0
        /\ bytes = 0
        /\ subs = <<>>
        /\ file = <<>>
        /\ status = "running"

-----------------------------------------------------------------------------
(***************************************************************************)
(* The statements.  A CREATE TABLE in an excluded schema is not even       *)
(* parsed; any other defines, or defines again, the table of its name.     *)
(***************************************************************************)
Define(def) ==
    \/ /\ def # Null
       /\ defs' = (qualified(def.name) :> def) @@ defs
       /\ step' = IF next < Len(load.creates) THEN "create" ELSE "copy"
       /\ UNCHANGED status
    \/ /\ def = Null
       /\ Fail("MalformedCreateTable")
       /\ UNCHANGED defs

CreateTable ==
    /\ step = "create"
    /\ LET ddl == load.creates[next]
       IN \/ /\ schema_is_excluded(ddl, load.excluded)
             /\ UNCHANGED <<defs, status>>
             /\ step' = IF next < Len(load.creates) THEN "create" ELSE "copy"
          \/ /\ ~schema_is_excluded(ddl, load.excluded)
             /\ Define(parse_create_table(ddl))
    /\ next' = IF step' = "create" THEN next + 1 ELSE 1
    /\ UNCHANGED <<load, columns, pos, count, scratch, ranges, schema, cols, rows, bytes, subs, file>>

(* A source table at the place of the load history.                        *)
reserved_collision(name) == name.schema = Null /\ name.table = <<"_pgdelta_loads">>

(* The filters: exclusion wins over the list of tables.                    *)
Wanted(name) == /\ load.tables # Null => qualified(name) \in load.tables
                /\ ~(name.schema # Null /\ name.schema \in load.excluded)

(* relative_path: each part of the name must be letters, digits, _ - and   *)
(* blanks inside; a part that is not is refused, never rewritten.  (A part *)
(* of more than 255 bytes or a name of more than 512 is refused as well.)  *)
SafePart(part) == /\ part # <<>> /\ Head(part) # " " /\ Last(part) # " "
                  /\ \A i \in DOMAIN part : part[i] \in SafeWords \cup {" "}
RelativePath(name) == IF (name.schema = Null \/ SafePart(name.schema)) /\ SafePart(name.table)
                      THEN name ELSE Null

(* resolve_copy_columns: each name of the header, looked up; it fails for  *)
(* a name that is not found.                                               *)
Declared(def, name) == SelectInSeq(def.columns, LAMBDA c : c.name = name)

resolve_copy_columns(def, names) ==
    LET Resolved(name, sql_type) == [name |-> name, sql_type |-> sql_type, type |-> resolve(sql_type)]
    IN  [k \in DOMAIN names |-> Resolved(names[k], def.columns[Declared(def, names[k])].sql_type)]

(* The error a COPY header meets, in the order of the checks.  The table   *)
(* is opened by the look-up its CREATE TABLE began (preload_table), under  *)
(* that statement's name: of two tables with one joined name, the later's. *)
(* (A second COPY block would find none and use its own; what storage says *)
(* when the table is opened is in DeltaLoad.)                              *)
CopyError(header) ==
    IF header = Null THEN "MalformedCopyHeader"
    ELSE IF load.manifest /\ reserved_collision(header.table) THEN "UnsafeTableName"
    ELSE IF ~Wanted(header.table) THEN "none"
    ELSE IF qualified(header.table) \notin DOMAIN defs THEN "MalformedCreateTable"
    ELSE IF \E k \in DOMAIN header.columns : Declared(defs[qualified(header.table)], header.columns[k]) = 0
         THEN "MalformedCreateTable"
    ELSE IF RelativePath(defs[qualified(header.table)].name) = Null THEN "UnsafeTableName"
    ELSE "none"

(* CopyStart: the block is skipped, or its schema is fixed and a worker    *)
(* will build its batches by it.                                           *)
OpenBlock(found) ==
    /\ columns' = found
    /\ schema' = [k \in DOMAIN found |-> arrow_type(found[k].type, load.wide, load.native)]
    /\ cols' = [k \in DOMAIN found |-> NewBuilder(found[k].type, load.wide, load.native)]
    /\ subs' = [k \in DOMAIN found |-> 0]
    /\ step' = "row"
    /\ UNCHANGED status

BeginCopy(header) ==
    \/ /\ CopyError(header) # "none"
       /\ Fail(CopyError(header))
       /\ UNCHANGED <<columns, schema, cols, subs>>
    \/ /\ CopyError(header) = "none"
       /\ ~Wanted(header.table)
       /\ Fail("skipped")
       /\ UNCHANGED <<columns, schema, cols, subs>>
    \/ /\ CopyError(header) = "none"
       /\ Wanted(header.table)
       /\ OpenBlock(resolve_copy_columns(defs[qualified(header.table)], header.columns))

CopyStart == /\ step = "copy"
             /\ BeginCopy(parse_copy_header(load.copy))
             /\ UNCHANGED <<load, defs, next, pos, count, scratch, ranges, rows, bytes, file>>

-----------------------------------------------------------------------------
Raw == load.rows[next].raw

(* Mutant: the ranges of the last row are kept. *)
BeginRowKeepsRanges ==
    /\ step = "row"
    /\ next <= Len(load.rows)
    /\ scratch' = <<>>
    /\ pos' = 1
    /\ count' = 0
    /\ IF Len(Raw) > MaxRow THEN Fail("RowTooLarge") ELSE step' = "fields" /\ UNCHANGED status
    /\ UNCHANGED <<table, next, ranges, batch, file>>

(* decode_row clears its buffers; the first Fields::next checks the row.   *)
BeginRow ==
    /\ step = "row"
    /\ next <= Len(load.rows)
    /\ scratch' = <<>>
    /\ ranges' = <<>>
    /\ pos' = 1
    /\ count' = 0
    /\ IF Len(Raw) > MaxRow THEN Fail("RowTooLarge") ELSE step' = "fields" /\ UNCHANGED status
    /\ UNCHANGED <<table, next, batch, file>>

(* Where the field that starts at pos ends: before a tab or the row's end. *)
FieldEnd == Min({i \in pos..Len(Raw) : Raw[i] = Tab} \cup {Len(Raw) + 1}) - 1

(* Mutant: the limit is refused, not what is beyond it. *)
FieldErrorAtLimit(field) ==
    CASE count + 1 > MaxColumns -> "TooManyColumns"
      [] count + 1 <= MaxColumns /\ Len(field) >= MaxField -> "FieldTooLarge"
      [] count + 1 <= MaxColumns /\ Len(field) < MaxField /\ field # NullMarker -> Unescape(field).err
      [] OTHER -> "none"

FieldError(field) ==
    CASE count + 1 > MaxColumns -> "TooManyColumns"
      [] count + 1 <= MaxColumns /\ Len(field) > MaxField -> "FieldTooLarge"
      [] count + 1 <= MaxColumns /\ Len(field) <= MaxField /\ field # NullMarker -> Unescape(field).err
      [] OTHER -> "none"

(***************************************************************************)
(* One turn of decode_row's loop: the next field is checked, classified    *)
(* and unescaped into scratch; after the last one the arity is compared.   *)
(* (What a failing escape left in scratch is of no use to anyone.)         *)
(***************************************************************************)
NextField ==
    /\ step = "fields"
    /\ LET field == SubSeq(Raw, pos, FieldEnd)
           error == FieldError(field)
           last == FieldEnd = Len(Raw)
           value == IF field = NullMarker THEN <<>> ELSE Unescape(field).out
       IN \/ /\ error # "none"
             /\ Fail(error)
             /\ UNCHANGED <<pos, count, scratch, ranges>>
          \/ /\ error = "none"
             /\ scratch' = scratch \o value
             /\ ranges' = Append(ranges, IF field = NullMarker THEN Null
                                         ELSE [from |-> Len(scratch) + 1, to |-> Len(scratch')])
             /\ pos' = FieldEnd + 2
             /\ \/ /\ ~last
                   /\ count' = count + 1
                   /\ UNCHANGED <<step, status>>
                \/ /\ last
                   /\ Len(ranges') = Len(columns)
                   /\ step' = "columns"
                   /\ count' = 1
                   /\ UNCHANGED status
                \/ /\ last
                   /\ Len(ranges') # Len(columns)
                   /\ Fail("FieldCountMismatch")
                   /\ UNCHANGED count
    /\ UNCHANGED <<table, next, batch, file>>

-----------------------------------------------------------------------------
(***************************************************************************)
(* One turn of append_row_ranges' loop.  A value that fails leaves the     *)
(* columns before it one entry longer; the worker stops there.             *)
(***************************************************************************)
Appends(value, appended) ==
    \/ /\ appended.err # "none"
       /\ Fail(appended.err)
       /\ UNCHANGED <<count, cols, rows, bytes, subs>>
    \/ /\ appended.err = "none"
       /\ cols' = [cols EXCEPT ![count] = appended.builder]
       /\ subs' = [subs EXCEPT ![count] = @ + IF appended.subst THEN 1 ELSE 0]
       /\ bytes' = bytes + IF value = Null THEN 0 ELSE Len(value)
       /\ count' = count + 1
       /\ IF count < Len(columns) THEN UNCHANGED <<step, rows>> ELSE step' = "flush" /\ rows' = rows + 1
       /\ UNCHANGED status

AppendColumn ==
    /\ step = "columns"
    /\ LET range == ranges[count]
           value == IF range = Null THEN Null ELSE SubSeq(scratch, range.from, range.to)
       IN  Appends(value, AppendValue(cols[count], value))
    /\ UNCHANGED <<table, next, pos, scratch, ranges, file>>

IsFullByRows == rows >= BatchRows        \* mutant
IsFull == rows >= BatchRows \/ bytes >= BatchBytes

Batch == [r \in 1..rows |-> [i \in DOMAIN columns |-> Entry(cols[i], r)]]

(* Mutant: the substitutions are reset too. *)
FinishForgetsSubstitutions(done) ==
    /\ cols' = [i \in DOMAIN columns |-> FinishBuilder(cols[i])]
    /\ rows' = 0
    /\ bytes' = 0
    /\ subs' = [i \in DOMAIN columns |-> 0]
    /\ \/ file' = file \o Batch /\ step' = done /\ UNCHANGED status
       \/ Fail("StorageFailed") /\ UNCHANGED file

(* finish, and the write of the batch, which may fail.                     *)
Finish(done) ==
    /\ cols' = [i \in DOMAIN columns |-> FinishBuilder(cols[i])]
    /\ rows' = 0
    /\ bytes' = 0
    /\ UNCHANGED subs
    /\ \/ file' = file \o Batch /\ step' = done /\ UNCHANGED status
       \/ Fail("StorageFailed") /\ UNCHANGED file

Flush == /\ step = "flush"
         /\ next' = next + 1
         /\ \/ IsFull /\ Finish("row")
            \/ ~IsFull /\ step' = "row" /\ UNCHANGED <<cols, rows, bytes, subs, file, status>>
         /\ UNCHANGED <<table, pos, count, scratch, ranges>>

(* Job::Close: what is left is written, unless there is nothing; then the   *)
(* files are staged, which may fail after the write did not.                *)
Close == /\ step = "row"
         /\ next > Len(load.rows)
         /\ \/ rows > 0 /\ Finish("stage")
            \/ rows = 0 /\ step' = "stage" /\ UNCHANGED <<cols, rows, bytes, subs, file, status>>
         /\ UNCHANGED <<table, next, pos, count, scratch, ranges>>

Stage == /\ step = "stage"
         /\ step' = "end"
         /\ status' \in {"closed", "StorageFailed"}
         /\ UNCHANGED <<table, next, pos, count, scratch, ranges, batch, file>>

Next == CreateTable \/ CopyStart \/ BeginRow \/ NextField \/ AppendColumn \/ Flush \/ Close \/ Stage

Spec == Init /\ [][Next]_vars

-----------------------------------------------------------------------------
(***************************************************************************)
(* Properties                                                              *)
(***************************************************************************)
DdlErrors == {"MalformedCreateTable", "MalformedCopyHeader", "UnsafeTableName"}

DecodeErrors == {"RowTooLarge", "FieldTooLarge", "TooManyColumns", "FieldCountMismatch",
                 "TruncatedEscape", "InvalidHexEscape", "NonUtf8Text", "UnparsableValue"}

(* The parts of the inductive invariant.  Types of the loop's state:       *)
TypeOK == /\ LoadOK(load)
          /\ step \in {"create", "copy", "row", "fields", "columns", "flush", "stage", "end"}
          /\ status \in DdlErrors \cup DecodeErrors \cup {"running", "skipped", "closed", "StorageFailed"}
          /\ (step = "end") = (status # "running")
          /\ next \in 1..(IF step = "create" THEN Len(load.creates) ELSE Len(load.rows) + 1)
          /\ step \in {"fields", "columns", "flush"} \/ status \in DecodeErrors => next \in DOMAIN load.rows
          /\ rows \in Nat /\ bytes \in Nat /\ IsSeq(file)

(* What a row alone says: its fields, split at the tabs; the value of a    *)
(* field; and what a column makes of it when nothing else was appended.    *)
SplitByte(cut, byte) == IF byte = Tab THEN [fields |-> Append(cut.fields, cut.rest), rest |-> <<>>]
                                      ELSE [cut EXCEPT !.rest = Append(@, byte)]
Splitting == INSTANCE FoldSteps WITH Step <- SplitByte
Cut(raw) == Splitting!After([fields |-> <<>>, rest |-> <<>>], raw)
Fields(raw) == LET cut == Cut(raw)[Len(raw)] IN Append(cut.fields, cut.rest)

FieldValue(field) == IF field = NullMarker THEN Null ELSE Unescape(field).out
FieldIsGood(field) == Len(field) <= MaxField /\ (field # NullMarker => Unescape(field).err = "none")

Fresh(i) == NewBuilder(columns[i].type, load.wide, load.native)
Read(k, i) == AppendValue(Fresh(i), FieldValue(Fields(load.rows[k].raw)[i]))
StoredRow(k) == [i \in DOMAIN columns |-> Entry(Read(k, i).builder, 1)]
RowIsGood(k) == LET fields == Fields(load.rows[k].raw)
                IN  /\ Len(load.rows[k].raw) <= MaxRow
                    /\ Len(fields) = Len(columns) /\ Len(columns) <= MaxColumns
                    /\ \A i \in DOMAIN columns : FieldIsGood(fields[i]) /\ Read(k, i).err = "none"

(* "Panics if a range falls outside scratch, which cannot happen": the     *)
(* ranges of a row lie in the scratch buffer, one after another, and hold  *)
(* the values of its fields in order, nothing of the row before.           *)
ValueOf(range) == IF range = Null THEN Null ELSE SubSeq(scratch, range.from, range.to)
RangesOK ==
    /\ IsSeq(scratch) /\ IsSeq(ranges)
    /\ \A i \in DOMAIN scratch : scratch[i] \in 0..255
    /\ \A i \in DOMAIN ranges : ranges[i] # Null =>
          /\ ranges[i] \in [from : Nat, to : Nat]
          /\ ranges[i].from >= 1 /\ ranges[i].to >= ranges[i].from - 1 /\ ranges[i].to <= Len(scratch)
          /\ \A j \in DOMAIN ranges : j < i /\ ranges[j] # Null => ranges[j].to < ranges[i].from

FieldsOK ==
    step = "fields" => LET cut == Cut(Raw)[pos - 1] IN
        /\ Len(Raw) <= MaxRow
        /\ pos \in 1..(Len(Raw) + 1)
        /\ Len(scratch) < pos
        /\ cut.rest = <<>>
        /\ count = Len(ranges) /\ Len(cut.fields) = count /\ count <= MaxColumns
        /\ \A j \in DOMAIN ranges : FieldIsGood(cut.fields[j]) /\ ValueOf(ranges[j]) = FieldValue(cut.fields[j])

ColumnsOK ==
    step = "columns" =>
        /\ Len(Raw) <= MaxRow /\ Len(scratch) <= MaxRow
        /\ Len(ranges) = Len(columns) /\ count \in DOMAIN columns
        /\ Len(Fields(Raw)) = Len(columns) /\ Len(columns) <= MaxColumns
        /\ \A j \in DOMAIN columns : FieldIsGood(Fields(Raw)[j]) /\ ValueOf(ranges[j]) = FieldValue(Fields(Raw)[j])
        /\ \A j \in DOMAIN columns : j < count => Read(next, j).err = "none"

(* The builders: each differs from a new one by the values it holds, and   *)
(* the offsets of a list column count its elements.                        *)
Filled(new, b) ==
    IF new.kind = "List" THEN [new EXCEPT !.element = [@ EXCEPT !.vals = b.element.vals],
                                          !.offsets = b.offsets, !.validity = b.validity]
    ELSE [new EXCEPT !.vals = b.vals]

ListOK(b) == /\ IsSeq(b.element.vals) /\ IsSeq(b.validity) /\ IsSeq(b.offsets)
             /\ Len(b.offsets) = Len(b.validity) + 1
             /\ b.offsets[1] = 0 /\ Last(b.offsets) = Len(b.element.vals)
             /\ \A r \in DOMAIN b.offsets : b.offsets[r] \in 0..Len(b.element.vals)
             /\ \A r \in DOMAIN b.validity : b.offsets[r] <= b.offsets[r + 1]

BuilderOK(b) == IF b.kind = "List" THEN ListOK(b) ELSE IsSeq(b.vals)

BlockOK ==
    /\ IsSeq(columns)
    /\ step \in {"create", "copy"} => columns = <<>> /\ rows = 0 /\ bytes = 0 /\ file = <<>>
    /\ cols = [i \in DOMAIN columns |-> cols[i]]
    /\ subs = [i \in DOMAIN columns |-> subs[i]]
    /\ schema = [i \in DOMAIN columns |-> arrow_type(columns[i].type, load.wide, load.native)]
    /\ \A i \in DOMAIN columns : columns[i].type = resolve(columns[i].sql_type)

BuildersOK ==
    \A i \in DOMAIN columns :
        /\ cols[i] = Filled(Fresh(i), cols[i])
        /\ BuilderOK(cols[i])
        /\ Entries(cols[i]) >= rows
        /\ step # "end" \/ status = "closed" => Entries(cols[i]) = rows + IF step = "columns" /\ i < count THEN 1 ELSE 0

(* What is stored is what the rows alone say; nothing was stored of a row  *)
(* that is not good, and no good row was refused.                          *)
RowsAreDecoded ==
    /\ \A k \in DOMAIN file : file[k] = StoredRow(k)
    /\ \A i \in DOMAIN columns : \A r \in 1..Entries(cols[i]) :
          Entry(cols[i], r) = Entry(Read(Len(file) + r, i).builder, 1)
    /\ \A k \in 1..(Len(file) + rows) : k \in DOMAIN load.rows /\ RowIsGood(k)
    /\ step \in {"copy", "row", "fields", "columns", "flush", "stage"} \/ status = "closed" =>
          next = Len(file) + rows + IF step = "flush" THEN 0 ELSE 1
    /\ status \in DecodeErrors => ~RowIsGood(next)

(* The first n rows in which column i holds a NULL in place of a value.    *)
Substituted(i, n) == {k \in 1..n : Read(k, i).subst}
SubsOK ==
    step # "end" \/ status = "closed" => \A i \in DOMAIN columns :
        subs[i] = Cardinality(Substituted(i, Len(file) + Entries(cols[i])))

(* The bytes of the batch: what the row at hand adds, it has in scratch.   *)
BytesOK ==
    /\ step \in {"row", "fields"} => rows < BatchRows /\ bytes < BatchBytes
    /\ step = "columns" =>
          /\ bytes < BatchBytes + Len(scratch)
          /\ \A j \in DOMAIN ranges : j >= count /\ ranges[j] # Null => bytes < BatchBytes + ranges[j].from - 1
    /\ bytes < BatchBytes + MaxRow

IInv == /\ TypeOK /\ RangesOK /\ FieldsOK /\ ColumnsOK
        /\ BlockOK /\ BuildersOK /\ RowsAreDecoded /\ SubsOK /\ BytesOK

(* decode_row, the parsers and the builders against PostgreSQL: a row it   *)
(* writes passes every check when it is read alone, and gives the values   *)
(* it was written from, with a NULL for infinity and NaN; a row it never   *)
(* writes fails one of the checks.  The values where the code is known to  *)
(* differ are in the data by name: Unread, what PostgreSQL writes and the  *)
(* code refuses (a timestamp beyond an i64 of microseconds, and, under     *)
(* native_arrays, an array of two dimensions), and Lenient, what it never  *)
(* writes and the code reads (inf).                                        *)
RowsAgree ==
    columns # <<>> \/ status \in DecodeErrors => \A k \in DOMAIN load.rows :
        /\ load.rows[k].ok = RowIsGood(k)
        /\ RowIsGood(k) => /\ load.rows[k].stored = StoredRow(k)
                           /\ \A i \in DOMAIN columns : load.rows[k].subst[i] = Read(k, i).subst

(* "each name is looked up rather than taken positionally"                 *)
(* (resolve_copy_columns): whatever parameters, expressions, constraints   *)
(* and storage clauses a definition carries, and however its columns are   *)
(* named (save as below), every column of the header is given the type     *)
(* that the last CREATE TABLE of the header's joined name declares for it, *)
(* and a table is refused or skipped only when it has to be.  Where the    *)
(* code falls short of that the loads say so: a column with the bare name  *)
(* "exclude" is taken for a constraint and its table refused, and of two   *)
(* tables with the same joined name the later stands for both, by its      *)
(* columns and by whether its name is safe.                                *)
ColumnsRecovered ==
    /\ status \in DdlErrors => load.outcome = "refused"
    /\ status = "skipped" => load.outcome = "skipped"
    /\ columns # <<>> => /\ load.outcome = "loads"
                         /\ Len(columns) = Len(load.declares)
                         /\ \A k \in DOMAIN columns : /\ columns[k].name = load.declares[k].name
                                                      /\ columns[k].sql_type = load.declares[k].sql_type

(* What is in the files and in the open batch is exactly what the rows so  *)
(* far say, each once, in order, however their values were written and     *)
(* escaped, wherever a batch was cut; a worker that fails leaves a prefix  *)
(* of them, without any part of the row it failed in.  A row that is not   *)
(* one of this table never gets past, and "fails loudly on structure"      *)
(* refuses no other: only what is malformed, oversized or of the wrong     *)
(* arity, and what RowsAgree calls Unread.                                 *)
RowsAreStored ==
    LET all == file \o Batch
    IN  /\ \A k \in DOMAIN all : load.rows[k].ok /\ all[k] = load.rows[k].stored
        /\ step \in {"row", "flush", "stage"} \/ status = "closed" =>
              Len(all) = (IF step = "flush" THEN next ELSE next - 1)
        /\ status \in DecodeErrors => ~load.rows[next].ok

(* "The builder must agree with arrow_type" (ColumnBuilder::new), "list    *)
(* builder offsets/values/nulls must already agree" (ColumnBuilder::       *)
(* finish): whenever a batch may be cut, every array has the type its      *)
(* field declares and an entry per row, and the elements of a list column  *)
(* are those its offsets count, so that neither try_new can fail.          *)
BatchIsValid ==
    step \in {"row", "flush", "stage"} => \A i \in DOMAIN cols :
        /\ ArrayType(cols[i]) = schema[i]
        /\ Entries(cols[i]) = rows
        /\ cols[i].kind = "List" => /\ Len(cols[i].offsets) = rows + 1
                                    /\ Last(cols[i].offsets) = Len(cols[i].element.vals)
                                    /\ \A r \in 1..rows : cols[i].offsets[r] <= cols[i].offsets[r + 1]

(* The batch is bounded in rows and bytes: it is never carried on past     *)
(* either bound, and outgrows the bytes by no more than one row.           *)
BatchIsBounded == /\ step = "row" => rows < BatchRows /\ bytes < BatchBytes
                  /\ bytes < BatchBytes + MaxRow

(* "so that infinity and NaN substitutions are visible": the report counts *)
(* every row whose value was stored as NULL, or holds such an element, and *)
(* no other, over all batches.                                             *)
SubstitutionsAreCounted ==
    step = "row" \/ status = "closed" => \A i \in DOMAIN columns :
        subs[i] = Cardinality({k \in 1..(next - 1) : load.rows[k].subst[i]})
=============================================================================
