------------------------------ MODULE Columns ------------------------------
(***************************************************************************)
(* src/builders.rs: the Arrow type a column is declared with, and the      *)
(* builder its values are appended to.  The two are decided apart from     *)
(* each other and must agree.                                              *)
(*                                                                         *)
(* A builder of scalars is its kind and the values since the last batch;   *)
(* one of lists has a builder of the elements, the element count after     *)
(* each row and whether each row is a list at all.                         *)
(***************************************************************************)
EXTENDS PgTypes, Values

Utf8 == [arrow |-> "Utf8"]
Decimal128(p, s) == [arrow |-> "Decimal128", precision |-> p, scale |-> s]
ListOf(item) == [arrow |-> "List", item |-> item]

as_element(rt) == [rt EXCEPT !.dims = 0]

(* The types that stand for one Arrow type each. *)
Native == [smallint |-> "Int16", integer |-> "Int32", bigint |-> "Int64", real |-> "Float32",
           double |-> "Float64", boolean |-> "Boolean", date |-> "Date32",
           timestamp |-> "Timestamp(UTC)", time |-> "Time64", bytea |-> "Binary"]

(***************************************************************************)
(* arrow_type, of a column that is no array and of one that may be         *)
(***************************************************************************)
ScalarType(rt, wide) ==
    CASE rt.pg.type = "numeric" /\ wide /\ numeric_too_wide(rt.pg.precision) ->
           Decimal128(WIDE_NUMERIC_PRECISION, WIDE_NUMERIC_SCALE)
      [] rt.pg.type = "numeric" /\ decimal_fits(rt.pg.precision, rt.pg.scale) ->
           Decimal128(rt.pg.precision, rt.pg.scale)
      [] rt.pg.type \in DOMAIN Native -> [arrow |-> Native[rt.pg.type]]
      [] OTHER -> Utf8

array_element_type(rt, wide) ==
    LET unsupported == \/ rt.pg.type = "text" /\ ~rt.recognised
                       \/ /\ rt.pg.type = "numeric"
                          /\ is_textual(rt)
                          /\ ~(wide /\ numeric_too_wide(rt.pg.precision))
    IN  IF unsupported THEN Null ELSE ScalarType(rt, wide)

arrow_type(rt, wide, native) ==
    LET item == array_element_type(as_element(rt), wide)
    IN  IF rt.dims = 0 THEN ScalarType(rt, wide)
        ELSE IF native /\ rt.dims = 1 /\ item # Null THEN ListOf(item) ELSE Utf8

-----------------------------------------------------------------------------
(***************************************************************************)
(* ColumnBuilder::new                                                      *)
(***************************************************************************)
(* Decimal128Builder::with_precision_and_scale                             *)
ArrowAccepts(p, s) == p \in 1..38 /\ s <= 38 /\ (s > 0 => s <= p)

TextBuilder == [kind |-> "Utf8", vals |-> <<>>]
DecimalBuilder(p, s) == IF ArrowAccepts(p, s) THEN [kind |-> "Decimal", precision |-> p, scale |-> s, vals |-> <<>>]
                                              ELSE TextBuilder

NewScalar(rt, wide) ==
    IF rt.pg.type = "numeric" /\ wide /\ numeric_too_wide(rt.pg.precision)
    THEN DecimalBuilder(WIDE_NUMERIC_PRECISION, WIDE_NUMERIC_SCALE)
    ELSE IF is_textual(rt) THEN TextBuilder
    ELSE CASE rt.pg.type = "numeric" -> DecimalBuilder(rt.pg.precision, rt.pg.scale)
           [] rt.pg.type = "timestamp" -> [kind |-> "Timestamp", tz |-> rt.pg.tz, vals |-> <<>>]
           [] rt.pg.type \in {"smallint", "integer", "bigint"} -> [kind |-> "Int", width |-> rt.pg.type, vals |-> <<>>]
           [] rt.pg.type \in {"real", "double"} -> [kind |-> "Float", width |-> rt.pg.type, vals |-> <<>>]
           [] rt.pg.type = "boolean" -> [kind |-> "Boolean", vals |-> <<>>]
           [] rt.pg.type = "date" -> [kind |-> "Date", vals |-> <<>>]
           [] rt.pg.type = "time" -> [kind |-> "Time", vals |-> <<>>]
           [] rt.pg.type = "bytea" -> [kind |-> "Binary", vals |-> <<>>]

NewList(element) == [kind |-> "List", element |-> element, offsets |-> <<0>>, validity |-> <<>>]

(* Mutant: what a list may hold is asked for without the wide decimals. *)
NewBuilderNarrow(rt, wide, native) ==
    IF rt.dims = 0 THEN NewScalar(rt, wide)
    ELSE IF native /\ rt.dims = 1 /\ array_element_type(as_element(rt), FALSE) # Null
         THEN NewList(NewScalar(as_element(rt), wide)) ELSE TextBuilder

NewBuilder(rt, wide, native) ==
    IF rt.dims = 0 THEN NewScalar(rt, wide)
    ELSE IF native /\ rt.dims = 1 /\ array_element_type(as_element(rt), wide) # Null
         THEN NewList(NewScalar(as_element(rt), wide)) ELSE TextBuilder

-----------------------------------------------------------------------------
(***************************************************************************)
(* ColumnBuilder::append: the builder after it, and whether a NULL took    *)
(* the place of a value.  (Of a list that fails, the elements before the   *)
(* bad one stay appended; the worker stops and drops the builder.)         *)
(***************************************************************************)
ParseScalar(b, v) ==
    CASE b.kind = "Int" -> parse_int(v, b.width)
      [] b.kind = "Float" -> parse_float(v)
      [] b.kind = "Decimal" -> parse_decimal(v, b.precision, b.scale)
      [] b.kind = "Boolean" -> parse_bool(v)
      [] b.kind = "Date" -> parse_date(v)
      [] b.kind = "Timestamp" -> parse_timestamp(v, b.tz)
      [] b.kind = "Time" -> parse_time(v)
      [] b.kind = "Binary" -> parse_bytea(v)
      [] b.kind = "Utf8" -> IF IsUtf8(v) THEN Some([text |-> v]) ELSE [Bad EXCEPT !.err = "NonUtf8Text"]

AppendScalar(b, v) ==
    LET Pushed(parsed) == [err |-> parsed.err, subst |-> parsed.subst,
                           builder |-> [b EXCEPT !.vals = Append(@, parsed.stored)]]
    IN  Pushed(IF v = Null THEN Some(Null) ELSE ParseScalar(b, v))

(* One element of a list; the first that fails ends the loop.              *)
AppendElement(done, e) ==
    LET Both(one) == [one EXCEPT !.subst = done.subst \/ @]
    IN  IF done.err # "none" THEN done ELSE Both(AppendScalar(done.builder, e))

Appending == INSTANCE FoldSteps WITH Step <- AppendElement

AppendElements(element, list) == Appending!Result([err |-> "none", subst |-> FALSE, builder |-> element], list)

AppendList(b, v) ==
    LET Entered(all, n) == [all EXCEPT !.builder = [b EXCEPT !.element = all.builder,
                                                             !.offsets = Append(@, Last(@) + n),
                                                             !.validity = Append(@, v # Null)]]
        Pushed(read) ==
          IF read.state # "done" THEN [err |-> "UnparsableValue", subst |-> FALSE, builder |-> b]
          ELSE Entered(AppendElements(b.element, read.elements), Len(read.elements))
    IN  Pushed(IF v = Null THEN [state |-> "done", elements |-> <<>>] ELSE parse_array_elements(v))

AppendValue(b, v) == IF b.kind = "List" THEN AppendList(b, v) ELSE AppendScalar(b, v)

(* What finish makes of a builder: an array of this type, with this value  *)
(* in row r; the builder starts over.                                      *)
ArrayType(b) ==
    LET scalar == IF b.kind = "List" THEN b.element ELSE b
        type == CASE scalar.kind = "Int" -> [arrow |-> CASE scalar.width = "smallint" -> "Int16"
                                                         [] scalar.width = "integer" -> "Int32"
                                                         [] scalar.width = "bigint" -> "Int64"]
                  [] scalar.kind = "Float" -> [arrow |-> IF scalar.width = "real" THEN "Float32" ELSE "Float64"]
                  [] scalar.kind = "Decimal" -> Decimal128(scalar.precision, scalar.scale)
                  [] scalar.kind = "Timestamp" -> [arrow |-> "Timestamp(UTC)"]
                  [] scalar.kind = "Date" -> [arrow |-> "Date32"]
                  [] scalar.kind = "Time" -> [arrow |-> "Time64"]
                  [] OTHER -> [arrow |-> scalar.kind]
    IN  IF b.kind = "List" THEN ListOf(type) ELSE type

Entries(b) == IF b.kind = "List" THEN Len(b.validity) ELSE Len(b.vals)

Entry(b, r) == IF b.kind # "List" THEN b.vals[r]
               ELSE IF b.validity[r] THEN [list |-> SubSeq(b.element.vals, b.offsets[r] + 1, b.offsets[r + 1])] ELSE Null

FinishBuilder(b) ==
    IF b.kind = "List" THEN NewList([b.element EXCEPT !.vals = <<>>]) ELSE [b EXCEPT !.vals = <<>>]
=============================================================================
