------------------------------ MODULE PgTypes ------------------------------
(***************************************************************************)
(* src/types.rs: the text of a column's type, as tokens, and the type it   *)
(* resolves to.  A type never fails to resolve: what is not known is text. *)
(***************************************************************************)
EXTENDS Texts

CONSTANT NumberOf    \* the words that are numbers, and their values

(* An integer of lo..hi, or Null: a number that does not fit is discarded. *)
ParseNumber(text, lo, hi) ==
    LET word == Trim(text, {" "})
    IN  IF Len(word) = 1 /\ word[1] \in DOMAIN NumberOf /\ NumberOf[word[1]] \in lo..hi
        THEN NumberOf[word[1]] ELSE Null

-----------------------------------------------------------------------------
MAX_DECIMAL_PRECISION == 38
WIDE_NUMERIC_PRECISION == MAX_DECIMAL_PRECISION
WIDE_NUMERIC_SCALE == 18

(* Arrow holds 1 <= precision <= 38 and 0 <= scale <= precision.           *)
decimal_fits(precision, scale) ==
    /\ precision # Null /\ precision \in 1..MAX_DECIMAL_PRECISION
    /\ scale # Null => scale \in 0..precision

numeric_too_wide(precision) == precision = Null \/ precision > MAX_DECIMAL_PRECISION

is_textual(rt) == \/ rt.dims > 0 \/ rt.pg.type = "text"
                  \/ rt.pg.type = "numeric" /\ ~decimal_fits(rt.pg.precision, rt.pg.scale)

-----------------------------------------------------------------------------
(* Removes the suffixes [] and [3], and counts them.                       *)
strip_array_suffix(s) ==
    LET IsSize(size) == \A i \in DOMAIN size : size[i] \in DOMAIN NumberOf /\ NumberOf[size[i]] >= 0
        IsArray(text, open) == /\ text # <<>> /\ Last(text) = "]" /\ open # 0
                               /\ IsSize(SubSeq(text, open + 1, Len(text) - 1))
        strip[e \in 0..Len(s)] ==
          LET Base(text, open) == IF IsArray(text, open)
                                  THEN [strip[open - 1] EXCEPT !.dims = Min({@ + 1, 255})]
                                  ELSE [base |-> text, dims |-> 0]
              Of(text) == Base(text, LastOf(text, {"["}))
          IN  Of(TrimEnd(SubSeq(s, 1, e), {" "}))
    IN  strip[Len(s)]

(* Takes the first parenthesised list out of the name.                     *)
split_params(s) ==
    LET open == First(s, {"("})
        close == SelectInSubSeq(s, open + 1, Len(s), LAMBDA c : c = ")")
    IN  IF open = 0 \/ close = 0 THEN [name |-> s, params |-> <<>>]
        ELSE [name |-> Before(s, open) \o <<" ">> \o After(s, close), params |-> SubSeq(s, open + 1, close - 1)]

normalise(s) == FoldLeft(LAMBDA out, w : IF w = " " /\ Last(out) = " " THEN out ELSE Append(out, Lowered(w)),
                         <<>>, Trim(s, {" "}))

(* A precision without a scale has scale zero.                             *)
numeric_params(params) ==
    LET parts == SplitN(params, 3, ",")
        precision == ParseNumber(parts[1], 0, 255)
        scale == IF Len(parts) > 1 THEN ParseNumber(parts[2], -128, 127) ELSE Null
    IN  IF precision = Null THEN [type |-> "numeric", precision |-> Null, scale |-> Null]
        ELSE [type |-> "numeric", precision |-> precision, scale |-> IF scale = Null THEN 0 ELSE scale]

-----------------------------------------------------------------------------
Word(S) == {<<w>> : w \in S}
TimeZone(kind) == <<" ", kind, " ", "time", " ", "zone">>

TEXTUAL == Word({"text", "varchar", "character", "char", "bpchar", "name", "uuid", "json", "jsonb", "xml",
                 "inet", "cidr", "macaddr", "macaddr8", "interval", "money", "bit", "varbit", "tsvector",
                 "tsquery", "point", "line", "lseg", "box", "path", "polygon", "circle", "int4range",
                 "int8range", "numrange", "tsrange", "tstzrange", "daterange"})
             \cup {<<"character", " ", "varying">>, <<"bit", " ", "varying">>}

PgType(name, params) ==
    CASE name \in Word({"smallint", "int2", "smallserial", "serial2"}) -> [type |-> "smallint"]
      [] name \in Word({"integer", "int", "int4", "serial", "serial4"}) -> [type |-> "integer"]
      [] name \in Word({"bigint", "int8", "bigserial", "serial8"}) -> [type |-> "bigint"]
      [] name \in Word({"real", "float4"}) -> [type |-> "real"]
      [] name \in Word({"float8"}) \cup {<<"double", " ", "precision">>} -> [type |-> "double"]
      [] name \in Word({"numeric", "decimal"}) -> numeric_params(params)
      [] name \in Word({"boolean", "bool"}) -> [type |-> "boolean"]
      [] name = <<"date">> -> [type |-> "date"]
      [] name \in {<<"timestamp">>, <<"timestamp">> \o TimeZone("without")} -> [type |-> "timestamp", tz |-> FALSE]
      [] name \in {<<"timestamptz">>, <<"timestamp">> \o TimeZone("with")} -> [type |-> "timestamp", tz |-> TRUE]
      [] name \in {<<"time">>, <<"time">> \o TimeZone("without")} -> [type |-> "time", tz |-> FALSE]
      [] name \in {<<"timetz">>, <<"time">> \o TimeZone("with")} -> [type |-> "time", tz |-> TRUE]
      [] name = <<"bytea">> -> [type |-> "bytea"]
      [] OTHER -> [type |-> "text"]

resolve(sql_type) ==
    LET Type(pg, name, dims) == [pg |-> pg, dims |-> dims, recognised |-> pg.type # "text" \/ name \in TEXTUAL]
        Named(name, params, dims) == Type(PgType(name, params), name, dims)
        Split(split, dims) == Named(normalise(split.name), split.params, dims)
        Of(array) == Split(split_params(array.base), array.dims)
    IN  Of(strip_array_suffix(Trim(sql_type, {" "})))
=============================================================================
