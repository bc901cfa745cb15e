---------------------------- MODULE MCRowDecode ----------------------------
(***************************************************************************)
(* Instances of RowDecode: tables, values and rows as pg_dump writes them, *)
(* and some it never writes.  The text of a value is printed here from the *)
(* value, by PostgreSQL's rules; RowDecode has to read the value back.     *)
(***************************************************************************)
EXTENDS RowDecode

LowerCase == ("CREATE" :> "create") @@ ("UNLOGGED" :> "unlogged") @@ ("TABLE" :> "table") @@ ("COPY" :> "copy")
               @@ ("DEFAULT" :> "default") @@ ("NOT" :> "not") @@ ("NULL" :> "null") @@ ("CHECK" :> "check")
               @@ ("COLLATE" :> "collate") @@ ("GENERATED" :> "generated") @@ ("CONSTRAINT" :> "constraint")

NumberWords == ("0" :> 0) @@ ("2" :> 2) @@ ("3" :> 3) @@ ("5" :> 5) @@ ("18" :> 18) @@ ("38" :> 38)
                 @@ ("39" :> 39) @@ ("-2" :> -2)

-----------------------------------------------------------------------------
(***************************************************************************)
(* Statements.  A column is its name, its type and what follows the type;  *)
(* pg_dump quotes a name unless it is one plain lower-case word.           *)
(***************************************************************************)
Plain == {"t", "u", "v", "z", "public", "audit", "exclude", "_pgdelta_loads"}
Ident(name) ==
    IF Len(name) = 1 /\ name[1] \in Plain THEN name
    ELSE <<"\"">> \o FlattenSeq([i \in DOMAIN name |-> IF name[i] = "\"" THEN <<"\"", "\"">> ELSE <<name[i]>>])
                  \o <<"\"">>
Listed(items) == FlattenSeq([i \in DOMAIN items |-> IF i = 1 THEN items[i] ELSE <<",", " ">> \o items[i]])
TableIdent(t) == IF t.schema = Null THEN Ident(t.table) ELSE Ident(t.schema) \o <<".">> \o Ident(t.table)

Column(name, type, tail) == [name |-> name, type |-> type, tail |-> tail]
Create(kind, t, cols_, constraints, storage) ==
    kind \o TableIdent(t) \o <<" ", "(", " ">>
      \o Listed([i \in DOMAIN cols_ |-> Ident(cols_[i].name) \o <<" ">> \o cols_[i].type \o cols_[i].tail] \o constraints)
      \o <<" ", ")">> \o storage
Logged == <<"CREATE", " ", "TABLE", " ">>
NotLogged == <<"CREATE", " ", "UNLOGGED", " ", "TABLE", " ">>
CopyHeader(t, cols_) ==
    <<"COPY", " ">> \o TableIdent(t) \o <<" ", "(">> \o Listed([i \in DOMAIN cols_ |-> Ident(cols_[i].name)])
      \o <<")", " ", "FROM", " ", "stdin">>

In(schema_, name) == [schema |-> schema_, table |-> name]
PublicT == In(<<"public">>, <<"t">>)
Declares(cols_) == [i \in DOMAIN cols_ |-> [name |-> cols_[i].name, sql_type |-> cols_[i].type]]

Load(creates, copy, outcome, declared) ==
    [creates |-> creates, copy |-> copy, rows |-> <<>>, wide |-> FALSE, native |-> FALSE,
     tables |-> Null, excluded |-> {<<"audit">>}, manifest |-> TRUE, outcome |-> outcome, declares |-> Declares(declared)]

-----------------------------------------------------------------------------
(***************************************************************************)
(* Tables: names, types, tails and clauses, in all combinations            *)
(***************************************************************************)
Names == { <<"v">>, <<"V">>, <<"v", ",", "(">>, <<"v", "\"", "\"">>, <<"not", " ", "null", ".">>, <<"check">> }
Types == { <<"integer">>, <<"numeric", "(", "5", ",", "2", ")">>, <<"character", " ", "varying", "(", "5", ")">>,
           <<"timestamp", "(", "3", ")", " ", "without", " ", "time", " ", "zone">>, <<"text", "[", "]">>,
           <<"public", ".", "\"", "v", " ", "u", "\"">> }
NotNull == <<" ", "NOT", " ", "NULL">>
Tails == { <<>>, NotNull, <<" ", "COLLATE", " ", "pg_catalog", ".", "\"", "C", "\"">>,
           <<" ", "DEFAULT", " ", "nextval", "(", "'", "public", ".", "s", "'", "::regclass", ")">> \o NotNull,
           <<" ", "DEFAULT", " ", "0">>,
           <<" ", "CONSTRAINT", " ", "c", " ", "CHECK", " ", "(", "(", "v", " ", ">", " ", "0", ")", ")">> }
Clauses == { [constraints |-> <<>>, storage |-> <<>>],
             [constraints |-> << <<"CONSTRAINT", " ", "c", " ", "CHECK", " ", "(", "(", "(", "v", " ", ">", " ", "0", ")",
                                   " ", "AND", " ", "f", "(", "v", ",", " ", "z", ")", ")", ")">> >>,
              storage |-> <<" ", "WITH", " ", "(", "fillfactor", "=", "'", "70", "'", ")">>],
             [constraints |-> <<>>, storage |-> <<" ", "PARTITION", " ", "BY", " ", "RANGE", " ", "(", "z", ")">>] }

Z == Column(<<"z">>, <<"text">>, <<>>)
Generated == Column(<<"u">>, <<"integer">>, <<" ", "GENERATED", " ", "ALWAYS", " ", "AS", " ",
                                              "(", "(", "v", " ", "+", " ", "5", ")", ")", " ", "STORED">>)

(* The header leaves the generated column out; it may list the others in   *)
(* another order than the statement.                                       *)
TableLoads ==
    {LET c == Column(n, t, tail) IN
     Load(<<Create(Logged, PublicT, <<c, Generated, Z>>, k.constraints, k.storage)>>,
          CopyHeader(PublicT, IF order THEN <<c, Z>> ELSE <<Z, c>>), "loads", IF order THEN <<c, Z>> ELSE <<Z, c>>)
       : n \in Names, t \in Types, tail \in Tails, k \in Clauses, order \in BOOLEAN}

(* Tables that are filtered, missing, unsafe, or share their joined name;  *)
(* and one with a column whose name is no reserved word, so that pg_dump   *)
(* does not quote it, but the word of a constraint.                        *)
V == Column(<<"v">>, <<"integer">>, <<>>)
Audit == In(<<"audit">>, <<"t">>)
Dotted == In(<<"public">>, <<"t", ".", "u">>)
Other == In(<<"public", ".", "t">>, <<"u">>)
Bare == In(Null, <<"t">>)
Joined == In(Null, <<"public", ".", "t">>)
VText == Column(<<"v">>, <<"text">>, <<>>)
Exclude == Column(<<"exclude">>, <<"integer">>, <<>>)
Reserved == In(Null, <<"_pgdelta_loads">>)
CreateOf(t, cols_) == Create(Logged, t, cols_, <<>>, <<>>)

NameLoads ==
    { Load(<<CreateOf(Audit, <<V>>), CreateOf(PublicT, <<Z>>)>>, CopyHeader(Audit, <<V>>), "skipped", <<>>),
      Load(<<CreateOf(Audit, <<V>>), CreateOf(PublicT, <<Z>>)>>, CopyHeader(PublicT, <<Z>>), "loads", <<Z>>),
      [Load(<<CreateOf(Audit, <<V>>)>>, CopyHeader(Audit, <<V>>), "skipped", <<>>) EXCEPT !.tables = {qualified(Audit)}],
      [Load(<<CreateOf(PublicT, <<V>>)>>, CopyHeader(PublicT, <<V>>), "skipped", <<>>) EXCEPT !.tables = {qualified(Bare)}],
      [Load(<<CreateOf(PublicT, <<V>>)>>, CopyHeader(PublicT, <<V>>), "loads", <<V>>) EXCEPT !.tables = {qualified(PublicT)}],
      Load(<<CreateOf(Bare, <<V>>), CreateOf(PublicT, <<Z>>)>>, CopyHeader(Bare, <<V>>), "loads", <<V>>),
      Load(<<Create(NotLogged, PublicT, <<V>>, <<>>, <<>>)>>, CopyHeader(PublicT, <<V>>), "loads", <<V>>),
      Load(<<CreateOf(Reserved, <<V>>)>>, CopyHeader(Reserved, <<V>>), "refused", <<>>),
      [Load(<<CreateOf(Reserved, <<V>>)>>, CopyHeader(Reserved, <<V>>), "loads", <<V>>) EXCEPT !.manifest = FALSE],
      Load(<<CreateOf(PublicT, <<V>>)>>, CopyHeader(Bare, <<V>>), "refused", <<>>),
      Load(<<CreateOf(PublicT, <<V>>)>>, CopyHeader(PublicT, <<Z>>), "refused", <<>>),
      Load(<<CreateOf(PublicT, <<V>>)>>, <<"COPY", " ", "(">>, "refused", <<>>),
      Load(<<Logged \o <<"t">> >>, CopyHeader(Bare, <<V>>), "refused", <<>>),
      Load(<<CreateOf(PublicT, <<Exclude, Z>>)>>, CopyHeader(PublicT, <<Exclude, Z>>), "refused", <<>>),
      Load(<<CreateOf(Joined, <<VText>>), CreateOf(PublicT, <<V>>)>>, CopyHeader(Joined, <<VText>>), "loads", <<V>>),
      Load(<<CreateOf(Joined, <<Z>>), CreateOf(PublicT, <<V>>)>>, CopyHeader(PublicT, <<V>>), "loads", <<V>>),
      Load(<<CreateOf(Joined, <<Z>>), CreateOf(PublicT, <<V>>)>>, CopyHeader(Joined, <<Z>>), "refused", <<>>) }
    \cup {Load(<<CreateOf(PublicT, <<V>>), CreateOf(Joined, <<c>>)>>, CopyHeader(t, <<V>>), "refused", <<>>)
            : t \in {PublicT, Joined}, c \in {VText, Z}}
    \cup {Load(<<CreateOf(Dotted, <<V>>), CreateOf(Other, <<Z>>)>>, CopyHeader(t, <<c>>), "refused", <<>>)
            : t \in {Dotted, Other}, c \in {V, Z}}
    \cup {Load(<<CreateOf(In(<<"public">>, n), <<V>>)>>, CopyHeader(In(<<"public">>, n), <<V>>), "refused", <<>>)
            : n \in {<<>>, <<" ", "t">>, <<"t", " ">>, <<".", ".">>, <<"t", "/", "u">>}}

(* For the claim that does not hold: string literals in a definition, with *)
(* characters that mean something outside of a literal.                    *)
Literal(c) == <<" ", "DEFAULT", " ", "'", c, "'", "::text">> \o NotNull
LiteralLoads ==
    {LET c == Column(<<"v">>, <<"text">>, Literal(x)) IN
     Load(<<CreateOf(PublicT, <<c, Z>>)>>, CopyHeader(PublicT, <<c, Z>>), "loads", <<c, Z>>)
       : x \in {"(", ")", ",", "\"", "v"}}

-----------------------------------------------------------------------------
(***************************************************************************)
(* Rows: the text of the values, COPY's escapes, and the values            *)
(***************************************************************************)
Doubled(v, S) == FlattenSeq([i \in DOMAIN v |-> IF v[i] \in S THEN <<Backslash, v[i]>> ELSE <<v[i]>>])
Field(v) == IF v = Null THEN NullMarker ELSE Doubled(v, {Backslash})

RowOf(v, ok, stored, subst) == [raw |-> Field(v), ok |-> ok, stored |-> <<stored>>, subst |-> <<subst>>]
Reads(v, stored) == RowOf(v, TRUE, stored, FALSE)
ReadsNull(v) == RowOf(v, TRUE, Null, TRUE)
ReadsText(v) == Reads(v, [text |-> v])
Refused(v) == RowOf(v, FALSE, Null, FALSE)

(* What PostgreSQL writes and the code refuses; what it never writes and   *)
(* the code reads.                                                         *)
Unread(v) == Refused(v)
Lenient(v, stored) == Reads(v, stored)

(* A load of these rows into the one column of a table, of this type.      *)
Of(type, block) ==
    LET c == Column(<<"v">>, type, <<>>)
    IN  [Load(<<CreateOf(PublicT, <<c>>)>>, CopyHeader(PublicT, <<c>>), "loads", <<c>>) EXCEPT !.rows = block]
OneByOne(type, S) == {Of(type, <<r>>) : r \in S \cup {Reads(Null, Null)}}
Wide(L) == {[l EXCEPT !.wide = TRUE] : l \in L}
NativeArrays(L) == {[l EXCEPT !.native = TRUE] : l \in L}

Digit(n) == [i \in DOMAIN n |-> 48 + n[i]]
Padded(n, width) == [i \in 1..width |-> 48 + ((n \div (10 ^ (width - i))) % 10)]
Text(n) == LET width == CHOOSE w \in 1..9 : n < 10 ^ w /\ (w = 1 \/ n >= 10 ^ (w - 1)) IN Padded(n, width)
Number10(neg, digits) == [neg |-> neg, digits |-> digits]

-----------------------------------------------------------------------------
(* Integers, at the ends of each width.                                    *)
MaxOf == [smallint |-> Digit(<<3, 2, 7, 6, 7>>), integer |-> Digit(<<2, 1, 4, 7, 4, 8, 3, 6, 4, 7>>),
          bigint |-> Digit(<<9, 2, 2, 3, 3, 7, 2, 0, 3, 6, 8, 5, 4, 7, 7, 5, 8, 0, 7>>)]
BeyondOf == [smallint |-> Digit(<<3, 2, 7, 6, 8>>), integer |-> Digit(<<2, 1, 4, 7, 4, 8, 3, 6, 4, 8>>),
             bigint |-> Digit(<<9, 2, 2, 3, 3, 7, 2, 0, 3, 6, 8, 5, 4, 7, 7, 5, 8, 0, 8>>)]
IntegerLoads ==
    UNION {OneByOne(<<w>>, {Reads(Digit(<<0>>), Number10(FALSE, <<>>)), Reads(Digit(<<7>>), Number10(FALSE, Digit(<<7>>))),
                            Reads(MaxOf[w], Number10(FALSE, MaxOf[w])), Refused(BeyondOf[w]),
                            Reads(<<Minus>> \o BeyondOf[w], Number10(TRUE, BeyondOf[w])), Refused(<<>>), Refused(<<Minus>>),
                            Refused(<<Minus>> \o BeyondOf[w] \o Digit(<<0>>)), Refused(Digit(<<1>>) \o <<Dot>>)})
             : w \in {"smallint", "integer", "bigint"}}

FloatTexts == {NaN, FloatInfinity, <<Minus>> \o FloatInfinity, Digit(<<0>>), <<Minus, 49, Dot, 53>>,
               <<49, 101, Plus, 51, 48>>, <<49, Dot, 53, 101, Minus, 48, 55>>}
LenientFloats == {<<105, 110, 102>>, <<Minus, 73, 78, 70>>, <<Plus>> \o Infinity, <<Minus, 110, 97, 110>>}
OtherLoads ==
    UNION {OneByOne(t, {Reads(f, [float |-> f]) : f \in FloatTexts} \cup {Lenient(f, [float |-> f]) : f \in LenientFloats}
                         \cup {Refused(<<105, 110>>), Refused(<<>>), Refused(<<Dot>>), Refused(<<49, 101>>)})
             : t \in {<<"real">>, <<"double", " ", "precision">>}}
    \cup OneByOne(<<"boolean">>, {Reads(<<116>>, [bool |-> TRUE]), Reads(<<102>>, [bool |-> FALSE]), Refused(<<>>), Refused(<<49>>)})
    \cup UNION {OneByOne(t, {ReadsText(<<49>>), ReadsText(<<>>), Refused(<<195>>)})
                  : t \in {<<"text">>, <<"uuid">>, <<"public", ".", "u">>, <<"integer", "[", "]", "[", "]">>,
                           <<"numeric", "(", "5", ",", "-2", ")">>}}

-----------------------------------------------------------------------------
(* Decimals: digits before and after the point, for a precision and scale. *)
Decimal(i, f) == IF f = <<>> THEN i ELSE i \o <<Dot>> \o f
Nines(n) == [k \in 1..n |-> 57]
Zeros(n) == [k \in 1..n |-> 48]
Numeric(p, s) == <<"numeric", "(", p, ",", s, ")">>
Signs(i, f, stored) == {Reads(Decimal(i, f), Number10(FALSE, stored)),
                        Reads(<<Minus>> \o Decimal(i, f), Number10(stored # <<>>, stored))}
DecimalRows(p, s) ==
    Signs(Nines(p - s), Nines(s), Nines(p)) \cup Signs(Digit(<<0>>), Zeros(s), <<>>)
      \cup (IF s = 0 THEN {} ELSE Signs(Digit(<<0>>), Zeros(s - 1) \o Nines(1), Nines(1)))
      \cup {ReadsNull(NaN), Refused(<<49>> \o Decimal(Zeros(p - s), Zeros(s))), Refused(<<>>), Refused(<<Minus>>),
            Refused(Decimal(<<49>>, Zeros(s) \o <<49>>)), Refused(<<49, 101, 53>>)}

(* Wider than any decimal: kept as text, or, if asked for, as the widest.  *)
WideTypes == {<<"numeric">>, Numeric("39", "2")}
Shortened(f) == Reads(Decimal(<<49>>, f), Number10(FALSE, <<49>> \o f \o Zeros(18 - Len(f))))
DecimalLoads ==
    OneByOne(Numeric("5", "2"), DecimalRows(5, 2)) \cup OneByOne(<<"numeric", "(", "3", ")">>, DecimalRows(3, 0))
      \cup OneByOne(Numeric("38", "38"), DecimalRows(38, 38) \ {Refused(<<49>> \o Decimal(<<>>, Zeros(38)))})
      \cup UNION {OneByOne(t, {ReadsText(v) : v \in {NaN, Decimal(<<49>>, <<53>>), Nines(39)}}) : t \in WideTypes}
      \cup Wide(UNION {OneByOne(t, DecimalRows(38, 18) \cup {Shortened(<<>>), Shortened(<<53>>)}
                                     \cup {Reads(Decimal(<<49>>, Zeros(19)), Number10(FALSE, <<49>> \o Zeros(18)))})
                         : t \in WideTypes})
      \cup Wide(OneByOne(Numeric("5", "-2"), {ReadsText(<<49>>)}) \cup OneByOne(Numeric("5", "2"), DecimalRows(5, 2)))

-----------------------------------------------------------------------------
(* Dates, by a calendar of its own: whole years since 1 January of year 1, *)
(* then the days of the months before.  Year 0 is 1 BC.                    *)
Leap(y) == y % 4 = 0 /\ (y % 100 # 0 \/ y % 400 = 0)
MonthDays(y) == <<31, IF Leap(y) THEN 29 ELSE 28, 31, 30, 31, 30, 31, 31, 30, 31, 30, 31>>
DaysBefore(y, m) == FoldLeft(+, 0, SubSeq(MonthDays(y), 1, m - 1))
DayOf(y, m, d) == 365 * (y - 1) + (y - 1) \div 4 - (y - 1) \div 100 + (y - 1) \div 400
                    + DaysBefore(y, m) + d - 1 - 719162

BC == <<32, 66, 67>>
YearText(n) == IF n < 10000 THEN Padded(n, 4) ELSE Text(n)
DateText(y, m, d) == YearText(IF y > 0 THEN y ELSE 1 - y) \o <<Minus>> \o Padded(m, 2) \o <<Minus>> \o Padded(d, 2)
Era(y) == IF y > 0 THEN <<>> ELSE BC

Years == {-4712, -400, -100, -4, -1, 0, 1, 4, 1582, 1900, 1969, 1970, 2000, 2023, 2024, 2100, 9999, 10000, 5874897}
DatesOf(y) == {<<y, 1, 1>>, <<y, 3, 1>>, <<y, 12, 31>>, <<y, 2, MonthDays(y)[2]>>}
Dates == UNION {DatesOf(y) : y \in Years} \cup {<<-4713, 11, 24>>}
DateLoads ==
    OneByOne(<<"date">>, {Reads(DateText(x[1], x[2], x[3]) \o Era(x[1]), [day |-> DayOf(x[1], x[2], x[3])]) : x \in Dates}
                           \cup {ReadsNull(Infinity), ReadsNull(<<Minus>> \o Infinity), Refused(<<>>), Refused(<<50>>),
                                 Refused(DateText(2000, 13, 1)), Refused(DateText(2000, 0, 1)), Refused(DateText(2000, 1, 32)),
                                 Refused(DateText(2000, 1, 1) \o <<50>>)})

-----------------------------------------------------------------------------
(* Times, and timestamps with an offset from UTC (in seconds).  PostgreSQL *)
(* writes as much of the fraction and of the offset as is not zero.        *)
Fraction(f) == IF f = 0 THEN <<>> ELSE <<Dot>> \o TrimEnd(Padded(f, 6), {48})
TimeText(s, f) == Padded(s \div 3600, 2) \o <<Colon>> \o Padded((s \div 60) % 60, 2) \o <<Colon>> \o Padded(s % 60, 2)
                    \o Fraction(f)
OffsetText(o) ==
    LET a == IF o < 0 THEN -o ELSE o
    IN  <<IF o < 0 THEN Minus ELSE Plus>> \o Padded(a \div 3600, 2)
          \o (IF a % 3600 = 0 THEN <<>> ELSE <<Colon>> \o Padded((a \div 60) % 60, 2))
          \o (IF a % 60 = 0 THEN <<>> ELSE <<Colon>> \o Padded(a % 60, 2))
Times == { <<0, 0>>, <<0, 1>>, <<45296, 500000>>, <<86399, 999999>> }
Offsets == {0, 3600, -18000, 19800, -12600, 1172, -53999}

UtcTime(s, f, o) == [sec |-> (s - o + 86400) % 86400, frac |-> f]
UtcStamp(day, s, f, o) ==
    CASE s - o < 0 -> [day |-> day - 1, sec |-> s - o + 86400, frac |-> f]
      [] s - o \in 0..86399 -> [day |-> day, sec |-> s - o, frac |-> f]
      [] s - o > 86399 -> [day |-> day + 1, sec |-> s - o - 86400, frac |-> f]

StampText(x, t, offset) == DateText(x[1], x[2], x[3]) \o <<32>> \o TimeText(t[1], t[2]) \o offset \o Era(x[1])
Stamp(x, t, o) == UtcStamp(DayOf(x[1], x[2], x[3]), t[1], t[2], o)
StampDates == { <<-4712, 1, 1>>, <<0, 2, 29>>, <<1, 1, 1>>, <<1969, 12, 31>>, <<2000, 3, 1>>, <<12345, 6, 7>> }

(* The last microsecond that an i64 counts, and the one after it, which    *)
(* PostgreSQL's timestamps reach.                                          *)
LastStamp == <<294247, 1, 10>>
StampLoads ==
    OneByOne(<<"timestamp", " ", "without", " ", "time", " ", "zone">>,
             {Reads(StampText(x, t, <<>>), Stamp(x, t, 0)) : x \in StampDates, t \in Times}
               \cup {ReadsNull(Infinity), ReadsNull(<<Minus>> \o Infinity), Refused(<<>>), Refused(Digit(<<1>>)),
                     Reads(StampText(LastStamp, <<14454, 775807>>, <<>>), Stamp(LastStamp, <<14454, 775807>>, 0)),
                     Unread(StampText(LastStamp, <<14454, 775808>>, <<>>)),
                     Refused(StampText(<<2000, 1, 1>>, <<90000, 0>>, <<>>))})
    \cup OneByOne(<<"timestamp", "(", "3", ")", " ", "with", " ", "time", " ", "zone">>,
             {Reads(StampText(x, t, OffsetText(o)), Stamp(x, t, o)) : x \in StampDates, t \in Times, o \in Offsets}
               \cup {ReadsNull(Infinity), ReadsNull(<<Minus>> \o Infinity)})
    \cup OneByOne(<<"time", " ", "without", " ", "time", " ", "zone">>,
             {Reads(TimeText(t[1], t[2]), UtcTime(t[1], t[2], 0)) : t \in Times}
               \cup {Refused(<<>>), Refused(Digit(<<1, 2>>)), Refused(TimeText(90000, 0))})
    \cup OneByOne(<<"timetz">>, {Reads(TimeText(t[1], t[2]) \o OffsetText(o), UtcTime(t[1], t[2], o)) : t \in Times, o \in Offsets})

-----------------------------------------------------------------------------
(* bytea, in its two formats.                                              *)
Octal(n, width) == [d \in 1..width |-> 48 + ((n \div (8 ^ (width - d))) % 8)]
HexByte(d) == IF d < 10 THEN 48 + d ELSE 87 + d
Hex(v) == <<Backslash, 120>> \o FlattenSeq([i \in DOMAIN v |-> <<HexByte(v[i] \div 16), HexByte(v[i] % 16)>>])
Escaped(v) == FlattenSeq([i \in DOMAIN v |-> CASE v[i] = Backslash -> <<Backslash, Backslash>>
                                               [] v[i] \in 32..126 \ {Backslash} -> <<v[i]>>
                                               [] OTHER -> <<Backslash>> \o Octal(v[i], 3)])
Bytes == {<<>>} \cup {<<a>> : a \in {0, 49, 92, 120, 127, 255}} \cup {<<a, b>> : a \in {0, 92, 255}, b \in {49, 92, 120}}
BinaryLoads ==
    OneByOne(<<"bytea">>, {Reads(Hex(v), [bytes |-> v]) : v \in Bytes} \cup {Reads(Escaped(v), [bytes |-> v]) : v \in Bytes}
                            \cup {Refused(<<Backslash, 120, 49>>), Refused(<<Backslash, 120, 49, 103>>), Refused(<<Backslash>>),
                                  Refused(<<Backslash, 49, 50>>), Refused(<<Backslash, 52, 48, 48>>)})

-----------------------------------------------------------------------------
(* Arrays, as array_out writes them.                                       *)
Specials == {Quote, Backslash, OpenBrace, CloseBrace, Comma, 32}
Element(e) == IF e = Null THEN NullWord
              ELSE IF e \in {<<>>, NullWord} \/ \E i \in DOMAIN e : e[i] \in Specials
                   THEN <<Quote>> \o Doubled(e, {Quote, Backslash}) \o <<Quote>> ELSE e
ArrayText(list) == IF list = Null THEN Null
                   ELSE <<OpenBrace>> \o FlattenSeq([i \in DOMAIN list |-> IF i = 1 THEN Element(list[i])
                                                                           ELSE <<Comma>> \o Element(list[i])])
                          \o <<CloseBrace>>
Elements == {Null, <<>>, <<97>>, NullWord, <<Quote>>, <<Backslash, 97>>, <<Comma>>, <<CloseBrace>>, <<32, 97>>}
Lists == {Null, <<>>} \cup {<<e>> : e \in Elements} \cup {<<e, f>> : e \in Elements, f \in Elements}
ReadsList(list, stored) == Reads(ArrayText(list), IF list = Null THEN Null ELSE [list |-> stored])
ReadsTexts(list) == ReadsList(list, IF list = Null THEN Null
                                    ELSE [i \in DOMAIN list |-> IF list[i] = Null THEN Null ELSE [text |-> list[i]]])
ListType(t) == t \o <<"[", "]">>
FewLists == {Null, <<>>, <<Null, <<97>> >>, << <<>>, <<97>> >>}

(* Element types whose lists are read, an element that becomes NULL, and   *)
(* literals that no list of one dimension has; one of two dimensions, that *)
(* a column declared with one may hold.                                    *)
ListLoads ==
    NativeArrays(OneByOne(ListType(<<"text">>), {ReadsTexts(l) : l \in Lists})
      \cup {Of(ListType(<<"text">>), <<ReadsTexts(l1), ReadsTexts(l2), ReadsTexts(l3)>>)
              : l1 \in FewLists, l2 \in FewLists, l3 \in FewLists}
      \cup OneByOne(ListType(<<"integer">>),
                    {ReadsList(<< <<55>>, Null >>, <<Number10(FALSE, <<55>>), Null>>),
                     Refused(ArrayText(<< <<97>> >>)), Refused(<<OpenBrace>>), Refused(<<OpenBrace, Quote, CloseBrace>>),
                     Unread(<<OpenBrace, OpenBrace, 49, CloseBrace, CloseBrace>>),
                     Refused(<<OpenBrace, 49, 32, 49, CloseBrace>>), Refused(<<55>>)})
      \cup OneByOne(ListType(<<"date">>),
                    {[ReadsList(<<Infinity, DateText(1970, 1, 2)>>, <<Null, [day |-> 1]>>) EXCEPT !.subst = <<TRUE>>]})
      \cup OneByOne(ListType(Numeric("5", "2")),
                    {ReadsList(<<Decimal(<<55>>, <<53, 48>>)>>, <<Number10(FALSE, <<55, 53, 48>>)>>)})
      \cup UNION {OneByOne(t, {ReadsText(ArrayText(<< <<49>> >>))})
                    : t \in {ListType(<<"numeric">>), ListType(<<"public", ".", "u">>), ListType(Numeric("5", "-2")),
                             ListType(ListType(<<"integer">>))}})
    \cup OneByOne(<<"integer", "[", "3", "]">>, {ReadsText(ArrayText(<< <<49>> >>))})
    \cup Wide(NativeArrays(OneByOne(ListType(<<"numeric">>),
                    {ReadsList(<< <<49>> >>, <<Number10(FALSE, <<49>> \o Zeros(18))>>),
                     [ReadsList(<<NaN>>, <<Null>>) EXCEPT !.subst = <<TRUE>>]})))

-----------------------------------------------------------------------------
(***************************************************************************)
(* Rows of two columns, text and numeric(3,0), under COPY's escapes.  The  *)
(* forms in which a byte may stand in a field, in front of `rest`: itself, *)
(* a named escape, octal of three digits (also with a ninth bit) or as few *)
(* as needed, hexadecimal, or backslashed.                                 *)
(***************************************************************************)
StartsIn(rest, S) == rest # <<>> /\ Head(rest) \in S
Forms(v, rest) ==
    {<<x>> : x \in {v} \ {Tab, Newline, Backslash}}
    \cup {<<Backslash, n>> : n \in {x \in DOMAIN Named : Named[x] = v}}
    \cup {<<Backslash>> \o Octal(v, 3), <<Backslash>> \o Octal(v + 256, 3)}
    \cup {<<Backslash>> \o Octal(v, w) : w \in {x \in 1..2 : v < (8 ^ x) /\ ~StartsIn(rest, OctalDigits)}}
    \cup {<<Backslash, 120, HexByte(v \div 16), HexByte(v % 16)>>}
    \cup {<<Backslash, 120, HexByte(d)>> : d \in {x \in {v} : x < 16 /\ ~StartsIn(rest, HexDigits)}}
    \cup {<<Backslash, x>> : x \in {v} \ (DOMAIN Named \cup OctalDigits \cup {Tab, Newline, 120})}

Encodings(v) ==
    LET from[i \in 1..(Len(v) + 1)] ==
          IF i > Len(v) THEN {<<>>}
          ELSE UNION {{form \o rest : form \in Forms(v[i], rest)} : rest \in from[i + 1]}
    IN  from[1] \ {NullMarker}

(* number: digits, Null, or NaN.                                           *)
Row(text, raw, number) ==
    [ok |-> TRUE, raw |-> raw \o <<Tab>> \o Field(number), subst |-> <<FALSE, number = NaN>>,
     stored |-> <<IF text = Null THEN Null ELSE [text |-> text], IF number \in {Null, NaN} THEN Null ELSE Number10(FALSE, number)>>]

(* "a", "1", "N", a tab, a newline, a backslash.                           *)
Alphabet == {97, 49, 78, 9, 10, 92}
Strings == {<<>>} \cup {<<a>> : a \in Alphabet} \cup {<<a, b>> : a \in Alphabet, b \in {49, 78, 92}}
EscapedRows == UNION {{Row(t, raw, Null) : raw \in Encodings(t)} : t \in Strings}

(* The longest field in the longest row that the limits let pass.          *)
As(n) == [i \in 1..n |-> 97]
FullRow == Row(As(MaxField), As(MaxField), Nines(3))

PlainRows == {Row(<<97, 97>>, <<97, 97>>, <<49>>), Row(Null, NullMarker, NaN), Row(<<>>, <<>>, Null)}

Broken(raw) == [ok |-> FALSE, stored |-> <<Null, Null>>, subst |-> <<FALSE, FALSE>>, raw |-> raw]

(* Truncated and bad escapes, a byte that is no UTF-8, no number, too few  *)
(* and too many fields, a field and a row that are too long.               *)
BadRows == { Broken(<<Backslash, Tab, 49>>), Broken(<<97, Tab, Backslash>>), Broken(<<Backslash, 120, 120, Tab, 49>>),
             Broken(<<Backslash, 51, 55, 55, Tab, 49>>), Broken(<<97, Tab, 97>>), Broken(<<97, Tab>>),
             Broken(<<97>>), Broken(<<>>), Broken(<<97, Tab, 49, Tab, 49>>), Broken(<<Tab, Tab, Tab>>),
             Broken(As(MaxField + 1) \o <<Tab, 49>>), Broken(As(MaxRow + 1)) }

RowLoads ==
    LET c == <<Column(<<"v">>, <<"text">>, <<>>), Column(<<"u">>, Numeric("3", "0"), <<>>)>>
        two == Load(<<CreateOf(PublicT, c)>>, CopyHeader(PublicT, c), "loads", c)
    IN  {[two EXCEPT !.rows = <<r>>] : r \in EscapedRows \cup {FullRow}}
          \cup {[two EXCEPT !.rows = <<r1, r2, r3>>] : r1 \in PlainRows, r2 \in PlainRows, r3 \in PlainRows \cup BadRows}

-----------------------------------------------------------------------------
AllLoads == TableLoads \cup NameLoads \cup IntegerLoads \cup OtherLoads \cup DecimalLoads \cup DateLoads
              \cup StampLoads \cup BinaryLoads \cup ListLoads \cup RowLoads
=============================================================================
