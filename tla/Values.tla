------------------------------- MODULE Values -------------------------------
(***************************************************************************)
(* src/values.rs: what the bytes of a field, its COPY escapes resolved,    *)
(* are as a value of the column's type.  A result is a value, NULL in      *)
(* place of a value the type cannot hold, or an error.                     *)
(*                                                                         *)
(* Values are kept in forms that lose nothing at any width: an integer as  *)
(* its sign and its digits without leading zeros, a time as seconds and    *)
(* microseconds, a timestamp (microseconds in an i64) as the day, the      *)
(* second of the day and the microsecond of the second.  A float is its    *)
(* text; rounding it is the standard library's business.                   *)
(***************************************************************************)
EXTENDS Texts

Some(v) == [err |-> "none", stored |-> v, subst |-> FALSE]
NotRepresentable == [err |-> "none", stored |-> Null, subst |-> TRUE]
Bad == [err |-> "UnparsableValue", stored |-> Null, subst |-> FALSE]

AsciiBlank == {9, 10, 12, 13, 32}
Blank == AsciiBlank \cup {11}
Digits == 48..57
Plus == 43
Comma == 44
Minus == 45
Dot == 46
Colon == 58
Quote == 34
Backslash == 92
OpenBrace == 123
CloseBrace == 125

NaN == <<78, 97, 78>>
NullWord == <<78, 85, 76, 76>>
Infinity == <<105, 110, 102, 105, 110, 105, 116, 121>>
FloatInfinity == <<73, 110, 102, 105, 110, 105, 116, 121>>
BcSuffix == <<32, 66, 67>>

AllDigits(s) == \A i \in DOMAIN s : s[i] \in Digits

(* Of UTF-8 only the single bytes are told apart from what is not UTF-8.   *)
IsUtf8(v) == \A i \in DOMAIN v : v[i] < 128

-----------------------------------------------------------------------------
(***************************************************************************)
(* Integers, floats and booleans                                           *)
(***************************************************************************)
Unpadded(digits) == TrimStart(digits, {48})

Signed(negative, digits) == [neg |-> negative /\ digits # <<>>, digits |-> digits]

AtMost(a, b) == \/ Len(a) < Len(b)
                \/ /\ Len(a) = Len(b)
                   /\ \A i \in DOMAIN a : a[i] > b[i] => \E j \in 1..(i - 1) : a[j] < b[j]

IsNegative(s) == s # <<>> /\ s[1] = Minus
Unsigned(s) == IF s # <<>> /\ s[1] \in {Plus, Minus} THEN Tail(s) ELSE s

(* The digits of the largest number of each width.                         *)
Largest == [smallint |-> <<51, 50, 55, 54, 55>>,
            integer  |-> <<50, 49, 52, 55, 52, 56, 51, 54, 52, 55>>,
            bigint   |-> <<57, 50, 50, 51, 51, 55, 50, 48, 51, 54, 56, 53, 52, 55, 55, 53, 56, 48, 55>>]

(* parse_i16, parse_i32, parse_i64: there is one more number below zero.   *)
parse_int(v, width) ==
    LET s == Trim(v, Blank)
        digits == Unpadded(Unsigned(s))
        most == Largest[width]
        limit == IF IsNegative(s) THEN [most EXCEPT ![Len(most)] = @ + 1] ELSE most
    IN  IF Unsigned(s) # <<>> /\ AllDigits(Unsigned(s)) /\ AtMost(digits, limit)
        THEN Some(Signed(IsNegative(s), digits)) ELSE Bad

(* What f32 and f64 read: digits with a point somewhere, and an exponent,  *)
(* or inf, infinity or nan in any case; each may have a sign.              *)
Folded(s) == [i \in DOMAIN s |-> IF s[i] \in 65..90 THEN s[i] + 32 ELSE s[i]]
FloatWords == {<<105, 110, 102>>, Infinity, <<110, 97, 110>>}

IsFloat(s) ==
    LET body == Unsigned(s)
        e == First(body, {69, 101})
        mantissa == IF e = 0 THEN body ELSE Before(body, e)
        exponent == Unsigned(After(body, e))
        dot == First(mantissa, {Dot})
        digits == IF dot = 0 THEN mantissa ELSE Before(mantissa, dot) \o After(mantissa, dot)
    IN  \/ Folded(body) \in FloatWords
        \/ /\ digits # <<>> /\ AllDigits(digits)
           /\ e # 0 => exponent # <<>> /\ AllDigits(exponent)

parse_float(v) ==
    LET s == Trim(v, Blank)
    IN  IF s \in {NaN, FloatInfinity, <<Minus>> \o FloatInfinity} \/ IsFloat(s) THEN Some([float |-> s]) ELSE Bad

parse_bool(v) == CASE v \in {<<116>>, <<84>>, <<116, 114, 117, 101>>} -> Some([bool |-> TRUE])
                   [] v \in {<<102>>, <<70>>, <<102, 97, 108, 115, 101>>} -> Some([bool |-> FALSE])
                   [] OTHER -> Bad

(***************************************************************************)
(* parse_decimal: the unscaled integer.  An i128 that overflows has more   *)
(* digits than any precision allows, and both are the same error.          *)
(***************************************************************************)
parse_decimal(v, precision, scale) ==
    LET s == Trim(v, Blank)
        digits == Unsigned(s)
        dot == First(digits, {Dot})
        int == IF dot = 0 THEN digits ELSE Before(digits, dot)
        frac == IF dot = 0 THEN <<>> ELSE After(digits, dot)
        keep == SubSeq(frac, 1, Min({Len(frac), scale}))
        drop == After(frac, Len(keep))
        padding == [i \in 1..(scale - Len(keep)) |-> 48]
        unscaled == Unpadded(int \o keep \o padding)
    IN  IF s = NaN THEN NotRepresentable
        ELSE IF \/ int \o frac = <<>> \/ ~AllDigits(int \o frac)
                \/ scale < 0
                \/ \E i \in DOMAIN drop : drop[i] # 48
                \/ Len(unscaled) > precision
             THEN Bad
        ELSE Some(Signed(IsNegative(s), unscaled))

-----------------------------------------------------------------------------
(***************************************************************************)
(* parse_array_elements: the elements of a one-dimensional array literal,  *)
(* each NULL or its bytes.  Of the text between the braces, i is the place *)
(* the loop is at; a literal that is none ends in the state "bad".         *)
(***************************************************************************)
(* The first place from i on that does not hold a byte of S.               *)
PastRun(text, i, S) == Min({j \in i..Len(text) : text[j] \notin S} \cup {Len(text) + 1})

(* One turn of the loop inside quotes.                                     *)
QuotedTurn(s, turn) ==
    CASE s.state # "open" -> s
      [] s.state = "open" /\ s.i > Len(s.text) -> [s EXCEPT !.state = "bad"]
      [] s.state = "open" /\ s.i <= Len(s.text) /\ s.text[s.i] = Quote -> [s EXCEPT !.state = "closed", !.i = @ + 1]
      [] s.state = "open" /\ s.i = Len(s.text) /\ s.text[s.i] = Backslash -> [s EXCEPT !.state = "bad"]
      [] s.state = "open" /\ s.i < Len(s.text) /\ s.text[s.i] = Backslash ->
           [s EXCEPT !.value = Append(@, s.text[s.i + 1]), !.i = @ + 2]
      [] OTHER -> [s EXCEPT !.value = Append(@, s.text[s.i]), !.i = @ + 1]

Quoting == INSTANCE FoldSteps WITH Step <- QuotedTurn

(* The element that begins at i, and the place after it.                   *)
BareElement(text, i) ==
    LET stop == PastRun(text, i, (0..255) \ (AsciiBlank \cup {Comma, CloseBrace}))
        raw == SubSeq(text, i, stop - 1)
    IN  [state |-> "closed", value |-> IF raw = NullWord THEN Null ELSE raw, i |-> stop]

ElementAt(text, i) ==
    IF i <= Len(text) /\ text[i] = Quote
    THEN Quoting!Result([text |-> text, state |-> "open", value |-> <<>>, i |-> i + 1], text)
    ELSE BareElement(text, i)

(* One turn of the outer loop: an element, and the comma or the end.       *)
ElementTurn(s, turn) ==
    LET element == ElementAt(s.text, PastRun(s.text, s.i, AsciiBlank))
        next == PastRun(s.text, element.i, AsciiBlank)
        Taken(state, i) == [s EXCEPT !.elements = Append(@, element.value), !.state = state, !.i = i]
    IN  IF s.state # "more" THEN s
        ELSE IF element.state = "bad" THEN [s EXCEPT !.state = "bad"]
        ELSE IF next > Len(s.text) THEN Taken("done", next)
        ELSE IF s.text[next] = Comma THEN Taken("more", next + 1)
        ELSE [s EXCEPT !.state = "bad"]

Listing == INSTANCE FoldSteps WITH Step <- ElementTurn

parse_array_elements(v) ==
    LET Read(state, inner) == [text |-> inner, state |-> state, elements |-> <<>>, i |-> 1]
        Literal(inner) == IF inner = <<>> THEN Read("done", inner) ELSE Listing!Result(Read("more", inner), v)
    IN  IF Len(v) < 2 \/ v[1] # OpenBrace \/ Last(v) # CloseBrace THEN Read("bad", v)
        ELSE Literal(SubSeq(v, 2, Len(v) - 1))

-----------------------------------------------------------------------------
(***************************************************************************)
(* Dates and times                                                         *)
(***************************************************************************)
MIN_SUPPORTED_DAY == -2440588
DaySeconds == 86400

(* str::parse::<i64>, for numbers of a few digits.                         *)
Integer(s) ==
    LET digits == Unsigned(s)
        of[n \in 0..Len(digits)] == IF n = 0 THEN 0 ELSE of[n - 1] * 10 + (digits[n] - 48)
        number == of[Len(digits)]
    IN  IF digits = <<>> \/ ~AllDigits(digits) THEN Null ELSE IF IsNegative(s) THEN -number ELSE number

(* Integer division as Rust does it, towards zero.                         *)
Quotient(a, b) == IF a >= 0 THEN a \div b ELSE -((-a) \div b)

(* Days from the Unix epoch.                                               *)
days_from_civil(year, m, d) ==
    LET y == IF m <= 2 THEN year - 1 ELSE year
        era == Quotient(IF y >= 0 THEN y ELSE y - 399, 400)
        yoe == y - era * 400
        mp == (m + 9) % 12
        doy == Quotient(153 * mp + 2, 5) + d - 1
        doe == yoe * 365 + Quotient(yoe, 4) - Quotient(yoe, 100) + doy
    IN  era * 146097 + doe - 719468

split_era(s) == IF IsSuffix(BcSuffix, s)
                THEN [rest |-> TrimEnd(SubSeq(s, 1, Len(s) - 3), Blank), bc |-> TRUE]
                ELSE [rest |-> s, bc |-> FALSE]

IsoYearWithoutZero(y, bc) == IF bc THEN -y ELSE y      \* mutant
IsoYear(y, bc) == IF bc THEN 1 - y ELSE y

civil_parts(s) ==
    LET Civil(y, m, d) == IF m = Null \/ d = Null \/ m \notin 1..12 \/ d \notin 1..31
                          THEN Null ELSE [y |-> y, m |-> m, d |-> d]
        Of(parts) == IF \/ Len(parts) # 3 \/ parts[1] = <<>> \/ ~AllDigits(parts[1])
                        \/ Len(parts[2]) # 2 \/ Len(parts[3]) # 2
                     THEN Null ELSE Civil(Integer(parts[1]), Integer(parts[2]), Integer(parts[3]))
    IN  Of(SplitN(s, 3, Minus))

(* An i32 holds the days of every year that PostgreSQL has.                *)
parse_date(v) ==
    LET s == Trim(v, Blank)
        Days(civil, bc) == IF civil = Null THEN Null
                           ELSE days_from_civil(IsoYear(civil.y, bc), civil.m, civil.d)
        Date(days, bc) == IF days = Null \/ (days < MIN_SUPPORTED_DAY /\ ~bc) THEN Bad ELSE Some([day |-> days])
        Parsed(era) == Date(Days(civil_parts(era.rest), era.bc), era.bc)
    IN  IF s \in {Infinity, <<Minus>> \o Infinity} THEN NotRepresentable ELSE Parsed(split_era(s))

(* Seconds and microseconds since midnight.                                *)
time_micros(s) ==
    LET dot == First(s, {Dot})
        Of(h, m, sec, frac) ==
          IF \/ h = Null \/ m = Null \/ sec = Null
             \/ h \notin 0..24 \/ m \notin 0..59 \/ sec \notin 0..60
             \/ Len(frac) > 6 \/ ~AllDigits(frac)
          THEN Null
          ELSE [sec |-> h * 3600 + m * 60 + sec,
                frac |-> IF frac = <<>> THEN 0 ELSE Integer(frac) * (10 ^ (6 - Len(frac)))]
        Hms(hms, frac) == IF Len(hms) < 2 THEN Null
                          ELSE Of(Integer(hms[1]), Integer(hms[2]), IF Len(hms) = 3 THEN Integer(hms[3]) ELSE 0, frac)
    IN  Hms(SplitN(IF dot = 0 THEN s ELSE Before(s, dot), 3, Colon), IF dot = 0 THEN <<>> ELSE After(s, dot))

(* The offset, in seconds: what follows the last sign after the first      *)
(* space (after the beginning, if there is none).                          *)
split_offset(s) ==
    LET OrZero(n) == IF n = Null THEN 0 ELSE n
        Part(parts, k) == IF k > Len(parts) THEN 0 ELSE OrZero(Integer(parts[k]))
        Seconds(parts) == Part(parts, 1) * 3600 + Part(parts, 2) * 60 + Part(parts, 3)
        Split(at, parts) ==
          IF at = 0 \/ Integer(parts[1]) = Null THEN [body |-> s, offset |-> 0]
          ELSE [body |-> Before(s, at), offset |-> (IF s[at] = Minus THEN -1 ELSE 1) * Seconds(parts)]
        At(at) == Split(at, SplitN(After(s, at), 4, Colon))
        space == First(s, {32})
    IN  At(Max({0} \cup {i \in (space + 1)..Len(s) : s[i] \in {Plus, Minus}}))

parse_time(v) ==
    LET Of(time, offset) == IF time = Null THEN Bad ELSE Some([time EXCEPT !.sec = (@ - offset) % DaySeconds])
        Zoned(split) == Of(time_micros(split.body), split.offset)
    IN  Zoned(split_offset(Trim(v, Blank)))

(***************************************************************************)
(* parse_timestamp.  The three checked operations on an i64 are bounds on  *)
(* the day, the second and the microsecond.                                *)
(***************************************************************************)
Instant(day, sec, frac) == [day |-> day + sec \div DaySeconds, sec |-> sec % DaySeconds, frac |-> frac]

AfterOrAt(a, b) == \/ a.day > b.day
                   \/ a.day = b.day /\ a.sec > b.sec
                   \/ a.day = b.day /\ a.sec = b.sec /\ a.frac >= b.frac

FitsI64(t) == /\ AfterOrAt(t, [day |-> -106751992, sec |-> 71945, frac |-> 224192])
              /\ AfterOrAt([day |-> 106751991, sec |-> 14454, frac |-> 775807], t)

parse_timestamp(v, tz) ==
    LET s == Trim(v, Blank)
        Checked(days, time, utc) ==
          IF FitsI64(Instant(days, 0, 0)) /\ FitsI64(Instant(days, time.sec, time.frac)) /\ FitsI64(utc)
          THEN Some(utc) ELSE Bad
        In(days, time, offset) == Checked(days, time, Instant(days, time.sec - offset, time.frac))
        Of(civil, time, offset, bc) ==
          IF civil = Null \/ time = Null THEN Bad
          ELSE In(days_from_civil(IsoYear(civil.y, bc), civil.m, civil.d), time, offset)
        Split(body, space, offset, bc) ==
          Of(civil_parts(IF space = 0 THEN body ELSE Before(body, space)),
             IF space = 0 THEN [sec |-> 0, frac |-> 0] ELSE time_micros(Trim(After(body, space), Blank)),
             offset, bc)
        Zoned(split, bc) == Split(split.body, First(split.body, {32}), split.offset, bc)
        Parsed(era) == Zoned(IF tz THEN split_offset(era.rest) ELSE [body |-> era.rest, offset |-> 0], era.bc)
    IN  IF s \in {Infinity, <<Minus>> \o Infinity} THEN NotRepresentable ELSE Parsed(split_era(s))

-----------------------------------------------------------------------------
(***************************************************************************)
(* bytea, in either of its formats                                         *)
(***************************************************************************)
hex_val(b) == CASE b \in Digits -> b - 48
                [] b \in 97..102 -> b - 87
                [] b \in 65..70 -> b - 55
                [] OTHER -> Null

HexBytes(hex) ==
    IF Len(hex) % 2 # 0 \/ \E i \in DOMAIN hex : hex_val(hex[i]) = Null THEN Bad
    ELSE Some([bytes |-> [k \in 1..(Len(hex) \div 2) |-> 16 * hex_val(hex[2 * k - 1]) + hex_val(hex[2 * k])]])

parse_bytea(v) ==
    LET Octal(i) == 64 * (v[i] - 48) + 8 * (v[i + 1] - 48) + v[i + 2] - 48
        IsOctal(i) == i + 2 <= Len(v) /\ \A j \in i..(i + 2) : v[j] \in 48..55
        Then(b, rest) == IF rest = Null THEN Null ELSE <<b>> \o rest
        from[i \in 1..(Len(v) + 1)] ==
          CASE i > Len(v) -> <<>>
            [] i <= Len(v) /\ v[i] # Backslash -> Then(v[i], from[i + 1])
            [] i < Len(v) /\ v[i] = Backslash /\ v[i + 1] = Backslash -> Then(Backslash, from[i + 2])
            [] i < Len(v) /\ v[i] = Backslash /\ IsOctal(i + 1) ->
                 IF Octal(i + 1) <= 255 THEN Then(Octal(i + 1), from[i + 4]) ELSE Null
            [] OTHER -> Null
    IN  IF IsPrefix(<<Backslash, 120>>, v) THEN HexBytes(After(v, 2))
        ELSE IF from[1] = Null THEN Bad ELSE Some([bytes |-> from[1]])
=============================================================================
