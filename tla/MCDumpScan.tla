----------------------------- MODULE MCDumpScan -----------------------------
(* Small instances of DumpScan: the byte streams.                          *)
EXTENDS DumpScan

ByteCodes == {"n", "cr", "\\", ".", ")", "V", "W", "F", "T", "C", "X", "a", "b", "r"}

Text(lines) == FlattenSeq([k \in DOMAIN lines |-> Append(lines[k], "n")])

(* Rows that look like something else: a statement, a half terminator, CRLF.*)
RowTexts == { <<"r">>, <<>>, <<"r", "cr">>, <<"C", "b">>, <<"\\", "r">> }

Preamble == << <<"F">>, <<"V">>, <<"T", "a">>, <<"r">>, <<")">> >>

Blocks == { << <<"C", "a">>, r1, r2, <<"\\", ".">> >> : r1 \in RowTexts, r2 \in RowTexts }

WellFormed == { Text(Preamble \o b) : b \in Blocks }
                \cup { Text(<< <<"V">>, <<"X", "r">>, <<"C", ")">>, <<"X", ")">>, <<"T", "a", ")">>,
                               <<"C", "a">>, <<"\\", ".", "cr">>, <<"C", "b">>, <<"r">>, <<"\\", ".">>, <<"r">> >>) }

(* Cut off, without a version, malformed, or with a line that is too long.  *)
IllFormed == { Text(<< <<"V">>, <<"C", "a">>, <<"r">> >>) \o <<"\\", ".">>,
               Text(<< <<"V">>, <<"C", "a">>, <<"r">> >>),
               Text(<< <<"C", "a">>, <<"\\", ".">> >>),
               Text(<< <<"V">>, <<"C", "a">>, <<"r">>, <<"\\", ".">>, <<"W">> >>),
               Text(<< <<"V">>, <<"C", "a">>, <<"r", "cr", "cr">>, <<"\\", ".">> >>),
               Text(<< <<"V">>, <<"C">> >>),
               Text(<< <<"V">>, <<"T", ")">> >>),
               Text(<< <<"V">>, <<"C", "a">>, <<"r", "r", "r", "r">>, <<"\\", ".">> >>),
               Text(<< <<"V">>, <<"C", "a">>, <<"r", "r", "r", "r", "r">>, <<"\\", ".">> >>) }

Streams == WellFormed \cup IllFormed
=============================================================================
