-------------------------------- MODULE Ddl --------------------------------
(***************************************************************************)
(* The statements the scanner reads columns from: CREATE TABLE and the     *)
(* header of a COPY block (src/scan.rs).  A statement is a sequence of     *)
(* tokens: a blank, one of ( ) , . [ ] " ' and a word for any run of other *)
(* characters.  A name, its quotes resolved, is a sequence of tokens too.  *)
(***************************************************************************)
EXTENDS Texts

(* eq_ignore_ascii_case with one of the keywords of S.                     *)
IsKeyword(w, S) == Lowered(w) \in S

StripPrefix(s, words) ==
    IF Len(s) >= Len(words) /\ \A i \in DOMAIN words : IsKeyword(s[i], {words[i]})
    THEN After(s, Len(words)) ELSE Null

strip_create_table(s) ==
    LET plain == StripPrefix(s, <<"create", " ", "table", " ">>)
        unlogged == StripPrefix(s, <<"create", " ", "unlogged", " ", "table", " ">>)
    IN  IF plain # Null THEN plain ELSE unlogged

-----------------------------------------------------------------------------
(***************************************************************************)
(* Where a scan of s from `start` on is at each token: inside a quoted     *)
(* identifier or not (a doubled quote, read at once, stays inside), and at *)
(* which depth of parentheses after it.                                    *)
(***************************************************************************)
Scan(s, start) ==
    LET state[i \in (start - 1)..Len(s)] ==
          IF i = start - 1 THEN [quoted |-> FALSE, escaped |-> FALSE, depth |-> 0]
          ELSE LET was == state[i - 1] IN
               CASE was.escaped -> [was EXCEPT !.escaped = FALSE]
                 [] ~was.escaped /\ was.quoted ->
                      [was EXCEPT !.quoted = s[i] # "\"" \/ (i < Len(s) /\ s[i + 1] = "\""),
                                  !.escaped = s[i] = "\"" /\ i < Len(s) /\ s[i + 1] = "\""]
                 [] OTHER ->
                      [was EXCEPT !.quoted = s[i] = "\"",
                                  !.depth = @ + (CASE s[i] = "(" -> 1 [] s[i] = ")" -> -1 [] OTHER -> 0)]
    IN  state

Outside(state, i) == ~state[i - 1].quoted /\ ~state[i - 1].escaped

split_top_level(s, sep) ==
    LET state == Scan(s, 1)
    IN  Pieces(s, {i \in DOMAIN s : s[i] = sep /\ Outside(state, i) /\ state[i].depth = 0})

(* Mutant: the last closing parenthesis of the statement. *)
matching_paren_last(s, open) == LET close == LastOf(s, {")"}) IN IF close < open THEN Null ELSE close

(* The place of the parenthesis that closes the one at `open`, or Null.    *)
matching_paren(s, open) ==
    LET state == Scan(s, open)
        closes == {i \in open..Len(s) : s[i] = ")" /\ Outside(state, i) /\ state[i].depth = 0}
    IN  IF closes = {} THEN Null ELSE Min(closes)

-----------------------------------------------------------------------------
(* One identifier and what follows it, or Null.                            *)
take_identifier(text) ==
    LET s == TrimStart(text, {" "})
        Then(c, tail) == IF tail = Null THEN Null ELSE [tail EXCEPT !.name = <<c>> \o @]
        quoted[i \in 2..(Len(s) + 1)] ==
          CASE i > Len(s) -> Null
            [] i < Len(s) /\ s[i] = "\"" /\ s[i + 1] = "\"" -> Then("\"", quoted[i + 2])
            [] i <= Len(s) /\ s[i] = "\"" /\ (i = Len(s) \/ s[i + 1] # "\"") ->
                 [name |-> <<>>, rest |-> After(s, i)]
            [] OTHER -> Then(s[i], quoted[i + 1])
        end == SelectInSeq(Append(s, " "), LAMBDA c : c \in {" ", "(", ",", "."})
    IN  IF s # <<>> /\ s[1] = "\"" THEN quoted[2]
        ELSE IF end = 1 THEN Null ELSE [name |-> Before(s, end), rest |-> After(s, end - 1)]

(* A table's name: its schema, unless it has none, and the table.          *)
take_qualified(s) ==
    LET Named(schema_, id) == IF id = Null THEN Null
                              ELSE [name |-> [schema |-> schema_, table |-> id.name], rest |-> id.rest]
        Parts(first) == IF first # Null /\ first.rest # <<>> /\ Head(first.rest) = "."
                        THEN Named(first.name, take_identifier(Tail(first.rest)))
                        ELSE Named(Null, first)
    IN  Parts(take_identifier(s))

qualified(name) == IF name.schema = Null THEN name.table ELSE name.schema \o <<".">> \o name.table

-----------------------------------------------------------------------------
TYPE_TERMINATORS == {"default", "not", "null", "generated", "collate", "constraint", "check",
                     "references", "primary", "unique"}
CONSTRAINT_LEADERS == {"constraint", "primary", "unique", "foreign", "check", "exclude", "like"}

(* The word that begins at i. *)
WordAt(s, i) == LET end == SelectInSubSeq(Append(s, " "), i, Len(s) + 1, LAMBDA c : c = " ") IN SubSeq(s, i, end - 1)

IsKeywordAt(s, i, S) == Len(WordAt(s, i)) = 1 /\ IsKeyword(s[i], S)

(* The type, from the tail of a column's definition.                       *)
take_type(text) ==
    LET s == Trim(text, {" "})
        depth[i \in 0..Len(s)] ==
          IF i = 0 THEN 0 ELSE depth[i - 1] + (CASE s[i] = "(" -> 1 [] s[i] = ")" -> -1 [] OTHER -> 0)
        cuts == {i \in DOMAIN s : depth[i] = 0 /\ (i = 1 \/ s[i - 1] = " ") /\ IsKeywordAt(s, i, TYPE_TERMINATORS)}
    IN  Trim(SubSeq(s, 1, Min(cuts \cup {Len(s) + 1}) - 1), {" "})

(* One item of the list: a column, or Null for a constraint and for what   *)
(* cannot be read.                                                         *)
ColumnDef(text) ==
    LET item == Trim(text, {" "})
        Typed(name, type) == IF type = <<>> THEN Null ELSE [name |-> name, sql_type |-> type]
        Column(id) == IF id = Null THEN Null ELSE Typed(id.name, take_type(id.rest))
    IN  IF item = <<>> \/ IsKeywordAt(item, 1, CONSTRAINT_LEADERS) THEN Null ELSE Column(take_identifier(item))

(* The list between the first parenthesis of s and the one that closes it, *)
(* or Null.                                                                *)
ParenList(s) ==
    LET open == First(s, {"("})
        close == matching_paren(s, open)
    IN  IF open = 0 \/ close = Null THEN Null ELSE split_top_level(SubSeq(s, open + 1, close - 1), ",")

parse_create_table(ddl) ==
    LET Columns(items) == SelectSeq([k \in DOMAIN items |-> ColumnDef(items[k])], LAMBDA c : c # Null)
        Def(name, items) == IF items = Null THEN Null ELSE [name |-> name, columns |-> Columns(items)]
        Body(table) == IF table = Null THEN Null ELSE Def(table.name, ParenList(table.rest))
        Table(after) == IF after = Null THEN Null ELSE Body(take_qualified(after))
    IN  Table(strip_create_table(TrimStart(ddl, {" "})))

(* The columns are optional.                                               *)
parse_copy_header(line) ==
    LET Identifiers(list) == IF list = Null THEN <<>>
                             ELSE SelectSeq([k \in DOMAIN list |-> take_identifier(list[k])], LAMBDA n : n # Null)
        Header(name, ids) == [table |-> name, columns |-> [k \in DOMAIN ids |-> ids[k].name]]
        Table(table) == IF table = Null THEN Null ELSE Header(table.name, Identifiers(ParenList(table.rest)))
        Copy(after) == IF after = Null THEN Null ELSE Table(take_qualified(after))
    IN  Copy(StripPrefix(TrimStart(line, {" "}), <<"copy", " ">>))

(* What the scanner knows of an excluded table is its name.                *)
schema_is_excluded(ddl, excluded) ==
    LET table == take_qualified(strip_create_table(ddl))
    IN  table # Null /\ table.name.schema # Null /\ table.name.schema \in excluded
=============================================================================
