----------------------------- MODULE DeltaLoad -----------------------------
(***************************************************************************)
(* What a sequence of loads does to the Delta tables beneath one prefix    *)
(* (src/sink.rs, src/manifest.rs, phase two of drive() in src/pipeline.rs).*)
(* Pipeline shows how one load reads its dump; here a load is its list of  *)
(* COPY blocks, and the subject is the log of each table: opening and      *)
(* creating, staging, the commit burst, the report and the load history,   *)
(* and crashes and storage faults at any point, run after run.             *)
(*                                                                         *)
(* A schema is a sequence of fields, each a name and a type.               *)
(*                                                                         *)
(* Version v of a table is log[t][v + 1].  It holds the files a reader of  *)
(* that version sees and the schema it declares, and, for the conflict     *)
(* check of a later commit, what it removed and whether it changed the     *)
(* metadata.                                                               *)
(***************************************************************************)
EXTENDS Naturals, Sequences, FiniteSets

CONSTANTS Tables, Null,
          Modes,       \* WriteModes a sequence of loads may use: "overwrite" | "append" | "error"
          Plans,       \* the COPY blocks of a dump: sequences of [table, schema, rows, wanted]
          Expected,    \* LoadConfig.expect_tables, or Null when it is not given
          Allowed,     \* LoadConfig.tables, the allow-list, or Null
          MaxRuns,     \* bound on the number of loads
          MaxFaults    \* bound on the storage faults of one behaviour

ASSUME ModeAssumption == Modes \subseteq {"overwrite", "append", "error"}

ASSUME BoundsAssumption == MaxRuns \in Nat /\ MaxFaults \in Nat

ASSUME ListsAssumption == /\ Expected \in {Null} \cup SUBSET Tables
                          /\ Allowed \in {Null} \cup SUBSET Tables

Fields(s) == {s[i] : i \in DOMAIN s}
Schemas == UNION {{p[b].schema : b \in DOMAIN p} : p \in Plans}
Blocks == [table : Tables, schema : Schemas, rows : BOOLEAN, wanted : BOOLEAN]

(* The blocks of a table in one dump have the fields of its one CREATE     *)
(* TABLE, in the order of their headers, and no two fields of a schema     *)
(* have the same name.  What is loaded is on the allow-list; what is on it *)
(* may still be kept out by the schema filter.                             *)
ASSUME PlansAssumption ==
    /\ Plans \subseteq Seq(Blocks)
    /\ \A p \in Plans : \A a, b \in DOMAIN p : p[a].table = p[b].table => Fields(p[a].schema) = Fields(p[b].schema)
    /\ Allowed # Null => \A p \in Plans : \A b \in DOMAIN p : p[b].wanted => p[b].table \in Allowed
    /\ \A s \in Schemas : \A f, g \in Fields(s) : f.name = g.name => f = g

VARIABLES mode,       \* LoadConfig.mode, the same for every load
          log,        \* per table: its versions
          plans,      \* the blocks of every load so far, the running one last
          phase,      \* "idle" | "open" | "stage" | "commit" | "record"
          blk,        \* the COPY block being read
          targets,    \* open_tables: the tables of the commit burst
          staged,     \* staged actions per table
          stats,      \* TableStats: a table, its delta_version and its schema_drift, per block
          committed,  \* the count drive() keeps
          history,    \* the rows of the manifest
          result,     \* how the last load ended
          before,     \* for the properties: the logs when the load began
          faults      \* storage faults so far

vars == <<mode, log, plans, phase, blk, targets, staged, stats, committed, history, result, before, faults>>

Run == Len(plans)
Plan == plans[Run]
Latest(t) == log[t][Len(log[t])]
Contents(t) == IF log[t] = <<>> THEN {} ELSE Latest(t).files

FileOf(r, b) == [run |-> r, block |-> b, schema |-> plans[r][b].schema]

(* The files load r writes for table t. *)
Produced(r, t) == {FileOf(r, b) : b \in {x \in DOMAIN plans[r] : plans[r][x].table = t /\ plans[r][x].wanted
                                                            /\ plans[r][x].rows}}

Init == /\ mode \in Modes
        /\ log = [t \in Tables |-> <<>>]
        /\ plans = <<>>
        /\ phase = "idle"
        /\ blk = 0
        /\ targets = <<>>
        /\ staged = [t \in Tables |-> {}]
        /\ stats = <<>>
        /\ committed = 0
        /\ history = {}
        /\ result = "none"
        /\ before = log
        /\ faults = 0

Start(p) == /\ phase = "idle"
            /\ Run < MaxRuns
            /\ plans' = Append(plans, p)
            /\ phase' = "open"
            /\ blk' = 1
            /\ targets' = <<>>
            /\ staged' = [t \in Tables |-> {}]
            /\ stats' = <<>>
            /\ committed' = 0
            /\ result' = "running"
            /\ before' = log
            /\ UNCHANGED <<mode, log, history, faults>>

(* The load returns, or its process dies: its own state is gone.           *)
Return(how) == phase' = "idle" /\ result' = how

Fault == faults < MaxFaults /\ faults' = faults + 1

-----------------------------------------------------------------------------
(***************************************************************************)
(* diff_schema: by name, whatever the order of the fields.                 *)
(***************************************************************************)
FieldNames(s) == {f.name : f \in Fields(s)}

NoDrift == [added |-> {}, removed |-> {}, retyped |-> {}]

(* Mutant: the fields are compared at their places. *)
diff_schema_by_place(current, incoming) ==
    [NoDrift EXCEPT !.retyped = {incoming[i].name : i \in {j \in DOMAIN incoming \cap DOMAIN current :
                                                             incoming[j] # current[j]}}]

diff_schema(current, incoming) ==
    [added   |-> FieldNames(incoming) \ FieldNames(current),
     removed |-> FieldNames(current) \ FieldNames(incoming),
     retyped |-> {f.name : f \in {g \in Fields(incoming) : g.name \in FieldNames(current) /\ g \notin Fields(current)}}]

-----------------------------------------------------------------------------
(***************************************************************************)
(* preload_table and finish_open.  A table with no log is created empty,   *)
(* at once, and an error may still follow; a load() that fails is taken for*)
(* a missing table, whose create then fails because it exists.  (The look- *)
(* up is made when CREATE TABLE is scanned; this load changes no log of    *)
(* that table between it and the table's first COPY block.)                *)
(***************************************************************************)
OpenTargetAhead(t, base, drift) ==     \* mutant: a version that is not there yet
    /\ targets' = Append(targets, [table |-> t, base |-> base + 1, schema |-> Plan[blk].schema,
                                   drift |-> drift, actions |-> {}, state |-> "todo"])
    /\ phase' = "stage"
    /\ UNCHANGED result

OpenTargetStale(t, base, drift) ==     \* mutant: the snapshot of the first load is reused
    /\ targets' = Append(targets, [table |-> t, base |-> 1, schema |-> Plan[blk].schema,
                                   drift |-> drift, actions |-> {}, state |-> "todo"])
    /\ phase' = "stage"
    /\ UNCHANGED result

OpenTarget(t, base, drift) ==
    /\ targets' = Append(targets, [table |-> t, base |-> base, schema |-> Plan[blk].schema,
                                   drift |-> drift, actions |-> {}, state |-> "todo"])
    /\ phase' = "stage"
    /\ UNCHANGED result

(* The two refusals of finish_open.                                        *)
RefusesTable(t, drift) == \/ mode = "error" /\ Latest(t).files # {}
                          \/ mode = "append" /\ drift # NoDrift

OpenBlock ==
    /\ phase = "open"
    /\ blk <= Len(Plan)
    /\ Plan[blk].wanted
    /\ LET t == Plan[blk].table
           s == Plan[blk].schema
           drift == diff_schema(Latest(t).schema, s)
       IN \/ /\ log[t] = <<>>
             /\ log' = [log EXCEPT ![t] = <<[files |-> {}, schema |-> s, removed |-> {}, meta |-> TRUE]>>]
             /\ \/ OpenTarget(t, 1, NoDrift) /\ UNCHANGED faults
                \/ Fault /\ Return("PassFailed") /\ UNCHANGED targets
          \/ /\ log[t] # <<>>
             /\ RefusesTable(t, drift)
             /\ Return("PassFailed")
             /\ UNCHANGED <<log, targets, faults>>
          \/ /\ log[t] # <<>>
             /\ ~RefusesTable(t, drift)
             /\ OpenTarget(t, Len(log[t]), drift)
             /\ UNCHANGED <<log, faults>>
          \/ Fault /\ Return("PassFailed") /\ UNCHANGED <<log, targets>>
    /\ UNCHANGED <<mode, plans, blk, staged, stats, committed, history, before>>

(* A filtered block is read past; its table has been seen.                 *)
SkipBlock ==
    /\ phase = "open"
    /\ blk <= Len(Plan)
    /\ ~Plan[blk].wanted
    /\ blk' = blk + 1
    /\ UNCHANGED <<mode, log, plans, phase, targets, staged, stats, committed, history, result, before, faults>>

(* Mutant: insert instead of entry().extend(). *)
StageBlockReplaces ==
    /\ phase = "stage"
    /\ LET t == Plan[blk].table IN
       /\ staged' = [staged EXCEPT ![t] = IF Plan[blk].rows THEN {FileOf(Run, blk)} ELSE {}]
       /\ stats' = Append(stats, [table |-> t, version |-> 0, drift |-> targets[Len(targets)].drift])
    /\ blk' = blk + 1
    /\ phase' = "open"
    /\ UNCHANGED <<mode, log, plans, targets, committed, history, result, before, faults>>

(* The block is decoded and acknowledged: its files exist, unreferenced.   *)
StageBlock ==
    /\ phase = "stage"
    /\ LET t == Plan[blk].table IN
       /\ staged' = [staged EXCEPT ![t] = @ \cup IF Plan[blk].rows THEN {FileOf(Run, blk)} ELSE {}]
       /\ stats' = Append(stats, [table |-> t, version |-> 0, drift |-> targets[Len(targets)].drift])
    /\ blk' = blk + 1
    /\ phase' = "open"
    /\ UNCHANGED <<mode, log, plans, targets, committed, history, result, before, faults>>

(* A decode error, a read error or an interrupt ends the pass.             *)
PassFails == /\ phase \in {"open", "stage"}
             /\ Return("PassFailed")
             /\ UNCHANGED <<mode, log, plans, blk, targets, staged, stats, committed, history, before, faults>>

(* staged.remove(): the first target of a table takes all of its actions.  *)
EndPass == /\ phase = "open"
           /\ blk > Len(Plan)
           /\ phase' = "commit"
           /\ targets' = [i \in DOMAIN targets |->
                            [targets[i] EXCEPT !.actions =
                               IF \E j \in 1..(i - 1) : targets[j].table = targets[i].table
                               THEN {} ELSE staged[targets[i].table]]]
           /\ UNCHANGED <<mode, log, plans, blk, staged, stats, committed, history, result, before, faults>>

-----------------------------------------------------------------------------
(***************************************************************************)
(* commit_table.  The actions are computed from the snapshot loaded when   *)
(* the table was opened: under overwrite its files are removed, and a      *)
(* schema that drifted is declared.                                        *)
(***************************************************************************)
Base(g) == log[g.table][g.base]
RemovesNothing(g) == {}               \* mutant
RemovesAlways(g) == Base(g).files     \* mutant
Removes(g) == IF mode = "overwrite" THEN Base(g).files ELSE {}
DeclaresSchemaNever(g) == FALSE       \* mutant
DeclaresSchema(g) == mode = "overwrite" /\ g.drift # NoDrift /\ g.schema # Base(g).schema

(* The commit loop of the Delta library: a commit that lost the race for   *)
(* its version is retried on top of the winners unless one of them changed *)
(* the metadata or removed a file this commit removes.                     *)
Conflicts(g) == \E v \in (g.base + 1)..Len(log[g.table]) :
                  log[g.table][v].meta \/ log[g.table][v].removed \cap Removes(g) # {}

Landed(g) == LET old == Latest(g.table) IN
    [files   |-> (old.files \ Removes(g)) \cup g.actions,
     schema  |-> IF DeclaresSchema(g) THEN g.schema ELSE old.schema,
     removed |-> Removes(g),
     meta    |-> DeclaresSchema(g)]

(* Mutant: the version before the commit. *)
SetVersionBefore(t, v) ==
    LET first == CHOOSE i \in DOMAIN stats : stats[i].table = t /\ \A j \in 1..(i - 1) : stats[j].table # t
    IN stats' = [stats EXCEPT ![first].version = v - 1]

(* stat.delta_version is set on the first stat of that name.               *)
SetVersion(t, v) ==
    LET first == CHOOSE i \in DOMAIN stats : stats[i].table = t /\ \A j \in 1..(i - 1) : stats[j].table # t
    IN stats' = [stats EXCEPT ![first].version = v]

CommitTable(i) ==
    /\ phase = "commit"
    /\ targets[i].state = "todo"
    /\ LET g == targets[i]
           Ends(how) == targets' = [targets EXCEPT ![i].state = how]
           Lands == log' = [log EXCEPT ![g.table] = Append(@, Landed(g))]
       IN \/ /\ ~Conflicts(g)
             /\ Lands
             /\ Ends("ok")
             /\ committed' = committed + 1
             /\ SetVersion(g.table, Len(log[g.table]))
             /\ UNCHANGED faults
          \/ /\ ~Conflicts(g)
             /\ Fault          \* landed, but the reload after it fails
             /\ Lands
             /\ Ends("landed")
             /\ UNCHANGED <<committed, stats>>
          \/ /\ Conflicts(g)
             /\ Ends("conflict")
             /\ UNCHANGED <<log, committed, stats, faults>>
          \/ /\ Fault
             /\ Ends("err")
             /\ UNCHANGED <<log, committed, stats>>
    /\ UNCHANGED <<mode, plans, phase, blk, staged, history, result, before>>

CommitsOver ==
    /\ phase = "commit"
    /\ \A i \in DOMAIN targets : targets[i].state # "todo"
    /\ \/ (\A i \in DOMAIN targets : targets[i].state = "ok") /\ phase' = "record" /\ UNCHANGED result
       \/ (\E i \in DOMAIN targets : targets[i].state # "ok") /\ Return("CommitFailed")
    /\ UNCHANGED <<mode, log, plans, blk, targets, staged, stats, committed, history, before, faults>>

-----------------------------------------------------------------------------
(***************************************************************************)
(* The report and its rows in the history, appended in one commit of its   *)
(* own.  What the dump contained is what it had a COPY block for, filtered *)
(* or not.  What it should have contained is the expected tables or, when  *)
(* none are named, the allow-list; a table can only be unexpected when the *)
(* expected ones are named.                                                *)
(***************************************************************************)
Seen == {Plan[b].table : b \in DOMAIN Plan}
Expectation == IF Expected # Null THEN Expected ELSE IF Allowed # Null THEN Allowed ELSE {}
MissingTables == Expectation \ Seen
UnexpectedTables == IF Expected # Null THEN Seen \ Expected ELSE {}

rows_for ==
    {[run |-> Run, table |-> stats[i].table, status |-> "loaded", expected |-> stats[i].table \notin UnexpectedTables,
      version |-> stats[i].version, drift |-> stats[i].drift] : i \in DOMAIN stats}
    \cup {[run |-> Run, table |-> t, status |-> "missing", expected |-> TRUE,
           version |-> Null, drift |-> NoDrift] : t \in MissingTables}

Record ==
    /\ phase = "record"
    /\ \/ history' = history \cup rows_for /\ Return("ok") /\ UNCHANGED faults
       \/ Fault /\ Return("ManifestFailed") /\ history' \in {history, history \cup rows_for}
    /\ UNCHANGED <<mode, log, plans, blk, targets, staged, stats, committed, before>>

Crash == /\ phase # "idle"
         /\ Return("Crashed")
         /\ UNCHANGED <<mode, log, plans, blk, targets, staged, stats, committed, history, before, faults>>

Next == \/ \E p \in Plans : Start(p)
        \/ OpenBlock \/ SkipBlock \/ StageBlock \/ PassFails \/ EndPass
        \/ \E i \in DOMAIN targets : CommitTable(i)
        \/ CommitsOver \/ Record \/ Crash

Spec == Init /\ [][Next]_vars

-----------------------------------------------------------------------------
(***************************************************************************)
(* Properties                                                              *)
(***************************************************************************)

Files == [run : Nat, block : Nat, schema : Schemas]

SchemaHolds == \A t \in Tables : \A v \in DOMAIN log[t] :
                 \A f \in log[t][v].files : Fields(f.schema) = Fields(log[t][v].schema)

(* "the declared schema and the files agree" (commit_table): under         *)
(* overwrite and append, in every version of every table the files have    *)
(* the fields that version declares, however the schema moved and whatever *)
(* failed before.                                                          *)
SchemaAgrees == mode # "error" => SchemaHolds

(* The same under error-if-exists, where it does not hold: an empty table  *)
(* of another schema is filled and its schema left alone.                  *)
SchemaAgreesOnError == mode = "error" => SchemaHolds

FedOnce(t) == \A r \in 1..Run : Cardinality({b \in DOMAIN plans[r] : plans[r][b].table = t}) <= 1

(* "no reader observes an empty or half-replaced table" (commit_table):    *)
(* under overwrite and error, after the version that creates it a table    *)
(* always holds exactly what some one load produced for it, never a        *)
(* mixture of two.  (Not for a table that two COPY blocks of a dump feed:  *)
(* the second commit of the load carries no files and may land first.)     *)
VersionsAreWhole ==
    mode # "append" => \A t \in {x \in Tables : FedOnce(x)} : \A v \in 2..Len(log[t]) :
                         \E r \in 1..Run : log[t][v].files = Produced(r, t)

(* "Every table read at its recorded version is by construction the set    *)
(* one run produced" (manifest.rs): time travel to a recorded version      *)
(* finds what that load produced, whatever came after, and under append    *)
(* nothing of a later load.  (Not for a table that two COPY blocks feed:   *)
(* only the first of its rows is given a version.)                         *)
HistoryReadable ==
    \A h \in {x \in history : x.status = "loaded" /\ FedOnce(x.table)} :
      /\ h.version + 1 \in DOMAIN log[h.table]
      /\ LET files == log[h.table][h.version + 1].files IN
         /\ Produced(h.run, h.table) \subseteq files
         /\ IF mode = "overwrite" THEN files \subseteq Produced(h.run, h.table)
                                  ELSE \A f \in files : f.run <= h.run

(* "Re-running is the recovery" (run in pipeline.rs): whatever crashed,    *)
(* failed half way or was left orphaned before, a load that returns        *)
(* success leaves each of its tables with all of its files, under          *)
(* overwrite with no other file.                                           *)
RerunRecovers ==
    result = "ok" => \A b \in {x \in DOMAIN Plan : Plan[x].wanted} :
        LET t == Plan[b].table IN
        /\ Produced(Run, t) \subseteq Contents(t)
        /\ mode = "overwrite" => Contents(t) = Produced(Run, t)

(* "how the sender's changes announce themselves" (docs/operations.md):    *)
(* the rows of a load that returns success account for every expected      *)
(* table and every loaded one, whatever happened in earlier loads.  A      *)
(* table that should have come is called missing exactly when the dump did *)
(* not contain it, and has then not been touched; a loaded table is called *)
(* unexpected exactly when expected ones are named and it is none of them; *)
(* and the row says how its declared fields have changed under this load,  *)
(* reordered ones not counting.                                            *)
HistoryTells ==
    result = "ok" => \A t \in Tables :
      LET Rows(status) == {h \in history : h.run = Run /\ h.table = t /\ h.status = status}
          fed == {b \in DOMAIN Plan : Plan[b].table = t}
          was == Fields(before[t][Len(before[t])].schema)
          now == Fields(Latest(t).schema)
      IN  /\ Rows("loaded") # {} <=> \E b \in fed : Plan[b].wanted
          /\ Rows("missing") # {} <=> t \in Expectation /\ fed = {}
          /\ Rows("missing") # {} => log[t] = before[t]
          /\ \A h \in Rows("loaded") :
               /\ h.expected = (Expected = Null \/ t \in Expected)
               /\ mode = "overwrite" /\ FedOnce(t) /\ before[t] # <<>> =>
                    h.drift.added \cup h.drift.removed \cup h.drift.retyped
                      = {f.name : f \in (was \ now) \cup (now \ was)}

(* A load conflicts with nobody but itself: with nothing else writing to   *)
(* the prefix, a commit burst fails only because storage did, so running   *)
(* it again can succeed ("Simply run it again", docs/operations.md).       *)
NoSelfConflict == \A i \in DOMAIN targets : FedOnce(targets[i].table) => targets[i].state # "conflict"

(* The same for a table that two COPY blocks feed, where it does not hold. *)
NoSelfConflictAtAll == \A i \in DOMAIN targets : targets[i].state # "conflict"

(* CommitFailed.committed: "Zero means nothing became visible"             *)
(* (docs/api.md), "no table changed" (error.rs): a burst that fails with   *)
(* the count at zero leaves what every table holds as the pass found it.   *)
CountIsTruthful ==
    result = "CommitFailed" /\ committed = 0 =>
      \A t \in Tables : Contents(t) = IF before[t] = <<>> THEN {} ELSE before[t][Len(before[t])].files

(* Under append and error a load never takes away a file that an earlier   *)
(* one has committed.                                                      *)
CommittedRowsStay ==
    [][mode # "overwrite" => \A t \in Tables : Contents(t) \subseteq Contents(t)']_vars

(* "A failure during the pass leaves orphaned files and no visible change  *)
(* to any table" (run in pipeline.rs): a load that fails before its commit *)
(* burst leaves the log of every table as it found it.                     *)
PassIsInvisible == result = "PassFailed" => log = before

-----------------------------------------------------------------------------
(***************************************************************************)
(* The invariant behind SchemaAgrees and RerunRecovers                     *)
(***************************************************************************)
Versions == [files : SUBSET Files, schema : Schemas, removed : SUBSET Files, meta : BOOLEAN]
Drifts == {NoDrift} \cup {diff_schema(s, r) : s, r \in Schemas}
Outcomes == {"todo", "ok", "landed", "conflict", "err"}
Targets == [table : Tables, base : Nat, schema : Schemas, drift : Drifts, actions : SUBSET Files, state : Outcomes]

TypeInv ==
    /\ mode \in Modes
    /\ log \in [Tables -> Seq(Versions)]
    /\ plans \in Seq(Plans)
    /\ phase \in {"idle", "open", "stage", "commit", "record"}
    /\ blk \in Nat
    /\ targets \in Seq(Targets)
    /\ staged \in [Tables -> SUBSET Files]
    /\ phase # "idle" => plans # <<>> /\ blk >= 1
    /\ targets # <<>> => plans # <<>>
    /\ result = "ok" => phase = "idle" /\ plans # <<>>

FirstTarget(k) == \A j \in 1..(k - 1) : targets[j].table # targets[k].table

(* What has been read so far is staged, and every table that was opened    *)
(* has a target, of which the first is given the files.                    *)
PassInv ==
    /\ phase # "idle" => \A t \in Tables :
         staged[t] = {FileOf(Run, b) : b \in {x \in DOMAIN Plan : x < blk /\ Plan[x].table = t /\ Plan[x].wanted
                                                                    /\ Plan[x].rows}}
    /\ phase = "stage" => blk \in DOMAIN Plan /\ Plan[blk].wanted
    /\ phase \in {"commit", "record"} => blk > Len(Plan)
    /\ phase # "idle" => \A b \in DOMAIN Plan :
         Plan[b].wanted /\ (b < blk \/ (b = blk /\ phase = "stage")) =>
           \E k \in DOMAIN targets : targets[k].table = Plan[b].table
    /\ \A i \in DOMAIN targets : \E k \in DOMAIN targets : targets[k].table = targets[i].table /\ FirstTarget(k)
    /\ phase \in {"open", "stage"} => \A i \in DOMAIN targets : targets[i].actions = {} /\ targets[i].state = "todo"
    /\ phase \in {"commit", "record"} => \A i \in DOMAIN targets :
         targets[i].actions = IF FirstTarget(i) THEN staged[targets[i].table] ELSE {}
    /\ phase = "record" => \A i \in DOMAIN targets : targets[i].state = "ok"

(* A target knows the version it was opened at: how that differs from the  *)
(* dump, and that only this load has written to the table since.           *)
GoodTarget(g) ==
    /\ g.base \in DOMAIN log[g.table]
    /\ \E b \in DOMAIN Plan : Plan[b].table = g.table /\ Plan[b].schema = g.schema
    /\ g.drift = diff_schema(Base(g).schema, g.schema)
    /\ mode = "append" => g.drift = NoDrift
    /\ g.actions \subseteq Produced(Run, g.table)
    /\ \A f \in Base(g).files : f.run < Run
    /\ (\A v \in (g.base + 1)..Len(log[g.table]) : ~log[g.table][v].meta) => Latest(g.table).schema = Base(g).schema
    /\ Latest(g.table).files \subseteq Base(g).files \cup Produced(Run, g.table)
    /\ g.state = "ok" => /\ g.actions \subseteq Latest(g.table).files
                         /\ mode = "overwrite" => Latest(g.table).files \cap Base(g).files = {}

TargetInv == \A i \in DOMAIN targets : GoodTarget(targets[i])

(* Files carry the number of the load that wrote them.                     *)
RunsInv == \A t \in Tables : \A v \in DOMAIN log[t] : \A f \in log[t][v].files :
             f.run <= Run /\ (phase \in {"open", "stage"} => f.run < Run)

(* Opening, staging and committing fit each other: what is committed is    *)
(* what the dump said, over the version the table had when it was opened.  *)
LoadInv == TypeInv /\ PassInv /\ TargetInv /\ RunsInv /\ SchemaAgrees /\ RerunRecovers

-----------------------------------------------------------------------------
(***************************************************************************)
(* The invariant behind the whole versions and the history                 *)
(***************************************************************************)

(* A target was opened for a block read before, the last one for the block *)
(* being read, and a table that one block feeds has only one.  A table     *)
(* without a target is as the load found it.                               *)
OpenedInv ==
    /\ phase # "idle" => \A i \in DOMAIN targets : \E b \in DOMAIN Plan :
         Plan[b].table = targets[i].table /\ Plan[b].wanted /\ (b < blk \/ (b = blk /\ phase = "stage"))
    /\ phase = "stage" => targets # <<>> /\ targets[Len(targets)].table = Plan[blk].table
    /\ \A i, j \in DOMAIN targets :
         targets[i].table = targets[j].table /\ FedOnce(targets[i].table) => i = j
    /\ phase # "idle" => \A t \in Tables : (\A i \in DOMAIN targets : targets[i].table # t) => log[t] = before[t]

(* The only target of its table: the version it was opened over is the     *)
(* newest until it lands, is what this load found there, and is empty if   *)
(* rows may only be put into an empty table.                               *)
SoleTarget(g) ==
    /\ g.state # "conflict"
    /\ Len(log[g.table]) = IF g.state \in {"ok", "landed"} THEN g.base + 1 ELSE g.base
    /\ before[g.table] # <<>> => Base(g).schema = before[g.table][Len(before[g.table])].schema
    /\ mode = "overwrite" /\ g.state = "ok" =>
         Latest(g.table).schema = IF g.drift = NoDrift THEN Base(g).schema ELSE g.schema

SolesInv == \A i \in DOMAIN targets :
    /\ mode = "error" => Base(targets[i]).files = {}
    /\ FedOnce(targets[i].table) => SoleTarget(targets[i])

(* There is a TableStats per target, in the same order, with its drift,    *)
(* and with its version once it is committed.                              *)
StatsInv ==
    /\ stats \in Seq([table : Tables, version : Nat, drift : Drifts])
    /\ phase # "idle" =>
         /\ Len(stats) = IF phase = "stage" THEN Len(targets) - 1 ELSE Len(targets)
         /\ \A i \in DOMAIN stats :
              /\ stats[i].table = targets[i].table
              /\ stats[i].drift = targets[i].drift
              /\ FedOnce(stats[i].table) /\ targets[i].state = "ok" => stats[i].version + 1 = Len(log[stats[i].table])

(* The history is about the loads so far.                                  *)
RecordedInv == \A h \in history : /\ h.run \in 1..Run
                                  /\ phase # "idle" => h.run < Run
                                  /\ h.table \in Tables
                                  /\ h.status = "loaded" => h.version \in Nat

RecordInv == /\ OpenedInv /\ SolesInv /\ StatsInv /\ RecordedInv
             /\ VersionsAreWhole /\ HistoryReadable /\ HistoryTells

(* The inductive invariant: the loads, and what is recorded of them.       *)
IInv == LoadInv /\ RecordInv
=============================================================================
