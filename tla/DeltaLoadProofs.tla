-------------------------- MODULE DeltaLoadProofs --------------------------
(***************************************************************************)
(* For any tables, dumps, numbers of loads and of faults: the files of     *)
(* every version have the schema it declares (under overwrite and append), *)
(* a load that returns success has put its tables right whatever failed    *)
(* before it, and append and error take no committed file away.  In the    *)
(* second part, of the tables that one COPY block feeds: every version     *)
(* holds what one load produced, the version a load has recorded is what   *)
(* it produced, and no commit conflicts.  And for every table: the rows of *)
(* a load that succeeded tell what it has loaded, missed and changed.      *)
(***************************************************************************)
EXTENDS DeltaLoad, FiniteSetTheorems, TLAPS

-----------------------------------------------------------------------------
(* The running load's dump.                                                *)
LEMMA PlanIsPlan ==
    ASSUME TypeInv, plans # <<>>
    PROVE  /\ Run \in Nat \ {0}
           /\ Plan \in Plans
           /\ Plan \in Seq(Blocks)
           /\ \A b \in DOMAIN Plan : /\ Plan[b].table \in Tables
                                     /\ Plan[b].schema \in Schemas
                                     /\ b \in Nat \ {0}
           /\ \A a, b \in DOMAIN Plan : Plan[a].table = Plan[b].table => Fields(Plan[a].schema) = Fields(Plan[b].schema)
<1>1. Run \in Nat \ {0} /\ Plan \in Plans
  BY DEF TypeInv, Run, Plan
<1>2. Plan \in Seq(Blocks)
  BY <1>1, PlansAssumption
<1>3. \A a, b \in DOMAIN Plan : Plan[a].table = Plan[b].table => Fields(Plan[a].schema) = Fields(Plan[b].schema)
  BY <1>1, PlansAssumption
<1>4. ASSUME NEW b \in DOMAIN Plan
      PROVE  Plan[b].table \in Tables /\ Plan[b].schema \in Schemas /\ b \in Nat \ {0}
  <2>1. Plan[b] \in Blocks /\ b \in 1..Len(Plan)
    BY <1>2
  <2> QED
    BY <1>2, <2>1 DEF Blocks
<1> QED
  BY <1>1, <1>2, <1>3, <1>4

(* The files a load writes for a table carry its number and its fields.    *)
LEMMA ProducedFiles ==
    ASSUME TypeInv, plans # <<>>, NEW t \in Tables, NEW f \in Produced(Run, t)
    PROVE  /\ f \in Files
           /\ f.run = Run
           /\ \A b \in DOMAIN Plan : Plan[b].table = t => Fields(f.schema) = Fields(Plan[b].schema)
<1>1. PICK x \in DOMAIN Plan : f = FileOf(Run, x) /\ Plan[x].table = t
  BY DEF Produced, Plan
<1>2. f = [run |-> Run, block |-> x, schema |-> Plan[x].schema]
  BY <1>1 DEF FileOf, Plan
<1> QED
  BY <1>1, <1>2, PlanIsPlan DEF Files

(* A dump whose fields show no drift has the fields the table declares.    *)
LEMMA NoDriftSameFields ==
    ASSUME NEW s \in Schemas, NEW r \in Schemas, diff_schema(s, r) = NoDrift
    PROVE  Fields(s) = Fields(r)
<1>1. /\ FieldNames(r) \subseteq FieldNames(s)
      /\ FieldNames(s) \subseteq FieldNames(r)
      /\ {f.name : f \in {g \in Fields(r) : g.name \in FieldNames(s) /\ g \notin Fields(s)}} = {}
  BY DEF diff_schema, NoDrift
<1>2. ASSUME NEW f \in Fields(r) PROVE f \in Fields(s)
  <2>1. f.name \in FieldNames(s)
    BY <1>1 DEF FieldNames
  <2> QED
    BY <1>1, <2>1
<1>3. ASSUME NEW f \in Fields(s) PROVE f \in Fields(r)
  <2>1. PICK g \in Fields(r) : g.name = f.name
    BY <1>1 DEF FieldNames
  <2>2. g \in Fields(s)
    BY <1>2
  <2> QED
    BY <2>1, <2>2, PlansAssumption
<1> QED
  BY <1>2, <1>3

-----------------------------------------------------------------------------
LEMMA InitLoadInv == Init => LoadInv
<1> SUFFICES ASSUME Init PROVE LoadInv
  OBVIOUS
<1>1. TypeInv
  BY DEF Init, TypeInv
<1>2. PassInv /\ TargetInv /\ RunsInv /\ SchemaAgrees /\ RerunRecovers
  BY DEF Init, PassInv, TargetInv, RunsInv, SchemaAgrees, SchemaHolds, RerunRecovers
<1> QED
  BY <1>1, <1>2 DEF LoadInv

(* The versions of a table, the newest among them.                         *)
LEMMA LogIsVersions ==
    ASSUME TypeInv, NEW t \in Tables
    PROVE  /\ log[t] \in Seq(Versions)
           /\ Len(log[t]) \in Nat
           /\ DOMAIN log[t] = 1..Len(log[t])
           /\ \A v \in DOMAIN log[t] : /\ log[t][v] \in Versions
                                       /\ log[t][v].files \subseteq Files
                                       /\ log[t][v].schema \in Schemas
           /\ log[t] # <<>> => Len(log[t]) \in DOMAIN log[t]
<1>1. log[t] \in Seq(Versions)
  BY DEF TypeInv
<1>2. /\ Len(log[t]) \in Nat
      /\ DOMAIN log[t] = 1..Len(log[t])
      /\ log[t] # <<>> => Len(log[t]) \in DOMAIN log[t]
  BY <1>1
<1>3. ASSUME NEW v \in DOMAIN log[t] PROVE log[t][v] \in Versions
  BY <1>1, <1>2
<1>4. ASSUME NEW w \in Versions PROVE w.files \subseteq Files /\ w.schema \in Schemas
  BY DEF Versions
<1> QED
  BY <1>1, <1>2, <1>3, <1>4

LEMMA TargetIsTarget ==
    ASSUME TypeInv, NEW i \in DOMAIN targets
    PROVE  /\ targets[i] \in Targets
           /\ targets[i].table \in Tables
           /\ targets[i].base \in Nat
           /\ targets[i].schema \in Schemas
           /\ targets[i].actions \subseteq Files
           /\ plans # <<>>
           /\ i \in 1..Len(targets)
<1>1. targets \in Seq(Targets) /\ i \in 1..Len(targets) /\ targets # <<>>
  BY DEF TypeInv
<1>2. targets[i] \in Targets
  BY <1>1
<1>3. plans # <<>>
  BY <1>1, SMTT(30) DEF TypeInv
<1> QED
  BY <1>1, <1>2, <1>3 DEF Targets

-----------------------------------------------------------------------------
(* What depends on nothing but the logs, the dump and the targets.         *)
LEMMA TargetStands ==
    ASSUME UNCHANGED <<mode, plans>>,
           NEW g, GoodTarget(g), log'[g.table] = log[g.table]
    PROVE  GoodTarget(g)'
  BY DEF GoodTarget, Base, Latest, Run, Plan, Produced, FileOf

LEMMA TargetsStand ==
    ASSUME TargetInv, UNCHANGED <<mode, log, plans, targets>>
    PROVE  TargetInv'
<1> SUFFICES ASSUME NEW i \in DOMAIN targets PROVE GoodTarget(targets[i])'
  BY DEF TargetInv
<1> QED
  BY SMTT(30) DEF TargetInv, GoodTarget, Base, Latest, Run, Plan, Produced, FileOf

(* A target whose actions or whose outcome are replaced.                   *)
LEMMA WithActions ==
    ASSUME NEW g \in Targets, NEW h, NEW a \in SUBSET Files, h = [g EXCEPT !.actions = a]
    PROVE  /\ h \in Targets
           /\ h.table = g.table /\ h.base = g.base /\ h.schema = g.schema
           /\ h.drift = g.drift /\ h.state = g.state /\ h.actions = a
  BY DEF Targets

LEMMA WithState ==
    ASSUME NEW g \in Targets, NEW h, NEW how \in Outcomes, h = [g EXCEPT !.state = how]
    PROVE  /\ h \in Targets
           /\ h.table = g.table /\ h.base = g.base /\ h.schema = g.schema
           /\ h.drift = g.drift /\ h.actions = g.actions /\ h.state = how
  BY DEF Targets

LEMMA SchemasStand ==
    ASSUME SchemaAgrees, UNCHANGED <<mode, log>>
    PROVE  SchemaAgrees'
  BY DEF SchemaAgrees, SchemaHolds

LEMMA StartLoadInv ==
    ASSUME LoadInv, NEW p \in Plans, Start(p)
    PROVE  LoadInv'
<1>1. TypeInv'
  <2>1. plans' \in Seq(Plans) /\ plans' # <<>>
    <3>1. plans \in Seq(Plans) /\ plans' = Append(plans, p)
      BY DEF LoadInv, TypeInv, Start
    <3> QED
      BY <3>1
  <2> QED
    BY <2>1 DEF LoadInv, TypeInv, Start
<1>2. Run \in Nat /\ Run' = Run + 1
  BY DEF LoadInv, TypeInv, Start, Run
<1>3. PassInv'
  <2>1. Plan' \in Seq(Blocks)
    BY <1>1, <1>2, PlansAssumption DEF Plan, Run, TypeInv
  <2>2. \A x \in (DOMAIN Plan)' : ~(x < 1)
    BY <2>1
  <2> QED
    BY <2>2 DEF PassInv, Start
<1>4. TargetInv'
  BY DEF TargetInv, Start
<1>5. RunsInv'
  <2>1. ASSUME NEW t \in Tables, NEW v \in DOMAIN log[t], NEW f \in log[t][v].files
        PROVE  f.run < Run'
    <3>1. f \in Files /\ f.run <= Run
      BY LogIsVersions DEF LoadInv, RunsInv
    <3> QED
      BY <1>2, <3>1 DEF Files
  <2>2. ASSUME NEW t \in Tables, NEW v \in DOMAIN log[t], NEW f \in log[t][v].files
        PROVE  f.run <= Run'
    <3>1. f \in Files
      BY LogIsVersions DEF LoadInv
    <3> QED
      BY <1>2, <2>1, <3>1 DEF Files
  <2> QED
    BY <2>1, <2>2 DEF RunsInv, Start
<1>6. SchemaAgrees'
  BY SchemasStand DEF LoadInv, Start
<1>7. RerunRecovers'
  BY DEF RerunRecovers, Start
<1> QED
  BY <1>1, <1>3, <1>4, <1>5, <1>6, <1>7 DEF LoadInv

(* A load that stops, for whatever reason but success.                     *)
LEMMA StopLoadInv ==
    ASSUME LoadInv, NEW how, how # "ok", Return(how), UNCHANGED <<mode, log, plans, blk, targets, staged>>
    PROVE  LoadInv'
<1>1. TypeInv'
  BY DEF LoadInv, TypeInv, Return
<1>2. PassInv'
  BY DEF LoadInv, PassInv, Return, FirstTarget
<1>3. TargetInv' /\ SchemaAgrees'
  BY TargetsStand, SchemasStand DEF LoadInv
<1>4. RunsInv'
  BY DEF LoadInv, RunsInv, Run, Return
<1>5. RerunRecovers'
  BY DEF RerunRecovers, Return
<1> QED
  BY <1>1, <1>2, <1>3, <1>4, <1>5 DEF LoadInv

LEMMA SkipLoadInv ==
    ASSUME LoadInv, SkipBlock
    PROVE  LoadInv'
<1> USE DEF SkipBlock
<1>1. TypeInv'
  BY DEF LoadInv, TypeInv
<1>2. Run' = Run /\ Plan' = Plan /\ plans # <<>> /\ \A b : FileOf(Run, b)' = FileOf(Run, b)
  BY DEF LoadInv, TypeInv, Run, Plan, FileOf
<1>3. PassInv'
  <2>1. \A x \in DOMAIN Plan : x \in Nat
    BY <1>2, PlanIsPlan DEF LoadInv
  <2>2. blk \in Nat
    BY DEF LoadInv, TypeInv
  <2>3. \A x \in DOMAIN Plan : x < blk + 1 /\ Plan[x].wanted => x < blk
    BY <2>1, <2>2
  <2>4. \A x \in DOMAIN Plan : x < blk => x < blk + 1
    BY <2>1, <2>2
  <2>5. \A t \in Tables :
          {x \in DOMAIN Plan : x < blk + 1 /\ Plan[x].table = t /\ Plan[x].wanted /\ Plan[x].rows}
            = {x \in DOMAIN Plan : x < blk /\ Plan[x].table = t /\ Plan[x].wanted /\ Plan[x].rows}
    BY <2>3, <2>4
  <2>6. \A t \in Tables :
          staged'[t] = {FileOf(Run, b)' : b \in {x \in DOMAIN Plan : x < blk + 1 /\ Plan[x].table = t
                                                                      /\ Plan[x].wanted /\ Plan[x].rows}}
    BY <1>2, <2>5 DEF LoadInv, PassInv
  <2>7. \A i \in DOMAIN targets : \E k \in DOMAIN targets : targets[k].table = targets[i].table /\ FirstTarget(k)'
    BY DEF LoadInv, PassInv, FirstTarget
  <2>8. /\ phase = "open" /\ phase' = "open" /\ blk' = blk + 1 /\ targets' = targets
        /\ \A b \in DOMAIN Plan : Plan[b].wanted /\ b < blk + 1 => \E k \in DOMAIN targets : targets[k].table = Plan[b].table
    BY <2>3 DEF LoadInv, PassInv
  <2>9. \A i \in DOMAIN targets : targets[i].actions = {} /\ targets[i].state = "todo"
    BY DEF LoadInv, PassInv
  <2> HIDE DEF SkipBlock
  <2> QED
    BY <1>2, <2>6, <2>7, <2>8, <2>9 DEF PassInv
<1>4. TargetInv' /\ SchemaAgrees'
  BY TargetsStand, SchemasStand DEF LoadInv
<1>5. RunsInv'
  BY DEF LoadInv, RunsInv, Run
<1>6. RerunRecovers'
  BY DEF LoadInv, TypeInv, RerunRecovers
<1> QED
  BY <1>1, <1>3, <1>4, <1>5, <1>6 DEF LoadInv

LEMMA StageLoadInv ==
    ASSUME LoadInv, StageBlock
    PROVE  LoadInv'
<1> DEFINE t0 == Plan[blk].table
<1> USE DEF StageBlock
<1>1. /\ Run' = Run /\ Plan' = Plan /\ plans # <<>> /\ \A b : FileOf(Run, b)' = FileOf(Run, b)
      /\ blk \in DOMAIN Plan /\ Plan[blk].wanted /\ t0 \in Tables /\ blk \in Nat
  BY PlanIsPlan DEF LoadInv, TypeInv, PassInv, Run, Plan, FileOf
<1>2. FileOf(Run, blk) \in Files
  BY <1>1, PlanIsPlan DEF LoadInv, FileOf, Files, Plan
<1>3. TypeInv'
  <2>1. staged' \in [Tables -> SUBSET Files]
    BY <1>1, <1>2 DEF LoadInv, TypeInv
  <2> QED
    BY <2>1 DEF LoadInv, TypeInv
<1>4. PassInv'
  <2>1. \A x \in DOMAIN Plan : x \in Nat
    BY <1>1, PlanIsPlan DEF LoadInv
  <2>2. \A x \in DOMAIN Plan : x < blk + 1 <=> x < blk \/ x = blk
    BY <1>1, <2>1
  <2> DEFINE Upto(n, t) == {x \in DOMAIN Plan : x < n /\ Plan[x].table = t /\ Plan[x].wanted /\ Plan[x].rows}
  <2>3. \A t \in Tables : t # t0 => Upto(blk + 1, t) = Upto(blk, t)
    BY <2>2
  <2>4. Upto(blk + 1, t0) = Upto(blk, t0) \cup IF Plan[blk].rows THEN {blk} ELSE {}
    BY <1>1, <2>2
  <2>5. ASSUME NEW t \in Tables PROVE staged'[t] = {FileOf(Run, b) : b \in Upto(blk + 1, t)}
    <3>1. staged[t] = {FileOf(Run, b) : b \in Upto(blk, t)}
      BY DEF LoadInv, PassInv
    <3>2. CASE t = t0
      <4>1. staged'[t] = staged[t] \cup IF Plan[blk].rows THEN {FileOf(Run, blk)} ELSE {}
        BY <3>2, <1>1 DEF LoadInv, TypeInv
      <4> HIDE DEF Upto, t0
      <4> QED
        BY <2>4, <3>1, <3>2, <4>1
    <3>3. CASE t # t0
      <4>1. staged'[t] = staged[t]
        BY <3>3, <1>1 DEF LoadInv, TypeInv
      <4> QED
        BY <2>3, <3>1, <3>3, <4>1
    <3> QED
      BY <3>2, <3>3
  <2>6. \A t \in Tables : staged'[t] = {FileOf(Run, b)' : b \in Upto(blk + 1, t)}
    BY <1>1, <2>5
  <2>7. \A i \in DOMAIN targets : \E k \in DOMAIN targets : targets[k].table = targets[i].table /\ FirstTarget(k)'
    BY DEF LoadInv, PassInv, FirstTarget
  <2>8. \A b \in DOMAIN Plan : Plan[b].wanted /\ b < blk + 1 => \E k \in DOMAIN targets : targets[k].table = Plan[b].table
    BY <2>2 DEF LoadInv, PassInv
  <2>9. /\ phase' = "open" /\ blk' = blk + 1 /\ targets' = targets
        /\ \A i \in DOMAIN targets : targets[i].actions = {} /\ targets[i].state = "todo"
    BY DEF LoadInv, PassInv
  <2> HIDE DEF StageBlock
  <2> QED
    BY <1>1, <2>6, <2>7, <2>8, <2>9 DEF PassInv
<1>5. TargetInv' /\ SchemaAgrees'
  BY TargetsStand, SchemasStand DEF LoadInv
<1>6. RunsInv'
  BY DEF LoadInv, RunsInv, Run
<1>7. RerunRecovers'
  BY DEF LoadInv, TypeInv, RerunRecovers
<1> QED
  BY <1>3, <1>4, <1>5, <1>6, <1>7 DEF LoadInv

(* Once the whole dump has been read, what is staged is what the load      *)
(* produces.                                                               *)
LEMMA StagedIsProduced ==
    ASSUME LoadInv, phase # "idle", blk > Len(Plan), NEW t \in Tables
    PROVE  staged[t] = Produced(Run, t)
<1>1. plans # <<>> /\ blk \in Nat
  BY DEF LoadInv, TypeInv
<1>2. Plan \in Seq(Blocks)
  BY <1>1, PlanIsPlan DEF LoadInv
<1>3. \A x \in DOMAIN Plan : x < blk
  BY <1>1, <1>2
<1>4. staged[t] = {FileOf(Run, b) : b \in {x \in DOMAIN Plan : x < blk /\ Plan[x].table = t /\ Plan[x].wanted
                                                                /\ Plan[x].rows}}
  BY DEF LoadInv, PassInv
<1>5. {x \in DOMAIN Plan : x < blk /\ Plan[x].table = t /\ Plan[x].wanted /\ Plan[x].rows}
        = {x \in DOMAIN Plan : Plan[x].table = t /\ Plan[x].wanted /\ Plan[x].rows}
  BY <1>3
<1> QED
  BY <1>4, <1>5 DEF Produced, Plan

LEMMA EndPassLoadInv ==
    ASSUME LoadInv, EndPass
    PROVE  LoadInv'
<1> USE DEF EndPass
<1> DEFINE Given(i) == IF FirstTarget(i) THEN staged[targets[i].table] ELSE {}
<1>1. /\ Run' = Run /\ Plan' = Plan /\ plans # <<>> /\ \A t : Produced(Run, t)' = Produced(Run, t)
      /\ DOMAIN targets' = DOMAIN targets
  BY DEF LoadInv, TypeInv, Run, Plan, FileOf, Produced
<1>2. ASSUME NEW i \in DOMAIN targets
      PROVE  /\ targets'[i] = [targets[i] EXCEPT !.actions = Given(i)]
             /\ Given(i) \subseteq Produced(Run, targets[i].table)
             /\ Given(i) \subseteq Files
  <2>1. targets'[i] = [targets[i] EXCEPT !.actions = Given(i)]
    BY DEF FirstTarget
  <2>2. targets[i].table \in Tables
    BY TargetIsTarget DEF LoadInv
  <2>3. staged[targets[i].table] = Produced(Run, targets[i].table) /\ staged[targets[i].table] \subseteq Files
    BY <2>2, StagedIsProduced DEF LoadInv, TypeInv
  <2> QED
    BY <2>1, <2>3
<1>3. ASSUME NEW i \in DOMAIN targets
      PROVE  /\ targets'[i] \in Targets
             /\ targets'[i].table = targets[i].table
             /\ targets'[i].base = targets[i].base
             /\ targets'[i].schema = targets[i].schema
             /\ targets'[i].drift = targets[i].drift
             /\ targets'[i].state = targets[i].state
             /\ targets'[i].actions = Given(i)
  <2>1. targets[i] \in Targets
    BY TargetIsTarget DEF LoadInv
  <2> HIDE DEF Given, EndPass
  <2>2. Given(i) \in SUBSET Files /\ targets'[i] = [targets[i] EXCEPT !.actions = Given(i)]
    BY <1>2
  <2> QED
    BY <2>1, <2>2, WithActions
<1>4. TypeInv'
  <2>1. targets' \in Seq(Targets)
    <3>1. Len(targets) \in Nat /\ DOMAIN targets = 1..Len(targets)
      BY DEF LoadInv, TypeInv
    <3>2. targets' \in [1..Len(targets) -> Targets]
      BY <1>3, <3>1
    <3> QED
      BY <3>1, <3>2
  <2>2. targets' # <<>> => targets # <<>>
    BY <1>1 DEF LoadInv, TypeInv
  <2> QED
    BY <1>1, <2>1 DEF LoadInv, TypeInv
<1>5. \A i \in DOMAIN targets : FirstTarget(i)' <=> FirstTarget(i)
  <2>1. \A i \in DOMAIN targets : \A j \in 1..(i - 1) : j \in DOMAIN targets
    BY DEF LoadInv, TypeInv
  <2>2. \A i \in DOMAIN targets : targets'[i].table = targets[i].table
    BY <1>3
  <2> HIDE DEF EndPass
  <2> QED
    BY <2>1, <2>2 DEF FirstTarget
<1>6. PassInv'
  <2>1. \A t \in Tables : staged[t] = {FileOf(Run, b)' : b \in {x \in DOMAIN Plan : x < blk /\ Plan[x].table = t
                                                                 /\ Plan[x].wanted /\ Plan[x].rows}}
    BY <1>1 DEF LoadInv, PassInv, FileOf
  <2>2. ASSUME NEW b \in DOMAIN Plan, Plan[b].wanted, b < blk
        PROVE  \E k \in DOMAIN targets : targets'[k].table = Plan[b].table
    <3>1. PICK k \in DOMAIN targets : targets[k].table = Plan[b].table
      BY <2>2 DEF LoadInv, PassInv
    <3>2. targets'[k].table = targets[k].table
      BY <1>3
    <3> QED
      BY <3>1, <3>2
  <2>3. ASSUME NEW i \in DOMAIN targets
        PROVE  \E k \in DOMAIN targets : targets'[k].table = targets'[i].table /\ FirstTarget(k)'
    <3>1. PICK k \in DOMAIN targets : targets[k].table = targets[i].table /\ FirstTarget(k)
      BY DEF LoadInv, PassInv
    <3>2. targets'[k].table = targets[k].table /\ targets'[i].table = targets[i].table
      BY <1>3
    <3> QED
      BY <1>5, <3>1, <3>2
  <2>4. ASSUME NEW i \in DOMAIN targets
        PROVE  targets'[i].actions = IF FirstTarget(i)' THEN staged[targets'[i].table] ELSE {}
    <3>1. targets'[i].table = targets[i].table /\ targets'[i].actions = Given(i)
      BY <1>3
    <3> QED
      BY <1>5, <3>1
  <2>5. blk > Len(Plan) /\ blk \in Nat /\ phase' = "commit" /\ UNCHANGED <<blk, staged>>
    BY DEF LoadInv, TypeInv
  <2>6. \A b \in DOMAIN Plan : b < blk
    BY <1>1, <2>5, PlanIsPlan DEF LoadInv
  <2> HIDE DEF EndPass
  <2> QED
    BY <1>1, <2>1, <2>2, <2>3, <2>4, <2>5, <2>6 DEF PassInv
<1>7. TargetInv'
  <2> SUFFICES ASSUME NEW i \in DOMAIN targets
               PROVE  GoodTarget(targets[i])'
    BY <1>1 DEF TargetInv
  <2>1. GoodTarget(targets[i]) /\ targets[i].state = "todo"
    BY DEF LoadInv, TargetInv, PassInv
  <2>2. \A g : GoodTarget(g) => GoodTarget(g)'
    BY TargetStands
  <2>3. GoodTarget([targets[i] EXCEPT !.actions = Given(i)])
    <3> DEFINE h == [targets[i] EXCEPT !.actions = Given(i)]
    <3>1. /\ h.table = targets[i].table /\ h.base = targets[i].base /\ h.schema = targets[i].schema
          /\ h.drift = targets[i].drift /\ h.state = targets[i].state /\ h.actions = Given(i)
      BY <1>2, <1>3
    <3>2. Given(i) \subseteq Produced(Run, targets[i].table)
      BY <1>2
    <3> HIDE DEF h, Given
    <3>3. Base(h) = Base(targets[i])
      BY <3>1 DEF Base
    <3>4. GoodTarget(h)
      BY <2>1, <3>1, <3>2, <3>3 DEF GoodTarget
    <3> QED
      BY <3>4 DEF h
  <2>4. \A g : g = targets'[i] => GoodTarget(g)'
    BY <1>2, <2>2, <2>3
  <2> QED
    BY <2>4
<1>8. SchemaAgrees'
  BY SchemasStand DEF LoadInv
<1>9. RunsInv'
  BY <1>1 DEF LoadInv, RunsInv
<1>10. RerunRecovers'
  BY DEF LoadInv, TypeInv, RerunRecovers
<1> QED
  BY <1>4, <1>6, <1>7, <1>8, <1>9, <1>10 DEF LoadInv

LEMMA CommitsOverLoadInv ==
    ASSUME LoadInv, CommitsOver
    PROVE  LoadInv'
<1>1. CASE phase' = "record" /\ UNCHANGED result
  <2> USE <1>1 DEF CommitsOver
  <2>1. TypeInv'
    BY DEF LoadInv, TypeInv
  <2>2. \A i \in DOMAIN targets : targets[i].state = "ok"
    BY DEF Return
  <2>3. PassInv'
    BY <2>2 DEF LoadInv, PassInv, Run, Plan, FileOf, FirstTarget
  <2>4. TargetInv' /\ SchemaAgrees'
    BY TargetsStand, SchemasStand DEF LoadInv
  <2>5. RunsInv'
    BY DEF LoadInv, RunsInv, Run
  <2>6. RerunRecovers'
    BY DEF LoadInv, TypeInv, RerunRecovers
  <2> QED
    BY <2>1, <2>3, <2>4, <2>5, <2>6 DEF LoadInv
<1>2. CASE Return("CommitFailed")
  BY <1>2, StopLoadInv DEF CommitsOver
<1> QED
  BY <1>1, <1>2 DEF CommitsOver

(* The last step of a successful load.                                     *)
LEMMA RecordLoadInv ==
    ASSUME LoadInv, Record
    PROVE  LoadInv'
<1>1. CASE Return("ManifestFailed")
  BY <1>1, StopLoadInv DEF Record
<1>2. CASE Return("ok")
  <2> USE <1>2 DEF Record, Return
  <2>1. TypeInv'
    BY DEF LoadInv, TypeInv
  <2>2. PassInv'
    BY DEF LoadInv, PassInv, FirstTarget
  <2>3. TargetInv' /\ SchemaAgrees'
    BY TargetsStand, SchemasStand DEF LoadInv
  <2>4. RunsInv'
    BY DEF LoadInv, RunsInv, Run
  <2>5. RerunRecovers'
    <3>1. /\ Run' = Run /\ Plan' = Plan /\ plans # <<>> /\ blk \in Nat /\ blk > Len(Plan)
          /\ \A t : Produced(Run, t)' = Produced(Run, t) /\ Contents(t)' = Contents(t)
      BY DEF LoadInv, TypeInv, PassInv, Run, Plan, FileOf, Produced, Contents, Latest
    <3> SUFFICES ASSUME NEW b \in DOMAIN Plan, Plan[b].wanted
                 PROVE  /\ Produced(Run, Plan[b].table) \subseteq Contents(Plan[b].table)
                        /\ mode = "overwrite" => Contents(Plan[b].table) = Produced(Run, Plan[b].table)
      BY <3>1 DEF RerunRecovers
    <3> DEFINE t == Plan[b].table
    <3>2. t \in Tables /\ b < blk
      BY <3>1, PlanIsPlan DEF LoadInv
    <3>3. PICK i \in DOMAIN targets : targets[i].table = t
      BY <3>2 DEF LoadInv, PassInv
    <3>4. PICK k \in DOMAIN targets : targets[k].table = t /\ FirstTarget(k)
      BY <3>3 DEF LoadInv, PassInv
    <3>5. targets[k].actions = Produced(Run, t) /\ targets[k].state = "ok"
      BY <3>1, <3>2, <3>4, StagedIsProduced DEF LoadInv, PassInv
    <3>6. /\ targets[k].actions \subseteq Latest(t).files
          /\ mode = "overwrite" => Latest(t).files \cap Base(targets[k]).files = {}
          /\ Latest(t).files \subseteq Base(targets[k]).files \cup Produced(Run, t)
          /\ targets[k].base \in DOMAIN log[t]
      BY <3>4, <3>5 DEF LoadInv, TargetInv, GoodTarget
    <3>7. Contents(t) = Latest(t).files
      BY <3>6 DEF Contents
    <3> QED
      BY <3>5, <3>6, <3>7
  <2> QED
    BY <2>1, <2>2, <2>3, <2>4, <2>5 DEF LoadInv
<1> QED
  BY <1>1, <1>2 DEF Record

-----------------------------------------------------------------------------
(* A block whose table has been opened: one more target.                   *)
LEMMA OpenTargetLoadInv ==
    ASSUME LoadInv, phase = "open", blk <= Len(Plan), Plan[blk].wanted,
           UNCHANGED <<mode, plans, blk, staged>>,
           NEW base \in Nat, NEW drift \in Drifts, OpenTarget(Plan[blk].table, base, drift),
           log' \in [Tables -> Seq(Versions)],
           \A i \in DOMAIN targets : \A g : g = targets[i] => GoodTarget(g)',
           \A g : g = [table |-> Plan[blk].table, base |-> base, schema |-> Plan[blk].schema,
                       drift |-> drift, actions |-> {}, state |-> "todo"] => GoodTarget(g)',
           RunsInv', SchemaAgrees'
    PROVE  LoadInv'
<1> DEFINE t == Plan[blk].table
           new == [table |-> t, base |-> base, schema |-> Plan[blk].schema,
                   drift |-> drift, actions |-> {}, state |-> "todo"]
<1>0. PICK n \in Nat : n = Len(targets)
  BY DEF LoadInv, TypeInv
<1>1. /\ plans # <<>> /\ blk \in DOMAIN Plan /\ t \in Tables /\ Plan[blk].schema \in Schemas /\ blk \in Nat
      /\ Run' = Run /\ Plan' = Plan /\ \A b : FileOf(Run, b)' = FileOf(Run, b)
  <2>1. plans # <<>> /\ blk \in Nat /\ blk >= 1
    BY DEF LoadInv, TypeInv
  <2>2. blk \in DOMAIN Plan
    BY <2>1, PlanIsPlan DEF LoadInv
  <2> QED
    BY <2>1, <2>2, PlanIsPlan DEF LoadInv, Run, Plan, FileOf
<1>2. new \in Targets
  BY <1>1 DEF Targets, Outcomes
<1>3. /\ targets \in Seq(Targets) /\ n \in Nat /\ DOMAIN targets = 1..n
      /\ targets' = Append(targets, new) /\ phase' = "stage" /\ result' = result
  BY <1>0 DEF LoadInv, TypeInv, OpenTarget
<1>4. /\ targets' \in Seq(Targets)
      /\ DOMAIN targets' = 1..(n + 1)
      /\ \A i \in 1..n : targets'[i] = targets[i]
      /\ targets'[n + 1] = new
  <2> HIDE DEF new
  <2> QED
    BY <1>2, <1>3
<1>5. TypeInv'
  BY <1>1, <1>3, <1>4 DEF LoadInv, TypeInv
<1>6. new.table = t /\ new.actions = {} /\ new.state = "todo"
  OBVIOUS
<1> HIDE DEF new
<1>7. \A i \in 1..n : FirstTarget(i)' <=> FirstTarget(i)
  <2>1. \A i \in 1..n : \A j \in 1..(i - 1) : j \in 1..n
    BY <1>3
  <2> QED
    BY <1>4, <2>1 DEF FirstTarget
<1>8. \A i \in 1..(n + 1) : \E k \in 1..(n + 1) : targets'[k].table = targets'[i].table /\ FirstTarget(k)'
  <2>1. ASSUME NEW i \in 1..n
        PROVE  \E k \in 1..(n + 1) : targets'[k].table = targets'[i].table /\ FirstTarget(k)'
    <3>1. PICK k \in 1..n : targets[k].table = targets[i].table /\ FirstTarget(k)
      BY <1>3 DEF LoadInv, PassInv
    <3>2. k \in 1..(n + 1) /\ targets'[k] = targets[k] /\ targets'[i] = targets[i]
      BY <1>3, <1>4
    <3> QED
      BY <1>7, <3>1, <3>2
  <2>2. CASE \E j \in 1..n : targets[j].table = t
    <3>1. PICK j \in 1..n : targets[j].table = t
      BY <2>2
    <3>2. targets'[j].table = targets'[n + 1].table
      BY <1>4, <1>6, <3>1
    <3>3. \A i \in 1..(n + 1) : i \in 1..n \/ i = n + 1
      BY <1>3
    <3> QED
      BY <2>1, <3>2, <3>3
  <2>3. CASE \A j \in 1..n : targets[j].table # t
    <3>1. FirstTarget(n + 1)'
      <4>1. (n + 1) - 1 = n
        BY <1>3
      <4>2. \A j \in 1..n : targets'[j].table # targets'[n + 1].table
        BY <1>4, <1>6, <2>3
      <4> QED
        BY <4>1, <4>2 DEF FirstTarget
    <3>2. n + 1 \in 1..(n + 1) /\ \A i \in 1..(n + 1) : i \in 1..n \/ i = n + 1
      BY <1>3
    <3> QED
      BY <2>1, <3>1, <3>2
  <2> QED
    BY <2>2, <2>3
<1>9. PassInv'
  <2>1. \A x \in Tables : staged[x] = {FileOf(Run, b)' : b \in {y \in DOMAIN Plan : y < blk /\ Plan[y].table = x
                                                                 /\ Plan[y].wanted /\ Plan[y].rows}}
    BY <1>1 DEF LoadInv, PassInv
  <2>2. ASSUME NEW b \in DOMAIN Plan, Plan[b].wanted, b < blk \/ b = blk
        PROVE  \E k \in 1..(n + 1) : targets'[k].table = Plan[b].table
    <3>1. CASE b = blk
      <4>1. n + 1 \in 1..(n + 1) /\ targets'[n + 1].table = Plan[b].table
        BY <1>3, <1>4, <1>6, <3>1
      <4> QED
        BY <4>1
    <3>2. CASE b < blk
      <4>1. PICK k \in 1..n : targets[k].table = Plan[b].table
        BY <1>3, <2>2, <3>2 DEF LoadInv, PassInv
      <4>2. k \in 1..(n + 1) /\ targets'[k].table = Plan[b].table
        BY <1>3, <1>4, <4>1
      <4> QED
        BY <4>2
    <3> QED
      BY <2>2, <3>1, <3>2
  <2>3. ASSUME NEW i \in 1..(n + 1) PROVE targets'[i].actions = {} /\ targets'[i].state = "todo"
    <3>1. CASE i = n + 1
      BY <1>4, <1>6, <3>1
    <3>2. CASE i \in 1..n
      <4>1. targets[i].actions = {} /\ targets[i].state = "todo"
        BY <1>3, <3>2 DEF LoadInv, PassInv
      <4> QED
        BY <1>4, <3>2, <4>1
    <3> QED
      BY <1>3, <3>1, <3>2
  <2>4. DOMAIN targets' = 1..(n + 1) /\ phase' = "stage" /\ blk \in DOMAIN Plan /\ Plan' = Plan
    BY <1>1, <1>3, <1>4
  <2>5. \A x \in Tables : staged'[x] = {FileOf(Run, b)' : b \in {y \in DOMAIN Plan' : y < blk' /\ Plan'[y].table = x
                                                                  /\ Plan'[y].wanted /\ Plan'[y].rows}}
    BY <2>1, <2>4
  <2>6. \A b \in DOMAIN Plan' : Plan'[b].wanted /\ (b < blk' \/ b = blk') =>
          \E k \in DOMAIN targets' : targets'[k].table = Plan'[b].table
    BY <2>2, <2>4
  <2>7. \A i \in DOMAIN targets' : \E k \in DOMAIN targets' : targets'[k].table = targets'[i].table /\ FirstTarget(k)'
    BY <1>8, <2>4
  <2>8. \A i \in DOMAIN targets' : targets'[i].actions = {} /\ targets'[i].state = "todo"
    BY <2>3, <2>4
  <2>9. blk' \in DOMAIN Plan' /\ Plan'[blk'].wanted
    BY <2>4
  <2> QED
    BY <2>4, <2>5, <2>6, <2>7, <2>8, <2>9 DEF PassInv
<1>10. TargetInv'
  <2> SUFFICES ASSUME NEW i \in 1..(n + 1) PROVE GoodTarget(targets[i])'
    BY <1>4 DEF TargetInv
  <2>1. \A g : g = targets'[i] => GoodTarget(g)'
    <3>1. CASE i = n + 1
      BY <1>4, <3>1 DEF new
    <3>2. CASE i \in 1..n
      BY <1>3, <1>4, <3>2
    <3> QED
      BY <1>3, <3>1, <3>2
  <2> QED
    BY <2>1
<1>11. RerunRecovers'
  BY <1>3 DEF LoadInv, TypeInv, RerunRecovers
<1> QED
  BY <1>5, <1>9, <1>10, <1>11 DEF LoadInv

LEMMA OpenBlockLoadInv ==
    ASSUME LoadInv, OpenBlock
    PROVE  LoadInv'
<1> DEFINE t == Plan[blk].table
           s == Plan[blk].schema
           drift == diff_schema(Latest(t).schema, s)
           created == [files |-> {}, schema |-> s, removed |-> {}, meta |-> TRUE]
           New(b, d) == [table |-> t, base |-> b, schema |-> s, drift |-> d, actions |-> {}, state |-> "todo"]
<1>1. /\ phase = "open" /\ blk <= Len(Plan) /\ Plan[blk].wanted
      /\ UNCHANGED <<mode, plans, blk, staged>>
  BY DEF OpenBlock
<1>2. plans # <<>> /\ blk \in DOMAIN Plan /\ t \in Tables /\ s \in Schemas /\ Run \in Nat
      /\ Run' = Run /\ Plan' = Plan
  <2>1. plans # <<>> /\ blk \in Nat /\ blk >= 1
    BY <1>1 DEF LoadInv, TypeInv
  <2>2. blk \in DOMAIN Plan
    BY <1>1, <2>1, PlanIsPlan DEF LoadInv
  <2> QED
    BY <1>1, <2>1, <2>2, PlanIsPlan DEF LoadInv, Run, Plan
<1>3. CASE log[t] = <<>> /\ log' = [log EXCEPT ![t] = <<created>>] /\ OpenTarget(t, 1, NoDrift)
  <2>1. created \in Versions
    BY <1>2 DEF Versions
  <2>2. log' \in [Tables -> Seq(Versions)] /\ log'[t] = <<created>> /\ \A x \in Tables : x # t => log'[x] = log[x]
    <3> HIDE DEF created, t
    <3> QED
      BY <1>2, <1>3, <2>1 DEF LoadInv, TypeInv
  <2>3. ASSUME NEW i \in DOMAIN targets, NEW g, g = targets[i] PROVE GoodTarget(g)'
    <3>1. GoodTarget(g) /\ g.table \in Tables
      BY <2>3, TargetIsTarget DEF LoadInv, TargetInv
    <3>2. g.table # t
      BY <1>3, <3>1 DEF GoodTarget
    <3> QED
      BY <1>1, <2>2, <3>1, <3>2, TargetStands
  <2>4. /\ Len(log'[t]) = 1 /\ DOMAIN log'[t] = {1} /\ log'[t][1] = created
        /\ created.files = {} /\ created.schema = s
    BY <2>2
  <2>5. ASSUME NEW g, g = New(1, NoDrift) PROVE GoodTarget(g)'
    <3>1. g.table = t /\ g.base = 1 /\ g.schema = s /\ g.drift = NoDrift /\ g.actions = {} /\ g.state = "todo"
      BY <2>5
    <3>2. Base(g)' = created /\ Latest(g.table)' = created
      BY <2>4, <3>1 DEF Base, Latest
    <3>3. diff_schema(Base(g).schema, g.schema)' = NoDrift
      BY <2>4, <3>1, <3>2 DEF diff_schema, NoDrift, FieldNames
    <3>4. \E b \in DOMAIN Plan : Plan[b].table = t /\ Plan[b].schema = s
      BY <1>2
    <3> HIDE DEF created, t, s, New
    <3> QED
      BY <1>2, <2>4, <3>1, <3>2, <3>3, <3>4 DEF GoodTarget
  <2>6. RunsInv'
    BY <1>2, <1>1, <2>2, <2>4 DEF LoadInv, RunsInv, OpenTarget
  <2>7. SchemaAgrees'
    BY <1>1, <2>2, <2>4 DEF LoadInv, SchemaAgrees, SchemaHolds
  <2>8. NoDrift \in Drifts /\ 1 \in Nat
    BY DEF Drifts
  <2> QED
    BY <1>1, <1>3, <2>2, <2>3, <2>5, <2>6, <2>7, <2>8, OpenTargetLoadInv
<1>4. CASE log[t] # <<>> /\ ~RefusesTable(t, drift) /\ OpenTarget(t, Len(log[t]), drift) /\ UNCHANGED log
  <2>1. PICK n \in Nat : n = Len(log[t])
    BY <1>2, LogIsVersions DEF LoadInv
  <2>2. PICK d : d = drift
    OBVIOUS
  <2>3. n \in DOMAIN log[t] /\ log[t][n] = Latest(t) /\ log[t][n].schema \in Schemas
    BY <1>2, <1>4, <2>1, LogIsVersions DEF LoadInv, Latest
  <2>4. d \in Drifts
    BY <1>2, <2>2, <2>3 DEF Drifts
  <2>5. ASSUME NEW i \in DOMAIN targets, NEW g, g = targets[i] PROVE GoodTarget(g)'
    BY <1>1, <1>4, <2>5, TargetStands DEF LoadInv, TargetInv
  <2>6. ASSUME NEW g, g = New(n, d) PROVE GoodTarget(g)'
    <3>1. g.table = t /\ g.base = n /\ g.schema = s /\ g.drift = d /\ g.actions = {} /\ g.state = "todo"
      BY <2>6
    <3>2. Base(g) = Latest(t)
      BY <2>3, <3>1 DEF Base
    <3>3. \A f \in Latest(t).files : f.run < Run
      BY <1>1, <1>2, <2>3 DEF LoadInv, RunsInv
    <3>4. mode = "append" => d = NoDrift
      BY <1>4, <2>2 DEF RefusesTable
    <3>5. \E b \in DOMAIN Plan : Plan[b].table = t /\ Plan[b].schema = s
      BY <1>2
    <3> HIDE DEF t, s, New
    <3>6. GoodTarget(g)
      BY <2>1, <2>2, <2>3, <3>1, <3>2, <3>3, <3>4, <3>5 DEF GoodTarget
    <3> QED
      BY <1>1, <1>4, <3>6, TargetStands
  <2>7. RunsInv'
    BY <1>1, <1>2, <1>4 DEF LoadInv, RunsInv, OpenTarget
  <2>8. SchemaAgrees' /\ log' \in [Tables -> Seq(Versions)]
    BY <1>1, <1>4, SchemasStand DEF LoadInv, TypeInv
  <2>9. OpenTarget(t, n, d)
    BY <1>4, <2>1, <2>2
  <2> HIDE DEF drift
  <2> QED
    BY <1>1, <2>4, <2>5, <2>6, <2>7, <2>8, <2>9, OpenTargetLoadInv
<1>5. CASE log[t] = <<>> /\ log' = [log EXCEPT ![t] = <<created>>] /\ Return("PassFailed") /\ UNCHANGED targets
  <2>1. created \in Versions
    BY <1>2 DEF Versions
  <2>2. log' \in [Tables -> Seq(Versions)] /\ log'[t] = <<created>> /\ \A x \in Tables : x # t => log'[x] = log[x]
    <3> HIDE DEF created, t
    <3> QED
      BY <1>2, <1>5, <2>1 DEF LoadInv, TypeInv
  <2>3. DOMAIN log'[t] = {1} /\ log'[t][1].files = {}
    BY <2>2
  <2>4. TypeInv'
    BY <1>1, <1>5, <2>2 DEF LoadInv, TypeInv, Return
  <2>5. PassInv'
    BY <1>1, <1>5 DEF LoadInv, PassInv, Return, FirstTarget
  <2>6. TargetInv'
    <3> SUFFICES ASSUME NEW i \in DOMAIN targets PROVE GoodTarget(targets[i])'
      BY <1>5 DEF TargetInv
    <3>1. GoodTarget(targets[i]) /\ targets[i].table \in Tables
      BY TargetIsTarget DEF LoadInv, TargetInv
    <3>2. targets[i].table # t
      BY <1>5, <3>1 DEF GoodTarget
    <3>3. \A g : g = targets[i] => GoodTarget(g)'
      BY <1>1, <2>2, <3>1, <3>2, TargetStands
    <3> QED
      BY <1>5, <3>3
  <2>7. RunsInv'
    BY <1>2, <1>5, <2>2, <2>3 DEF LoadInv, RunsInv, Return
  <2>8. SchemaAgrees'
    BY <1>1, <2>2, <2>3 DEF LoadInv, SchemaAgrees, SchemaHolds
  <2>9. RerunRecovers'
    BY <1>5 DEF RerunRecovers, Return
  <2> QED
    BY <2>4, <2>5, <2>6, <2>7, <2>8, <2>9 DEF LoadInv
<1>6. CASE Return("PassFailed") /\ UNCHANGED <<log, targets>>
  BY <1>1, <1>6, StopLoadInv
<1> QED
  BY <1>3, <1>4, <1>5, <1>6 DEF OpenBlock

-----------------------------------------------------------------------------
(* One target ends; whatever became of the log.                            *)
LEMMA TargetEndsLoadInv ==
    ASSUME LoadInv, phase = "commit", NEW i \in DOMAIN targets, NEW how \in Outcomes,
           targets' = [targets EXCEPT ![i].state = how],
           UNCHANGED <<mode, plans, phase, blk, staged, result>>,
           log' \in [Tables -> Seq(Versions)],
           \A j \in DOMAIN targets : \A g : g = targets'[j] => GoodTarget(g)',
           RunsInv', SchemaAgrees'
    PROVE  LoadInv'
<1>1. /\ targets \in Seq(Targets) /\ Len(targets) \in Nat /\ DOMAIN targets = 1..Len(targets)
      /\ DOMAIN targets' = DOMAIN targets
  BY DEF LoadInv, TypeInv
<1>2. ASSUME NEW j \in DOMAIN targets
      PROVE  targets'[j] \in Targets /\ targets'[j].table = targets[j].table /\ targets'[j].actions = targets[j].actions
  <2>1. targets[j] \in Targets
    BY TargetIsTarget DEF LoadInv
  <2>2. CASE j = i
    BY <2>1, <2>2, WithState
  <2>3. CASE j # i
    BY <2>1, <2>3
  <2> QED
    BY <2>2, <2>3
<1>3. TypeInv'
  <2>1. targets' \in [1..Len(targets) -> Targets]
    BY <1>1, <1>2
  <2>2. targets' \in Seq(Targets)
    BY <1>1, <2>1
  <2>3. plans # <<>>
    BY DEF LoadInv, TypeInv
  <2> QED
    BY <2>2, <2>3 DEF LoadInv, TypeInv
<1>4. \A k \in DOMAIN targets : FirstTarget(k)' <=> FirstTarget(k)
  <2>1. \A k \in DOMAIN targets : \A j \in 1..(k - 1) : j \in DOMAIN targets
    BY <1>1
  <2> QED
    BY <1>2, <2>1 DEF FirstTarget
<1>5. PassInv'
  <2>1. Run' = Run /\ Plan' = Plan /\ \A b : FileOf(Run, b)' = FileOf(Run, b)
    BY DEF Run, Plan, FileOf
  <2>2. \A x \in Tables : staged'[x] = {FileOf(Run, b)' : b \in {y \in DOMAIN Plan' : y < blk' /\ Plan'[y].table = x
                                                                  /\ Plan'[y].wanted /\ Plan'[y].rows}}
    BY <2>1 DEF LoadInv, PassInv
  <2>3. ASSUME NEW b \in DOMAIN Plan', Plan'[b].wanted, b < blk'
        PROVE  \E k \in DOMAIN targets' : targets'[k].table = Plan'[b].table
    <3>1. PICK k \in DOMAIN targets : targets[k].table = Plan[b].table
      BY <2>1, <2>3 DEF LoadInv, PassInv
    <3> QED
      BY <1>1, <1>2, <2>1, <3>1
  <2>4. ASSUME NEW j \in DOMAIN targets'
        PROVE  \E k \in DOMAIN targets' : targets'[k].table = targets'[j].table /\ FirstTarget(k)'
    <3>1. PICK k \in DOMAIN targets : targets[k].table = targets[j].table /\ FirstTarget(k)
      BY <1>1 DEF LoadInv, PassInv
    <3>2. targets'[k].table = targets[k].table /\ targets'[j].table = targets[j].table /\ k \in DOMAIN targets'
      BY <1>1, <1>2
    <3> QED
      BY <1>4, <3>1, <3>2
  <2>5. ASSUME NEW j \in DOMAIN targets'
        PROVE  targets'[j].actions = IF FirstTarget(j)' THEN staged'[targets'[j].table] ELSE {}
    <3>1. targets[j].actions = IF FirstTarget(j) THEN staged[targets[j].table] ELSE {}
      BY <1>1 DEF LoadInv, PassInv
    <3> QED
      BY <1>1, <1>2, <1>4, <3>1
  <2>6. phase' = "commit" /\ blk' > Len(Plan')
    BY <2>1 DEF LoadInv, PassInv
  <2> QED
    BY <2>2, <2>3, <2>4, <2>5, <2>6 DEF PassInv
<1>6. TargetInv'
  <2> SUFFICES ASSUME NEW j \in DOMAIN targets PROVE GoodTarget(targets[j])'
    BY <1>1 DEF TargetInv
  <2>1. \A g : g = targets'[j] => GoodTarget(g)'
    OBVIOUS
  <2> QED
    BY <2>1
<1>7. RerunRecovers'
  BY DEF LoadInv, TypeInv, RerunRecovers
<1> QED
  BY <1>3, <1>5, <1>6, <1>7 DEF LoadInv

(* The load's own files are none of those its target was opened over.      *)
LEMMA ProducedIsNew ==
    ASSUME TypeInv, plans # <<>>, NEW g, GoodTarget(g), g.table \in Tables, NEW t \in Tables
    PROVE  Produced(Run, t) \cap Base(g).files = {}
<1>1. ASSUME NEW f \in Produced(Run, t), f \in Base(g).files PROVE FALSE
  <2>1. f.run = Run /\ f.run < Run /\ Run \in Nat
    BY <1>1, ProducedFiles, PlanIsPlan DEF GoodTarget
  <2> QED
    BY <2>1
<1> QED
  BY <1>1

(* What a commit that lands adds to the log: its files have the schema it  *)
(* declares, for either the drift is none, or it is declared, and nobody   *)
(* has changed the schema since the table was opened.                      *)
LEMMA LandedAgrees ==
    ASSUME LoadInv, mode # "error", NEW i \in DOMAIN targets, NEW g, g = targets[i], ~Conflicts(g),
           NEW f \in Landed(g).files
    PROVE  Fields(f.schema) = Fields(Landed(g).schema)
<1> DEFINE t == g.table
           old == Latest(t)
<1>1. /\ GoodTarget(g) /\ t \in Tables /\ g.base \in Nat /\ g.schema \in Schemas /\ plans # <<>>
      /\ Base(g).schema \in Schemas /\ old.schema \in Schemas /\ TypeInv
      /\ Len(log[t]) \in DOMAIN log[t]
  <2>1. GoodTarget(g) /\ t \in Tables /\ g.base \in Nat /\ g.schema \in Schemas /\ plans # <<>> /\ TypeInv
    BY TargetIsTarget DEF LoadInv, TargetInv
  <2>2. g.base \in DOMAIN log[t]
    BY <2>1 DEF GoodTarget
  <2> QED
    BY <2>1, <2>2, LogIsVersions DEF Base, Latest
<1>2. mode \in {"overwrite", "append"}
  BY ModeAssumption DEF LoadInv, TypeInv
<1>3. old.schema = Base(g).schema
  BY <1>1 DEF Conflicts, GoodTarget
<1>4. Landed(g).schema = (IF DeclaresSchema(g) THEN g.schema ELSE old.schema)
  BY DEF Landed
<1>5. Fields(g.schema) = Fields(Landed(g).schema)
  <2>1. CASE DeclaresSchema(g)
    BY <1>4, <2>1
  <2>2. CASE ~DeclaresSchema(g)
    <3>1. g.drift = NoDrift \/ g.schema = Base(g).schema
      BY <1>1, <1>2, <2>2 DEF DeclaresSchema, GoodTarget
    <3>2. g.drift = NoDrift => Fields(Base(g).schema) = Fields(g.schema)
      <4>1. g.drift = diff_schema(Base(g).schema, g.schema)
        BY <1>1 DEF GoodTarget
      <4> QED
        BY <1>1, <4>1, NoDriftSameFields
    <3>3. Landed(g).schema = Base(g).schema
      BY <1>3, <1>4, <2>2
    <3> QED
      BY <3>1, <3>2, <3>3
  <2> QED
    BY <2>1, <2>2
<1>6. CASE f \in Produced(Run, t)
  <2>1. PICK b \in DOMAIN Plan : Plan[b].table = t /\ Plan[b].schema = g.schema
    BY <1>1 DEF GoodTarget
  <2>2. Fields(f.schema) = Fields(g.schema)
    BY <1>1, <1>6, <2>1, ProducedFiles
  <2> QED
    BY <1>5, <2>2
<1>7. CASE f \notin Produced(Run, t)
  <2>1. f \in old.files /\ f \notin Removes(g)
    BY <1>1, <1>7 DEF Landed, GoodTarget
  <2>2. f \in Base(g).files
    BY <1>1, <1>7, <2>1 DEF GoodTarget
  <2>3. mode = "append" /\ ~DeclaresSchema(g)
    BY <1>2, <2>1, <2>2 DEF Removes, DeclaresSchema
  <2>4. Fields(f.schema) = Fields(old.schema)
    BY <1>1, <2>1 DEF LoadInv, SchemaAgrees, SchemaHolds, Latest
  <2> QED
    BY <1>4, <2>3, <2>4
<1> QED
  BY <1>6, <1>7

(* What it does to the targets of its table, the second ones of a table    *)
(* that several blocks feed included: h is one of them, k the same target  *)
(* after the step.                                                         *)
LEMMA LandedKeepsTargets ==
    ASSUME LoadInv, NEW i \in DOMAIN targets, NEW j \in DOMAIN targets,
           NEW g, g = targets[i], NEW h, h = targets[j], h.table = g.table,
           UNCHANGED <<mode, plans>>, NEW new, new = Landed(g),
           log'[g.table] = Append(log[g.table], new),
           NEW k, k.table = h.table, k.base = h.base, k.schema = h.schema,
           k.drift = h.drift, k.actions = h.actions, h = g \/ k.state = h.state
    PROVE  GoodTarget(k)'
<1>1. PICK t \in Tables : t = g.table
  BY TargetIsTarget DEF LoadInv
<1>2. /\ GoodTarget(g) /\ GoodTarget(h) /\ plans # <<>> /\ TypeInv /\ h.base \in Nat /\ g.base \in Nat
      /\ h.table \in Tables /\ g.table \in Tables
  BY TargetIsTarget DEF LoadInv, TargetInv
<1>3. PICK n \in Nat : n = Len(log[t])
  BY <1>2, LogIsVersions
<1>4. log[t] \in Seq(Versions) /\ DOMAIN log[t] = 1..n /\ h.base \in 1..n
  BY <1>1, <1>2, <1>3, LogIsVersions DEF GoodTarget
<1>5. /\ Len(log'[t]) = n + 1 /\ DOMAIN log'[t] = 1..(n + 1)
      /\ \A v \in 1..n : log'[t][v] = log[t][v]
      /\ log'[t][n + 1] = new
  BY <1>1, <1>3, <1>4, SMTT(30)
<1>6. /\ new.files = (Latest(t).files \ Removes(g)) \cup g.actions
      /\ new.schema = (IF DeclaresSchema(g) THEN g.schema ELSE Latest(t).schema)
      /\ new.meta = DeclaresSchema(g)
  BY <1>1 DEF Landed
<1>7. Run' = Run /\ Plan' = Plan /\ \A x : Produced(Run, x)' = Produced(Run, x)
  BY DEF Run, Plan, Produced, FileOf
<1>8. PICK base : base = Base(h) /\ base = log[t][h.base]
  BY <1>1 DEF Base
<1>9. Base(k)' = base /\ Latest(k.table)' = new
  BY <1>1, <1>4, <1>5, <1>8 DEF Base, Latest
<1>10. Produced(Run, t) \cap base.files = {} /\ Produced(Run, t) \cap Base(g).files = {}
  BY <1>2, <1>8, ProducedIsNew
<1>11. /\ g.actions \subseteq Produced(Run, t) /\ h.actions \subseteq Produced(Run, t)
       /\ Latest(t).files \subseteq base.files \cup Produced(Run, t)
  BY <1>1, <1>2, <1>8 DEF GoodTarget
<1>12. Removes(g) \subseteq Base(g).files /\ (mode = "overwrite" => Removes(g) = Base(g).files)
  BY DEF Removes
<1>13. (\A v \in (k.base + 1)..(n + 1) : ~log'[t][v].meta) => new.schema = base.schema
  <2> SUFFICES ASSUME \A v \in (k.base + 1)..(n + 1) : ~log'[t][v].meta PROVE new.schema = base.schema
    OBVIOUS
  <2>1. \A v \in (h.base + 1)..n : ~log[t][v].meta
    BY <1>2, <1>4, <1>5, SMTT(30)
  <2>2. Latest(t).schema = base.schema
    BY <1>1, <1>2, <1>3, <1>8, <2>1 DEF GoodTarget
  <2>3. n + 1 \in (k.base + 1)..(n + 1)
    BY <1>2, <1>4
  <2>4. ~new.meta
    BY <1>5, <2>3
  <2> QED
    BY <1>6, <2>2, <2>4
<1>14. new.files \subseteq base.files \cup Produced(Run, t)
  BY <1>6, <1>11
<1>15. k.state = "ok" => k.actions \subseteq new.files
  <2>1. CASE h = g
    BY <1>6, <2>1
  <2>2. CASE k.state = h.state
    <3>1. h.state = "ok" => h.actions \subseteq Latest(t).files
      BY <1>1, <1>2 DEF GoodTarget
    <3> QED
      BY <1>6, <1>10, <1>11, <1>12, <2>2, <3>1
  <2> QED
    BY <2>1, <2>2
<1>16. k.state = "ok" /\ mode = "overwrite" => new.files \cap base.files = {}
  <2>1. CASE h = g
    <3>1. mode = "overwrite" => Removes(g) = base.files
      BY <1>8, <1>12, <2>1
    <3> QED
      BY <1>6, <1>10, <1>11, <3>1
  <2>2. CASE k.state = h.state
    <3>1. h.state = "ok" /\ mode = "overwrite" => Latest(t).files \cap base.files = {}
      BY <1>1, <1>2, <1>8 DEF GoodTarget
    <3> QED
      BY <1>6, <1>10, <1>11, <2>2, <3>1
  <2> QED
    BY <2>1, <2>2
<1>17. k.drift = diff_schema(base.schema, k.schema) /\ (mode = "append" => k.drift = NoDrift)
  BY <1>2, <1>8 DEF GoodTarget
<1>18. diff_schema(Base(k).schema, k.schema)' = diff_schema(base.schema, k.schema)
  BY <1>9, SMTT(30) DEF diff_schema, FieldNames
<1>19. /\ \E b \in DOMAIN Plan : Plan[b].table = k.table /\ Plan[b].schema = k.schema
       /\ \A f \in base.files : f.run < Run
       /\ k.base \in 1..(n + 1) /\ k.table = t
  BY <1>1, <1>2, <1>4, <1>8 DEF GoodTarget
<1> QED
  BY <1>5, <1>7, <1>9, <1>11, <1>13, <1>14, <1>15, <1>16, <1>17, <1>18, <1>19 DEF GoodTarget

(* A commit that lands.                                                    *)
LEMMA LandsLoadInv ==
    ASSUME LoadInv, phase = "commit", NEW i \in DOMAIN targets, NEW how \in Outcomes, ~Conflicts(targets[i]),
           targets' = [targets EXCEPT ![i].state = how],
           log' = [log EXCEPT ![targets[i].table] = Append(@, Landed(targets[i]))],
           UNCHANGED <<mode, plans, phase, blk, staged, result>>
    PROVE  LoadInv'
<1>1. PICK g : g = targets[i]
  OBVIOUS
<1>2. PICK t : t = g.table
  OBVIOUS
<1>3. PICK new : new = Landed(g)
  OBVIOUS
<1>4. /\ g \in Targets /\ t \in Tables /\ g.actions \subseteq Files /\ g.schema \in Schemas /\ plans # <<>>
      /\ GoodTarget(g) /\ TypeInv
  BY <1>1, <1>2, TargetIsTarget DEF LoadInv, TargetInv
<1>5. PICK n \in Nat : n = Len(log[t])
  BY <1>4, LogIsVersions
<1>6. log[t] \in Seq(Versions) /\ DOMAIN log[t] = 1..n /\ g.base \in 1..n
  BY <1>2, <1>4, <1>5, LogIsVersions DEF GoodTarget
<1>7. n \in DOMAIN log[t] /\ Latest(t) = log[t][n]
  BY <1>5, <1>6 DEF Latest
<1>8. /\ Latest(t).files \subseteq Files /\ Latest(t).schema \in Schemas
      /\ Base(g).files \subseteq Files
  BY <1>2, <1>4, <1>6, <1>7, LogIsVersions DEF Base
<1>9. new = [files |-> (Latest(t).files \ Removes(g)) \cup g.actions,
             schema |-> IF DeclaresSchema(g) THEN g.schema ELSE Latest(t).schema,
             removed |-> Removes(g), meta |-> DeclaresSchema(g)]
  BY <1>2, <1>3 DEF Landed
<1>10. new \in Versions
  <2>1. Removes(g) \subseteq Files /\ DeclaresSchema(g) \in BOOLEAN
    BY <1>8 DEF Removes, DeclaresSchema
  <2> QED
    BY <1>4, <1>8, <1>9, <2>1 DEF Versions
<1>11. /\ log' = [log EXCEPT ![t] = Append(log[t], new)]
       /\ log' \in [Tables -> Seq(Versions)]
       /\ log'[t] = Append(log[t], new)
       /\ \A x \in Tables : x # t => log'[x] = log[x]
  BY <1>1, <1>2, <1>3, <1>4, <1>6, <1>10 DEF LoadInv, TypeInv
<1>12. /\ DOMAIN log'[t] = 1..(n + 1)
       /\ \A v \in 1..n : log'[t][v] = log[t][v]
       /\ log'[t][n + 1] = new
       /\ \A v \in 1..(n + 1) : v \in 1..n \/ v = n + 1
  BY <1>5, <1>6, <1>11
<1>13. ASSUME NEW j \in DOMAIN targets, NEW k, k = targets'[j] PROVE GoodTarget(k)'
  <2>1. PICK h : h = targets[j]
    OBVIOUS
  <2>2. h \in Targets /\ h.table \in Tables /\ GoodTarget(h)
    BY <2>1, TargetIsTarget DEF LoadInv, TargetInv
  <2>3. /\ k.table = h.table /\ k.base = h.base /\ k.schema = h.schema
        /\ k.drift = h.drift /\ k.actions = h.actions /\ (j # i => k = h)
    <3>1. CASE j = i
      BY <1>13, <2>1, <2>2, <3>1, WithState
    <3>2. CASE j # i
      BY <1>13, <2>1, <3>2
    <3> QED
      BY <3>1, <3>2
  <2>4. CASE h.table = t
    <3>1. h = g \/ k.state = h.state
      BY <1>1, <2>1, <2>3
    <3> QED
      BY <1>1, <1>2, <1>3, <1>11, <2>1, <2>3, <2>4, <3>1, LandedKeepsTargets, SMTT(30)
  <2>5. CASE h.table # t
    <3>1. k = h
      BY <1>1, <1>2, <2>1, <2>3, <2>5
    <3> QED
      BY <1>11, <2>2, <2>5, <3>1, TargetStands
  <2> QED
    BY <2>4, <2>5
<1>14. RunsInv'
  <2>1. Run' = Run /\ Run \in Nat /\ phase' = "commit"
    BY <1>4, PlanIsPlan DEF Run
  <2>2. ASSUME NEW x \in Tables, NEW v \in DOMAIN log'[x], NEW f \in log'[x][v].files
        PROVE  f.run <= Run
    <3>1. CASE x # t \/ v \in 1..n
      BY <1>6, <1>11, <1>12, <2>2, <3>1 DEF LoadInv, RunsInv
    <3>2. CASE x = t /\ v = n + 1
      <4>1. f \in Latest(t).files \/ f \in Produced(Run, t)
        BY <1>2, <1>4, <1>9, <1>12, <3>2 DEF GoodTarget
      <4>2. f \in Latest(t).files => f.run <= Run
        BY <1>4, <1>7 DEF LoadInv, RunsInv
      <4>3. f \in Produced(Run, t) => f.run <= Run
        BY <1>4, <2>1, ProducedFiles
      <4> QED
        BY <4>1, <4>2, <4>3
    <3> QED
      BY <1>12, <3>1, <3>2
  <2> QED
    BY <2>1, <2>2 DEF RunsInv
<1>15. SchemaAgrees'
  <2> SUFFICES ASSUME mode # "error", NEW x \in Tables, NEW v \in DOMAIN log'[x], NEW f \in log'[x][v].files
               PROVE  Fields(f.schema) = Fields(log'[x][v].schema)
    BY DEF SchemaAgrees, SchemaHolds, Fields
  <2>1. CASE x # t \/ v \in 1..n
    BY <1>6, <1>11, <1>12, <2>1 DEF LoadInv, SchemaAgrees, SchemaHolds
  <2>2. CASE x = t /\ v = n + 1
    BY <1>1, <1>3, <1>12, <2>2, LandedAgrees
  <2> QED
    BY <1>12, <2>1, <2>2
<1> QED
  BY <1>11, <1>13, <1>14, <1>15, TargetEndsLoadInv

LEMMA CommitTableLoadInv ==
    ASSUME LoadInv, NEW i \in DOMAIN targets, CommitTable(i)
    PROVE  LoadInv'
<1>1. /\ phase = "commit" /\ UNCHANGED <<mode, plans, phase, blk, staged, result>>
      /\ {"ok", "landed", "conflict", "err"} \subseteq Outcomes
  BY DEF CommitTable, Outcomes
<1>2. ASSUME NEW how \in Outcomes, targets' = [targets EXCEPT ![i].state = how], ~Conflicts(targets[i]),
             log' = [log EXCEPT ![targets[i].table] = Append(@, Landed(targets[i]))]
      PROVE  LoadInv'
  BY <1>1, <1>2, LandsLoadInv
<1>3. ASSUME NEW how \in Outcomes \ {"ok"}, targets' = [targets EXCEPT ![i].state = how], UNCHANGED log
      PROVE  LoadInv'
  <2>1. ASSUME NEW j \in DOMAIN targets, NEW k, k = targets'[j] PROVE GoodTarget(k)'
    <3>1. targets[j] \in Targets /\ GoodTarget(targets[j])
      BY TargetIsTarget DEF LoadInv, TargetInv
    <3>2. CASE j = i
      <4>1. /\ k.table = targets[j].table /\ k.base = targets[j].base /\ k.schema = targets[j].schema
            /\ k.drift = targets[j].drift /\ k.actions = targets[j].actions /\ k.state = how
        BY <1>3, <2>1, <3>1, <3>2, WithState
      <4>2. Base(k) = Base(targets[j])
        BY <4>1 DEF Base
      <4>3. GoodTarget(k)
        BY <1>3, <3>1, <4>1, <4>2 DEF GoodTarget
      <4> QED
        BY <1>1, <1>3, <4>3, TargetStands
    <3>3. CASE j # i
      <4>1. GoodTarget(k)
        BY <1>3, <2>1, <3>1, <3>3
      <4> QED
        BY <1>1, <1>3, <4>1, TargetStands
    <3> QED
      BY <3>2, <3>3
  <2>2. RunsInv' /\ SchemaAgrees' /\ log' \in [Tables -> Seq(Versions)]
    BY <1>1, <1>3, SchemasStand DEF LoadInv, RunsInv, TypeInv, Run
  <2> QED
    BY <1>1, <1>3, <2>1, <2>2, TargetEndsLoadInv
<1> QED
  BY <1>1, <1>2, <1>3 DEF CommitTable

-----------------------------------------------------------------------------
LEMMA NextLoadInv == LoadInv /\ [Next]_vars => LoadInv'
<1> SUFFICES ASSUME LoadInv, [Next]_vars PROVE LoadInv'
  OBVIOUS
<1>1. CASE UNCHANGED vars
  <2>1. TypeInv' /\ RunsInv'
    BY <1>1 DEF vars, LoadInv, TypeInv, RunsInv, Run
  <2>2. PassInv'
    BY <1>1, SMTT(30) DEF vars, LoadInv, PassInv, FirstTarget, Run, Plan, FileOf
  <2>3. TargetInv' /\ SchemaAgrees'
    BY <1>1, TargetsStand, SchemasStand DEF vars, LoadInv
  <2>4. RerunRecovers'
    BY <1>1 DEF vars, LoadInv, RerunRecovers, Run, Plan, Produced, FileOf, Contents, Latest
  <2> QED
    BY <2>1, <2>2, <2>3, <2>4 DEF LoadInv
<1>2. ASSUME NEW p \in Plans, Start(p) PROVE LoadInv'
  BY <1>2, StartLoadInv
<1>3. CASE OpenBlock
  BY <1>3, OpenBlockLoadInv
<1>4. CASE SkipBlock
  BY <1>4, SkipLoadInv
<1>5. CASE StageBlock
  BY <1>5, StageLoadInv
<1>6. CASE PassFails
  BY <1>6, StopLoadInv DEF PassFails
<1>7. CASE EndPass
  BY <1>7, EndPassLoadInv
<1>8. ASSUME NEW i \in DOMAIN targets, CommitTable(i) PROVE LoadInv'
  BY <1>8, CommitTableLoadInv
<1>9. CASE CommitsOver
  BY <1>9, CommitsOverLoadInv
<1>10. CASE Record
  BY <1>10, RecordLoadInv
<1>11. CASE Crash
  BY <1>11, StopLoadInv DEF Crash
<1> QED
  BY <1>1, <1>2, <1>3, <1>4, <1>5, <1>6, <1>7, <1>8, <1>9, <1>10, <1>11 DEF Next

(* In every reachable state what a load has staged, the targets it will    *)
(* commit and the versions in the logs fit each other.                     *)
THEOREM Invariance == Spec => []LoadInv
  BY InitLoadInv, NextLoadInv, PTL DEF Spec

(* commit_table: "the declared schema and the files agree", in every       *)
(* version of every table, under overwrite and append, whatever drifts,    *)
(* fails or is loaded again.                                               *)
THEOREM SchemasAgree == Spec => []SchemaAgrees
<1>1. LoadInv => SchemaAgrees
  BY DEF LoadInv
<1> QED
  BY <1>1, Invariance, PTL

(* run: "Re-running is the recovery".  A load that returns success leaves  *)
(* its tables with all of its files, under overwrite with no others,       *)
(* whatever the loads before it left behind.                               *)
THEOREM RerunsRecover == Spec => []RerunRecovers
<1>1. LoadInv => RerunRecovers
  BY DEF LoadInv
<1> QED
  BY <1>1, Invariance, PTL

(* commit_table removes files under overwrite only: append and error never *)
(* take away what a reader could see, in any step of any load.             *)
THEOREM RowsStay == Spec => CommittedRowsStay
<1>1. LoadInv /\ [Next]_vars => [mode # "overwrite" => \A t \in Tables : Contents(t) \subseteq Contents(t)']_vars
  <2> SUFFICES ASSUME LoadInv, Next, mode # "overwrite", NEW t \in Tables
               PROVE  Contents(t) \subseteq Contents(t)'
    OBVIOUS
  <2>1. CASE log'[t] = log[t]
    BY <2>1 DEF Contents, Latest
  <2>2. ASSUME NEW i \in DOMAIN targets, NEW g, g = targets[i],
               log' = [log EXCEPT ![g.table] = Append(@, Landed(g))]
        PROVE  Contents(t) \subseteq Contents(t)'
    <3>1. TypeInv /\ log[t] \in Seq(Versions) /\ Len(log[t]) \in Nat
      BY LogIsVersions DEF LoadInv
    <3>2. CASE g.table # t
      BY <2>1, <2>2, <3>1, <3>2 DEF TypeInv
    <3>3. CASE g.table = t
      <4>1. PICK new : new = Landed(g)
        OBVIOUS
      <4>2. log'[t] = Append(log[t], new)
        BY <2>2, <3>1, <3>3, <4>1 DEF TypeInv
      <4>3. log'[t] # <<>> /\ log'[t][Len(log'[t])] = new
        BY <3>1, <4>2
      <4>4. Latest(t).files \subseteq new.files
        BY <3>3, <4>1 DEF Landed, Removes
      <4> QED
        BY <4>3, <4>4 DEF Contents, Latest
    <3> QED
      BY <3>2, <3>3
  <2>3. CASE OpenBlock
    <3>1. CASE UNCHANGED log
      BY <2>1, <3>1
    <3>2. ASSUME NEW x, NEW new, log[x] = <<>>, log' = [log EXCEPT ![x] = <<new>>]
          PROVE  Contents(t) \subseteq Contents(t)'
      <4>1. CASE x = t
        BY <3>2, <4>1 DEF Contents
      <4>2. CASE x # t
        BY <2>1, <3>2, <4>2 DEF LoadInv, TypeInv
      <4> QED
        BY <4>1, <4>2
    <3> QED
      BY <2>3, <3>1, <3>2 DEF OpenBlock
  <2>4. ASSUME NEW i \in DOMAIN targets, CommitTable(i) PROVE Contents(t) \subseteq Contents(t)'
    BY <2>1, <2>2, <2>4 DEF CommitTable
  <2>5. CASE ~OpenBlock /\ ~\E i \in DOMAIN targets : CommitTable(i)
    <3>1. UNCHANGED log
      BY <2>5 DEF Next, Start, SkipBlock, StageBlock, PassFails, EndPass, CommitsOver, Record, Crash
    <3> QED
      BY <2>1, <3>1
  <2> QED
    BY <2>3, <2>4, <2>5
<1> QED
  BY <1>1, Invariance, PTL DEF Spec, CommittedRowsStay

-----------------------------------------------------------------------------
(* A table that one block feeds has one block in the running load's dump.  *)
LEMMA OneBlock ==
    ASSUME TypeInv, plans # <<>>, NEW t, FedOnce(t),
           NEW a \in DOMAIN Plan, NEW b \in DOMAIN Plan, Plan[a].table = t, Plan[b].table = t
    PROVE  a = b
<1> DEFINE S == {x \in DOMAIN Plan : Plan[x].table = t}
<1>1. Run \in Nat \ {0} /\ Plan \in Seq(Blocks)
  BY PlanIsPlan
<1>2. Cardinality(S) <= 1
  BY <1>1 DEF FedOnce, Plan
<1>3. IsFiniteSet(S) /\ Cardinality(S) \in Nat
  <2>1. DOMAIN Plan = 1..Len(Plan) /\ Len(Plan) \in Nat
    BY <1>1
  <2>2. IsFiniteSet(1..Len(Plan))
    BY <2>1, FS_Interval
  <2>3. IsFiniteSet(S)
    BY <2>1, <2>2, FS_Subset
  <2> QED
    BY <2>3, FS_CardinalityType
<1>4. a \in S /\ b \in S
  OBVIOUS
<1> HIDE DEF S
<1>5. Cardinality(S) = 1
  <2>1. Cardinality(S) # 0
    BY <1>3, <1>4, FS_EmptySet
  <2> QED
    BY <1>2, <1>3, <2>1
<1>6. PICK x : S = {x}
  BY <1>3, <1>5, FS_Singleton
<1> QED
  BY <1>4, <1>6

(* Loads are only added to.                                                *)
PlansGrow == plans' = plans \/ \E p \in Plans : plans' = Append(plans, p)

LEMMA EarlierLoads ==
    ASSUME TypeInv, PlansGrow
    PROVE  /\ Run \in Nat /\ Run' \in Nat /\ Run <= Run'
           /\ \A r \in 1..Run : plans'[r] = plans[r]
<1>1. plans \in Seq(Plans) /\ Run = Len(plans) /\ Run' = Len(plans')
  BY DEF TypeInv, Run
<1> QED
  BY <1>1 DEF PlansGrow

LEMMA ProducedStands ==
    ASSUME TypeInv, PlansGrow, NEW r \in 1..Run, NEW t
    PROVE  Produced(r, t)' = Produced(r, t)
<1>1. plans'[r] = plans[r]
  BY EarlierLoads
<1>2. \A b : FileOf(r, b)' = FileOf(r, b)
  BY <1>1 DEF FileOf
<1> QED
  BY <1>1, <1>2 DEF Produced

LEMMA FedOnceBefore ==
    ASSUME TypeInv, PlansGrow, NEW t, FedOnce(t)'
    PROVE  FedOnce(t)
  BY EarlierLoads DEF FedOnce

-----------------------------------------------------------------------------
(***************************************************************************)
(* What stands when the logs only grow.                                    *)
(***************************************************************************)
LogsGrow == \A t \in Tables : \A v \in DOMAIN log[t] : v \in DOMAIN log'[t] /\ log'[t][v] = log[t][v]

LEMMA RecordedStands ==
    ASSUME TypeInv, RecordedInv, HistoryReadable, PlansGrow, LogsGrow, UNCHANGED <<mode, history>>
    PROVE  HistoryReadable'
<1> SUFFICES ASSUME NEW h \in history, h.status = "loaded", FedOnce(h.table)'
             PROVE  /\ h.version + 1 \in DOMAIN log'[h.table]
                    /\ Produced(h.run, h.table)' \subseteq log'[h.table][h.version + 1].files
                    /\ IF mode = "overwrite"
                         THEN log'[h.table][h.version + 1].files \subseteq Produced(h.run, h.table)'
                         ELSE \A f \in log'[h.table][h.version + 1].files : f.run <= h.run
  BY DEF HistoryReadable
<1>1. FedOnce(h.table)
  BY FedOnceBefore
<1>2. h.run \in 1..Run /\ h.table \in Tables
  BY DEF RecordedInv
<1>3. Produced(h.run, h.table)' = Produced(h.run, h.table)
  BY <1>2, ProducedStands
<1>4. /\ h.version + 1 \in DOMAIN log[h.table]
      /\ Produced(h.run, h.table) \subseteq log[h.table][h.version + 1].files
      /\ IF mode = "overwrite"
           THEN log[h.table][h.version + 1].files \subseteq Produced(h.run, h.table)
           ELSE \A f \in log[h.table][h.version + 1].files : f.run <= h.run
  BY <1>1 DEF HistoryReadable
<1>5. h.version + 1 \in DOMAIN log'[h.table] /\ log'[h.table][h.version + 1] = log[h.table][h.version + 1]
  BY <1>2, <1>4 DEF LogsGrow
<1> QED
  BY <1>3, <1>4, <1>5

LEMMA WholeStands ==
    ASSUME TypeInv, VersionsAreWhole, PlansGrow, UNCHANGED mode,
           \A t \in Tables : FedOnce(t)' => \A v \in 2..Len(log'[t]) :
              \/ v \in 2..Len(log[t]) /\ log'[t][v] = log[t][v]
              \/ mode # "append" => \E r \in 1..Run' : log'[t][v].files = Produced(r, t)'
    PROVE  VersionsAreWhole'
<1> SUFFICES ASSUME mode # "append", NEW t \in Tables, FedOnce(t)', NEW v \in 2..Len(log'[t])
             PROVE  \E r \in 1..Run' : log'[t][v].files = Produced(r, t)'
  BY DEF VersionsAreWhole
<1>1. CASE v \in 2..Len(log[t]) /\ log'[t][v] = log[t][v]
  <2>1. FedOnce(t)
    BY FedOnceBefore
  <2>2. PICK r \in 1..Run : log[t][v].files = Produced(r, t)
    BY <1>1, <2>1 DEF VersionsAreWhole
  <2>3. r \in 1..Run' /\ Produced(r, t)' = Produced(r, t)
    BY EarlierLoads, ProducedStands
  <2> QED
    BY <1>1, <2>2, <2>3
<1> QED
  BY <1>1

(* What is the same when neither logs nor targets move.                    *)
LEMMA SolesStand ==
    ASSUME SolesInv, UNCHANGED <<mode, log, plans, targets, before>>
    PROVE  SolesInv'
<1> SUFFICES ASSUME NEW i \in DOMAIN targets
             PROVE  /\ mode = "error" => (Base(targets[i]).files = {})'
                    /\ FedOnce(targets[i].table)' => SoleTarget(targets[i])'
  BY DEF SolesInv
<1>1. /\ mode = "error" => Base(targets[i]).files = {}
      /\ FedOnce(targets[i].table) => SoleTarget(targets[i])
  BY DEF SolesInv
<1>2. FedOnce(targets[i].table)' => FedOnce(targets[i].table)
  BY DEF FedOnce, Run
<1> QED
  BY <1>1, <1>2 DEF SoleTarget, Base, Latest

-----------------------------------------------------------------------------
LEMMA InitRecordInv == Init => RecordInv
<1> SUFFICES ASSUME Init PROVE RecordInv
  OBVIOUS
<1>1. OpenedInv /\ SolesInv
  BY DEF Init, OpenedInv, SolesInv
<1>2. StatsInv
  BY DEF Init, StatsInv
<1>3. RecordedInv /\ HistoryReadable /\ HistoryTells
  BY DEF Init, RecordedInv, HistoryReadable, HistoryTells
<1>4. VersionsAreWhole
  BY DEF Init, VersionsAreWhole
<1> QED
  BY <1>1, <1>2, <1>3, <1>4 DEF RecordInv

LEMMA StartRecordInv ==
    ASSUME LoadInv, RecordInv, NEW p \in Plans, Start(p)
    PROVE  RecordInv'
<1>1. /\ TypeInv /\ PlansGrow /\ UNCHANGED <<mode, log, history>>
      /\ targets' = <<>> /\ stats' = <<>> /\ before' = log /\ phase' = "open" /\ result' = "running"
  BY DEF LoadInv, Start, PlansGrow
<1>2. Run \in Nat /\ Run' = Run + 1
  BY <1>1 DEF TypeInv, Run, Start
<1>3. OpenedInv' /\ SolesInv'
  BY <1>1 DEF OpenedInv, SolesInv
<1>4. StatsInv'
  BY <1>1 DEF StatsInv
<1>5. RecordedInv'
  BY <1>1, <1>2 DEF RecordInv, RecordedInv
<1>6. HistoryReadable'
  BY <1>1, RecordedStands DEF RecordInv, LogsGrow
<1>7. VersionsAreWhole'
  BY <1>1, WholeStands DEF RecordInv
<1>8. HistoryTells'
  BY <1>1 DEF HistoryTells
<1> QED
  BY <1>3, <1>4, <1>5, <1>6, <1>7, <1>8 DEF RecordInv

(* A step that touches neither logs nor history, before the load has       *)
(* returned success.                                                       *)
LEMMA QuietRecordInv ==
    ASSUME LoadInv, RecordInv, UNCHANGED <<mode, log, plans, history, before>>, result' # "ok",
           phase # "idle" \/ phase' = "idle",
           OpenedInv', SolesInv', StatsInv'
    PROVE  RecordInv'
<1>1. TypeInv /\ PlansGrow /\ LogsGrow
  BY DEF LoadInv, PlansGrow, LogsGrow
<1>2. RecordedInv'
  BY DEF RecordInv, RecordedInv, Run
<1>3. HistoryReadable'
  BY <1>1, RecordedStands DEF RecordInv
<1>4. VersionsAreWhole'
  BY <1>1, WholeStands DEF RecordInv
<1>5. HistoryTells'
  BY DEF HistoryTells
<1> QED
  BY <1>2, <1>3, <1>4, <1>5 DEF RecordInv

(* The load ends.                                                          *)
LEMMA StopRecordInv ==
    ASSUME LoadInv, RecordInv, NEW how, how # "ok", Return(how),
           UNCHANGED <<mode, log, plans, targets, stats, history, before>>
    PROVE  RecordInv'
<1>1. phase' = "idle" /\ result' # "ok"
  BY DEF Return
<1>2. OpenedInv'
  BY <1>1 DEF RecordInv, OpenedInv, FedOnce, Run
<1>3. SolesInv'
  BY SolesStand DEF RecordInv
<1>4. StatsInv'
  BY <1>1 DEF RecordInv, StatsInv
<1> QED
  BY <1>1, <1>2, <1>3, <1>4, QuietRecordInv

LEMMA SkipRecordInv ==
    ASSUME LoadInv, RecordInv, SkipBlock
    PROVE  RecordInv'
<1>1. /\ phase = "open" /\ phase' = "open" /\ blk' = blk + 1 /\ blk \in Nat
      /\ UNCHANGED <<mode, log, plans, targets, stats, history, before, result>>
      /\ result # "ok"
  BY DEF SkipBlock, LoadInv, TypeInv
<1>2. Plan' = Plan /\ Run' = Run /\ plans # <<>> /\ DOMAIN Plan \subseteq Nat
  BY <1>1, PlanIsPlan DEF Run, Plan, LoadInv, TypeInv
<1>3. OpenedInv'
  <2>1. ASSUME NEW i \in DOMAIN targets
        PROVE  \E b \in DOMAIN Plan : Plan[b].table = targets[i].table /\ Plan[b].wanted /\ b < blk + 1
    <3>1. PICK b \in DOMAIN Plan : Plan[b].table = targets[i].table /\ Plan[b].wanted /\ b < blk
      BY <1>1 DEF RecordInv, OpenedInv
    <3> QED
      BY <1>1, <1>2, <3>1
  <2>2. \A t : FedOnce(t)' = FedOnce(t)
    BY <1>1, <1>2 DEF FedOnce
  <2>3. /\ \A i, j \in DOMAIN targets : targets[i].table = targets[j].table /\ FedOnce(targets[i].table) => i = j
        /\ \A t \in Tables : (\A i \in DOMAIN targets : targets[i].table # t) => log[t] = before[t]
    BY <1>1 DEF RecordInv, OpenedInv
  <2> QED
    BY <1>1, <1>2, <2>1, <2>2, <2>3 DEF OpenedInv
<1>4. SolesInv'
  BY <1>1, SolesStand DEF RecordInv
<1>5. StatsInv'
  BY <1>1, <1>2 DEF RecordInv, StatsInv, FedOnce
<1> QED
  BY <1>1, <1>3, <1>4, <1>5, QuietRecordInv

(* The answer of a block becomes a TableStats of its target.               *)
LEMMA StageRecordInv ==
    ASSUME LoadInv, RecordInv, StageBlock
    PROVE  RecordInv'
<1>1. /\ phase = "stage" /\ phase' = "open" /\ blk' = blk + 1 /\ blk \in Nat
      /\ UNCHANGED <<mode, log, plans, targets, history, before, result>>
      /\ result # "ok" /\ TypeInv /\ plans # <<>> /\ targets \in Seq(Targets)
  BY DEF StageBlock, LoadInv, TypeInv
<1>2. Plan' = Plan /\ Run' = Run /\ DOMAIN Plan \subseteq Nat
  BY <1>1, PlanIsPlan DEF Run, Plan
<1>3. \A t : FedOnce(t)' = FedOnce(t)
  BY <1>1, <1>2 DEF FedOnce
<1>4. OpenedInv'
  <2>1. ASSUME NEW i \in DOMAIN targets
        PROVE  \E b \in DOMAIN Plan : Plan[b].table = targets[i].table /\ Plan[b].wanted /\ b < blk + 1
    <3>1. PICK b \in DOMAIN Plan : Plan[b].table = targets[i].table /\ Plan[b].wanted /\ (b < blk \/ b = blk)
      BY <1>1 DEF RecordInv, OpenedInv
    <3> QED
      BY <1>1, <1>2, <3>1
  <2>2. /\ \A i, j \in DOMAIN targets : targets[i].table = targets[j].table /\ FedOnce(targets[i].table) => i = j
        /\ \A t \in Tables : (\A i \in DOMAIN targets : targets[i].table # t) => log[t] = before[t]
    BY <1>1 DEF RecordInv, OpenedInv
  <2> QED
    BY <1>1, <1>2, <1>3, <2>1, <2>2 DEF OpenedInv
<1>5. SolesInv'
  BY <1>1, SolesStand DEF RecordInv
<1>6. StatsInv'
  <2>1. PICK n \in Nat : n = Len(targets)
    BY <1>1
  <2>2. /\ n # 0 /\ targets[n].table = Plan[blk].table /\ n \in DOMAIN targets /\ DOMAIN targets = 1..n
    BY <1>1, <2>1 DEF RecordInv, OpenedInv
  <2>3. PICK new : new = [table |-> Plan[blk].table, version |-> 0, drift |-> targets[n].drift]
    OBVIOUS
  <2>4. targets[n] \in Targets /\ targets[n].table \in Tables /\ targets[n].drift \in Drifts
    <3>1. targets[n] \in Targets
      BY <1>1, <2>2, TargetIsTarget
    <3> QED
      BY <3>1 DEF Targets
  <2>5. new \in [table : Tables, version : Nat, drift : Drifts]
    BY <2>2, <2>3, <2>4
  <2>6. stats' = Append(stats, new)
    BY <1>1, <2>1, <2>3 DEF StageBlock
  <2>7. /\ stats \in Seq([table : Tables, version : Nat, drift : Drifts])
        /\ Len(stats) = n - 1
        /\ \A i \in DOMAIN stats : stats[i].table = targets[i].table /\ stats[i].drift = targets[i].drift
    BY <1>1, <2>1 DEF RecordInv, StatsInv
  <2>8. /\ stats' \in Seq([table : Tables, version : Nat, drift : Drifts])
        /\ Len(stats') = n /\ DOMAIN stats' = 1..n
        /\ \A i \in 1..(n - 1) : i \in DOMAIN stats /\ stats'[i] = stats[i]
        /\ stats'[n] = new
    BY <2>1, <2>2, <2>5, <2>6, <2>7
  <2>9. ASSUME NEW i \in 1..n
        PROVE  stats'[i].table = targets[i].table /\ stats'[i].drift = targets[i].drift /\ targets[i].state = "todo"
    <3>1. targets[i].state = "todo"
      BY <1>1, <2>2 DEF LoadInv, PassInv
    <3>2. i \in 1..(n - 1) \/ i = n
      BY <2>1
    <3> QED
      BY <2>2, <2>3, <2>7, <2>8, <3>1, <3>2
  <2>10. \A i \in DOMAIN stats' : /\ stats'[i].table = targets'[i].table
                                  /\ stats'[i].drift = targets'[i].drift
                                  /\ targets'[i].state # "ok"
    BY <1>1, <2>8, <2>9
  <2>11. Len(stats') = Len(targets') /\ phase' # "stage"
    BY <1>1, <2>1, <2>8
  <2> QED
    BY <2>8, <2>10, <2>11 DEF StatsInv
<1> QED
  BY <1>1, <1>4, <1>5, <1>6, QuietRecordInv

(* The targets differ only in their actions, or in the outcome of one.     *)
SameTarget(h, k) == h.table = k.table /\ h.base = k.base /\ h.schema = k.schema /\ h.drift = k.drift

LEMMA OpenedStands ==
    ASSUME OpenedInv, UNCHANGED <<plans, blk, before>>, phase # "idle", phase # "stage", phase' # "stage",
           DOMAIN targets' = DOMAIN targets,
           \A i \in DOMAIN targets : targets'[i].table = targets[i].table,
           \A t \in Tables : (\A i \in DOMAIN targets : targets[i].table # t) => log'[t] = log[t]
    PROVE  OpenedInv'
<1>1. Plan' = Plan /\ Run' = Run /\ \A t : FedOnce(t)' = FedOnce(t)
  BY DEF Run, Plan, FedOnce
<1>2. /\ \A i \in DOMAIN targets : \E b \in DOMAIN Plan :
           Plan[b].table = targets[i].table /\ Plan[b].wanted /\ b < blk
      /\ \A i, j \in DOMAIN targets : targets[i].table = targets[j].table /\ FedOnce(targets[i].table) => i = j
      /\ \A t \in Tables : (\A i \in DOMAIN targets : targets[i].table # t) => log[t] = before[t]
  BY DEF OpenedInv
<1>3. \A i \in DOMAIN targets : \E b \in DOMAIN Plan :
           Plan[b].table = targets'[i].table /\ Plan[b].wanted /\ b < blk
  BY <1>2
<1>4. \A i, j \in DOMAIN targets : targets'[i].table = targets'[j].table /\ FedOnce(targets[i].table)' => i = j
  BY <1>1, <1>2
<1>5. \A t \in Tables : (\A i \in DOMAIN targets : targets'[i].table # t) => log'[t] = before[t]
  BY <1>2
<1> QED
  BY <1>1, <1>3, <1>4, <1>5 DEF OpenedInv

LEMMA EndPassRecordInv ==
    ASSUME LoadInv, RecordInv, EndPass
    PROVE  RecordInv'
<1>1. /\ phase = "open" /\ phase' = "commit" /\ TypeInv
      /\ UNCHANGED <<mode, log, plans, blk, stats, history, before, result>>
      /\ result # "ok" /\ DOMAIN targets' = DOMAIN targets
      /\ staged \in [Tables -> SUBSET Files] /\ targets \in Seq(Targets)
  BY DEF EndPass, LoadInv, TypeInv
<1>2. ASSUME NEW i \in DOMAIN targets
      PROVE  SameTarget(targets'[i], targets[i]) /\ targets'[i].state = targets[i].state
  <2>1. PICK a : /\ targets'[i] = [targets[i] EXCEPT !.actions = a]
                 /\ a = IF \E j \in 1..(i - 1) : targets[j].table = targets[i].table
                          THEN {} ELSE staged[targets[i].table]
    BY DEF EndPass
  <2>2. targets[i] \in Targets /\ targets[i].table \in Tables
    BY <1>1, TargetIsTarget
  <2>3. a \in SUBSET Files
    BY <1>1, <2>1, <2>2
  <2> QED
    BY <2>1, <2>2, <2>3, WithActions DEF SameTarget
<1>3. OpenedInv'
  BY <1>1, <1>2, OpenedStands DEF RecordInv, SameTarget
<1>4. \A t : FedOnce(t)' = FedOnce(t)
  BY <1>1 DEF FedOnce, Run
<1>5. SolesInv'
  <2> SUFFICES ASSUME NEW i \in DOMAIN targets, NEW h, h = targets'[i]
               PROVE  /\ mode = "error" => Base(h)'.files = {}
                      /\ FedOnce(h.table)' => SoleTarget(h)'
    BY <1>1 DEF SolesInv
  <2>1. PICK g : g = targets[i]
    OBVIOUS
  <2>2. SameTarget(h, g) /\ h.state = g.state
    BY <1>2, <2>1
  <2>3. /\ mode = "error" => Base(g).files = {}
        /\ FedOnce(g.table) => SoleTarget(g)
    BY <2>1 DEF RecordInv, SolesInv
  <2>4. Base(h)' = Base(g) /\ Latest(h.table)' = Latest(g.table)
    BY <1>1, <2>2 DEF Base, Latest, SameTarget
  <2> QED
    BY <1>1, <1>4, <2>2, <2>3, <2>4 DEF SoleTarget, SameTarget
<1>6. StatsInv'
  <2>1. /\ stats \in Seq([table : Tables, version : Nat, drift : Drifts])
        /\ Len(stats) = Len(targets)
        /\ \A i \in DOMAIN stats : stats[i].table = targets[i].table /\ stats[i].drift = targets[i].drift
    BY <1>1 DEF RecordInv, StatsInv
  <2>2. DOMAIN stats = DOMAIN targets /\ DOMAIN targets = 1..Len(targets)
    BY <1>1, <2>1
  <2>3. Len(targets') = Len(targets)
    <3>1. targets' \in Seq(Targets)
      BY EndPassLoadInv DEF LoadInv, TypeInv
    <3> QED
      BY <1>1, <2>2, <3>1
  <2>4. \A i \in DOMAIN targets : targets[i].state = "todo"
    BY <1>1 DEF LoadInv, PassInv
  <2> QED
    BY <1>1, <1>2, <2>1, <2>2, <2>3, <2>4 DEF StatsInv, SameTarget
<1> QED
  BY <1>1, <1>3, <1>5, <1>6, QuietRecordInv

LEMMA CommitsOverRecordInv ==
    ASSUME LoadInv, RecordInv, CommitsOver
    PROVE  RecordInv'
<1>1. CASE phase' = "record" /\ UNCHANGED result
  <2>1. /\ phase = "commit" /\ TypeInv /\ result # "ok"
        /\ UNCHANGED <<mode, log, plans, blk, targets, stats, history, before>>
    BY DEF CommitsOver, LoadInv, TypeInv
  <2>2. OpenedInv'
    BY <1>1, <2>1, OpenedStands DEF RecordInv
  <2>3. SolesInv'
    BY <2>1, SolesStand DEF RecordInv
  <2>4. StatsInv'
    <3>1. \A t : FedOnce(t)' = FedOnce(t)
      BY <2>1 DEF FedOnce, Run
    <3> QED
      BY <1>1, <2>1, <3>1 DEF RecordInv, StatsInv
  <2> QED
    BY <1>1, <2>1, <2>2, <2>3, <2>4, QuietRecordInv
<1>2. CASE Return("CommitFailed")
  BY <1>2, StopRecordInv DEF CommitsOver
<1> QED
  BY <1>1, <1>2 DEF CommitsOver

-----------------------------------------------------------------------------
(***************************************************************************)
(* The commit burst.                                                       *)
(***************************************************************************)
(* At most the version of a stat of table t is set; that of target i to v  *)
(* if i is the only target of the table.                                   *)
VersionSet(i, t, v) ==
    /\ stats' \in Seq([table : Tables, version : Nat, drift : Drifts])
    /\ Len(stats') = Len(stats)
    /\ DOMAIN stats' = DOMAIN stats
    /\ \A k \in DOMAIN stats : /\ stats'[k].table = stats[k].table
                               /\ stats'[k].drift = stats[k].drift
                               /\ stats[k].table # t => stats'[k].version = stats[k].version
    /\ FedOnce(t) => stats'[i].version = v

(* SetVersion finds the stat of a target that is the only one of its       *)
(* table, and touches no stat of another table.                            *)
LEMMA SetsVersion ==
    ASSUME LoadInv, RecordInv, phase = "commit", NEW i \in DOMAIN targets, NEW t, t = targets[i].table,
           NEW v \in Nat, SetVersion(t, v)
    PROVE  VersionSet(i, t, v)
<1> DEFINE First(x) == stats[x].table = t /\ \A j \in 1..(x - 1) : stats[j].table # t
           Stat == [table : Tables, version : Nat, drift : Drifts]
<1>1. PICK first : first = CHOOSE x \in DOMAIN stats : First(x)
  OBVIOUS
<1>2. stats' = [stats EXCEPT ![first].version = v]
  BY <1>1 DEF SetVersion
<1>3. /\ stats \in Seq(Stat)
      /\ Len(stats) = Len(targets)
      /\ \A k \in DOMAIN stats : stats[k].table = targets[k].table
  BY DEF RecordInv, StatsInv
<1>4. /\ targets \in Seq(Targets) /\ TypeInv
      /\ DOMAIN stats = 1..Len(stats) /\ DOMAIN targets = DOMAIN stats /\ Len(stats) \in Nat
  BY <1>3 DEF LoadInv, TypeInv
<1>5. first \in DOMAIN stats /\ stats[first].table = t
  <2>1. PICK k \in DOMAIN targets : targets[k].table = t /\ FirstTarget(k)
    BY DEF LoadInv, PassInv
  <2>2. k \in DOMAIN stats /\ stats[k].table = t
    BY <1>3, <1>4, <2>1
  <2>3. \A j \in 1..(k - 1) : j \in DOMAIN stats /\ stats[j].table # t
    BY <1>3, <1>4, <2>1 DEF FirstTarget
  <2> QED
    BY <1>1, <2>2, <2>3
<1>6. FedOnce(t) => first = i
  BY <1>3, <1>4, <1>5 DEF RecordInv, OpenedInv
<1>7. PICK s : s = stats[first] /\ s \in Stat
  <2> HIDE DEF Stat
  <2> QED
    BY <1>3, <1>5
<1>8. PICK new : new = [s EXCEPT !.version = v]
  OBVIOUS
<1>9. stats' = [stats EXCEPT ![first] = new]
  BY <1>2, <1>7, <1>8
<1>10. new \in Stat /\ new.table = s.table /\ new.drift = s.drift /\ new.version = v
  BY <1>7, <1>8
<1> HIDE DEF Stat
<1>11. stats' \in Seq(Stat) /\ Len(stats') = Len(stats) /\ DOMAIN stats' = DOMAIN stats
  BY <1>3, <1>4, <1>5, <1>9, <1>10
<1>12. \A k \in DOMAIN stats : stats'[k] = IF k = first THEN new ELSE stats[k]
  BY <1>3, <1>5, <1>9
<1> USE DEF Stat
<1> QED
  BY <1>5, <1>6, <1>7, <1>10, <1>11, <1>12 DEF VersionSet

(* Until it is committed nothing lands in the table of a sole target, so   *)
(* its commit meets the version it was computed from.                      *)
LEMMA SoleDoesNotConflict ==
    ASSUME LoadInv, RecordInv, NEW i \in DOMAIN targets, NEW g, g = targets[i], g.state = "todo", FedOnce(g.table)
    PROVE  /\ ~Conflicts(g)
           /\ Len(log[g.table]) = g.base
           /\ Latest(g.table) = Base(g)
<1>1. Len(log[g.table]) = g.base
  BY DEF RecordInv, SolesInv, SoleTarget
<1>2. g.base \in Nat
  BY TargetIsTarget DEF LoadInv
<1>3. (g.base + 1)..Len(log[g.table]) = {}
  BY <1>1, <1>2
<1> QED
  BY <1>1, <1>3 DEF Conflicts, Latest, Base

(* A target ends; the logs grow at most by what it lands.                  *)
LEMMA EndsRecordInv ==
    ASSUME LoadInv, RecordInv, phase = "commit", NEW i \in DOMAIN targets, NEW g, g = targets[i], NEW how \in Outcomes,
           targets' = [targets EXCEPT ![i].state = how],
           UNCHANGED <<mode, plans, phase, blk, history, before, result>>,
           log' \in [Tables -> Seq(Versions)],
           \A t \in Tables : t # g.table => log'[t] = log[t],
           LogsGrow,
           FedOnce(g.table) => \A h : SameTarget(h, g) /\ h.state = how => SoleTarget(h)',
           VersionsAreWhole',
           StatsInv'
    PROVE  RecordInv'
<1>1. /\ TypeInv /\ targets \in Seq(Targets) /\ PlansGrow /\ result # "ok" /\ DOMAIN targets' = DOMAIN targets
      /\ g.table \in Tables
  BY TargetIsTarget DEF LoadInv, TypeInv, PlansGrow
<1>2. ASSUME NEW j \in DOMAIN targets
      PROVE  /\ SameTarget(targets'[j], targets[j])
             /\ j # i => targets'[j] = targets[j]
             /\ j = i => targets'[j].state = how
  <2>1. targets[j] \in Targets
    BY <1>1, TargetIsTarget
  <2>2. CASE j = i
    BY <1>1, <2>1, <2>2, WithState DEF SameTarget
  <2>3. CASE j # i
    BY <1>1, <2>3 DEF SameTarget
  <2> QED
    BY <2>2, <2>3
<1>3. OpenedInv'
  <2>1. \A t \in Tables : (\A j \in DOMAIN targets : targets[j].table # t) => log'[t] = log[t]
    OBVIOUS
  <2> QED
    BY <1>1, <1>2, <2>1, OpenedStands DEF RecordInv, SameTarget
<1>4. \A t : FedOnce(t)' = FedOnce(t)
  BY DEF FedOnce, Run
<1>5. SolesInv'
  <2> SUFFICES ASSUME NEW j \in DOMAIN targets, NEW h, h = targets'[j]
               PROVE  /\ mode = "error" => Base(h)'.files = {}
                      /\ FedOnce(h.table)' => SoleTarget(h)'
    BY <1>1 DEF SolesInv
  <2>1. PICK k : k = targets[j]
    OBVIOUS
  <2>2. SameTarget(h, k) /\ (j # i => h = k) /\ (j = i => h.state = how)
    BY <1>2, <2>1
  <2>3. /\ mode = "error" => Base(k).files = {}
        /\ FedOnce(k.table) => SoleTarget(k)
    BY <2>1 DEF RecordInv, SolesInv
  <2>4. k.table \in Tables /\ k.base \in DOMAIN log[k.table]
    BY <1>1, <2>1, TargetIsTarget DEF LoadInv, TargetInv, GoodTarget
  <2>5. Base(h)' = Base(k)
    BY <2>2, <2>4 DEF Base, SameTarget, LogsGrow
  <2>6. ASSUME FedOnce(h.table)' PROVE SoleTarget(h)'
    <3>1. FedOnce(k.table)
      BY <1>4, <2>2, <2>6 DEF SameTarget
    <3>2. CASE j = i
      BY <2>1, <2>2, <3>1, <3>2
    <3>3. CASE j # i
      <4>1. k.table # g.table
        BY <2>1, <3>1, <3>3 DEF RecordInv, OpenedInv
      <4>2. log'[k.table] = log[k.table]
        BY <2>4, <4>1
      <4>3. h = k /\ Latest(k.table)' = Latest(k.table)
        BY <2>2, <3>3, <4>2 DEF Latest
      <4> QED
        BY <2>3, <2>5, <3>1, <4>2, <4>3 DEF SoleTarget
    <3> QED
      BY <3>2, <3>3
  <2> QED
    BY <2>3, <2>5, <2>6
<1>6. RecordedInv'
  BY DEF RecordInv, RecordedInv, Run
<1>7. HistoryReadable'
  BY <1>1, RecordedStands DEF RecordInv
<1>8. HistoryTells'
  BY <1>1 DEF HistoryTells
<1> QED
  BY <1>3, <1>5, <1>6, <1>7, <1>8 DEF RecordInv

(* The outcome of target i, when stats and versions of other targets stay. *)
LEMMA StatsEnd ==
    ASSUME LoadInv, RecordInv, phase = "commit", phase' = "commit", UNCHANGED plans,
           NEW i \in DOMAIN targets, NEW how \in Outcomes, targets' = [targets EXCEPT ![i].state = how],
           \A t \in Tables : t # targets[i].table => log'[t] = log[t],
           stats' \in Seq([table : Tables, version : Nat, drift : Drifts]),
           Len(stats') = Len(stats), DOMAIN stats' = DOMAIN stats,
           \A k \in DOMAIN stats : /\ stats'[k].table = stats[k].table
                                   /\ stats'[k].drift = stats[k].drift
                                   /\ stats[k].table # targets[i].table => stats'[k].version = stats[k].version,
           how = "ok" /\ FedOnce(targets[i].table) => stats'[i].version + 1 = Len(log'[targets[i].table])
    PROVE  StatsInv'
<1>1. /\ TypeInv /\ targets \in Seq(Targets) /\ DOMAIN targets' = DOMAIN targets /\ targets' \in Seq(Targets)
      /\ Len(targets') = Len(targets)
  <2>1. targets[i] \in Targets /\ targets \in Seq(Targets) /\ TypeInv
    BY TargetIsTarget DEF LoadInv, TypeInv
  <2>2. PICK new : new = [targets[i] EXCEPT !.state = how]
    OBVIOUS
  <2>3. new \in Targets /\ targets' = [targets EXCEPT ![i] = new]
    BY <2>1, <2>2, WithState
  <2>4. targets' \in Seq(Targets) /\ DOMAIN targets' = DOMAIN targets
    BY <2>1, <2>3
  <2>5. Len(targets') = Len(targets)
    BY <2>1, <2>4
  <2> QED
    BY <2>1, <2>4, <2>5
<1>2. /\ Len(stats) = Len(targets) /\ DOMAIN stats = DOMAIN targets
      /\ \A k \in DOMAIN stats :
           /\ stats[k].table = targets[k].table
           /\ stats[k].drift = targets[k].drift
           /\ FedOnce(stats[k].table) /\ targets[k].state = "ok" => stats[k].version + 1 = Len(log[stats[k].table])
  <2>1. stats \in Seq([table : Tables, version : Nat, drift : Drifts]) /\ Len(stats) = Len(targets)
    BY DEF RecordInv, StatsInv
  <2>2. DOMAIN stats = DOMAIN targets
    BY <1>1, <2>1
  <2> QED
    BY <2>1, <2>2 DEF RecordInv, StatsInv
<1>0. \A t : (FedOnce(t)' <=> FedOnce(t))
  BY DEF FedOnce, Run
<1>3. ASSUME NEW k \in DOMAIN targets
      PROVE  /\ stats'[k].table = targets'[k].table
             /\ stats'[k].drift = targets'[k].drift
             /\ \A t : t = stats'[k].table /\ FedOnce(t)' /\ targets'[k].state = "ok" =>
                        stats'[k].version + 1 = Len(log'[t])
  <2>1. targets[k] \in Targets /\ targets[k].table \in Tables
    BY <1>1, TargetIsTarget
  <2>0. k \in DOMAIN stats
    BY <1>2
  <2>4. /\ stats[k].table = targets[k].table /\ stats[k].drift = targets[k].drift
        /\ FedOnce(stats[k].table) /\ targets[k].state = "ok" => stats[k].version + 1 = Len(log[stats[k].table])
    BY <1>2, <2>0
  <2>5. /\ stats'[k].table = stats[k].table /\ stats'[k].drift = stats[k].drift
        /\ stats[k].table # targets[i].table => stats'[k].version = stats[k].version
    BY <2>0
  <2>2. CASE k = i
    <3>1. /\ targets'[k].table = targets[k].table /\ targets'[k].drift = targets[k].drift
          /\ targets'[k].state = how
      BY <1>1, <2>1, <2>2, WithState
    <3>2. ASSUME NEW t, t = stats'[k].table, FedOnce(t)', targets'[k].state = "ok"
          PROVE  stats'[k].version + 1 = Len(log'[t])
      <4>1. t = targets[i].table /\ FedOnce(t)
        BY <1>0, <2>4, <2>5, <2>2, <3>2
      <4> QED
        BY <2>2, <3>1, <3>2, <4>1
    <3> QED
      BY <2>4, <2>5, <3>1, <3>2
  <2>3. CASE k # i
    <3>1. targets'[k] = targets[k]
      BY <2>3
    <3>2. ASSUME NEW t, t = stats'[k].table, FedOnce(t)', targets'[k].state = "ok"
          PROVE  stats'[k].version + 1 = Len(log'[t])
      <4>1. t = targets[k].table /\ t = stats[k].table /\ FedOnce(t)
        BY <1>0, <2>4, <2>5, <3>2
      <4>2. t # targets[i].table
        BY <2>3, <4>1 DEF RecordInv, OpenedInv
      <4>3. stats[k].version + 1 = Len(log[t]) /\ log'[t] = log[t] /\ stats'[k].version = stats[k].version
        BY <2>4, <2>5, <2>1, <3>1, <3>2, <4>1, <4>2
      <4> QED
        BY <4>3
    <3> QED
      BY <2>4, <2>5, <3>1, <3>2
  <2> QED
    BY <2>2, <2>3
<1>4. \A k \in DOMAIN stats' : /\ stats'[k].table = targets'[k].table
                               /\ stats'[k].drift = targets'[k].drift
  BY <1>2, <1>3
<1>5. \A k \in DOMAIN stats' : \A t : t = stats'[k].table /\ FedOnce(t)' /\ targets'[k].state = "ok" =>
                                     stats'[k].version + 1 = Len(log'[t])
  BY <1>2, <1>3
<1>6. \A k \in DOMAIN stats' : FedOnce(stats[k].table)' /\ targets'[k].state = "ok" =>
                                     stats'[k].version + 1 = Len(log'[stats'[k].table])
  BY <1>5
<1> QED
  BY <1>1, <1>2, <1>4, <1>6 DEF StatsInv

(* A commit that lands, over the version its actions were computed from    *)
(* if its target is the only one of the table.                             *)
LEMMA LandsRecordInv ==
    ASSUME LoadInv, RecordInv, phase = "commit", NEW i \in DOMAIN targets, NEW g, g = targets[i], g.state = "todo",
           NEW how \in {"ok", "landed"},
           targets' = [targets EXCEPT ![i].state = how],
           log' = [log EXCEPT ![g.table] = Append(@, Landed(g))],
           UNCHANGED <<mode, plans, phase, blk, history, before, result>>,
           how = "ok" => SetVersion(g.table, Len(log[g.table])),
           how # "ok" => UNCHANGED stats,
           log' \in [Tables -> Seq(Versions)]
    PROVE  RecordInv'
<1>1. PICK t \in Tables : t = g.table
  BY TargetIsTarget DEF LoadInv
<1>2. PICK new : new = Landed(g)
  OBVIOUS
<1>3. PICK n \in Nat : n = Len(log[t])
  BY <1>1, LogIsVersions DEF LoadInv
<1>4. /\ TypeInv /\ GoodTarget(g) /\ plans # <<>> /\ how \in Outcomes
      /\ log[t] \in Seq(Versions) /\ DOMAIN log[t] = 1..n /\ g.base \in 1..n
  BY <1>1, <1>3, LogIsVersions, TargetIsTarget DEF LoadInv, TargetInv, GoodTarget, Outcomes
<1>5. log'[t] = Append(log[t], new) /\ \A x \in Tables : x # t => log'[x] = log[x]
  BY <1>1, <1>2, <1>4 DEF TypeInv
<1>6. /\ Len(log'[t]) = n + 1 /\ DOMAIN log'[t] = 1..(n + 1)
      /\ \A v \in 1..n : log'[t][v] = log[t][v]
      /\ log'[t][n + 1] = new
  BY <1>3, <1>4, <1>5
<1>7. LogsGrow
  BY <1>4, <1>5, <1>6 DEF LogsGrow
<1>8. /\ new.files = (Latest(t).files \ Removes(g)) \cup g.actions
      /\ new.schema = IF DeclaresSchema(g) THEN g.schema ELSE Latest(t).schema
  BY <1>1, <1>2 DEF Landed
<1>9. FedOnce(t) => n = g.base /\ Latest(t) = Base(g)
  BY <1>1, <1>3, SoleDoesNotConflict
<1>10. ASSUME FedOnce(t), NEW h, SameTarget(h, g), h.state = how
       PROVE  SoleTarget(h)'
  <2>1. h.table = t /\ h.base = n /\ h.schema = g.schema /\ h.drift = g.drift
    BY <1>1, <1>9, <1>10 DEF SameTarget
  <2>2. Base(h)' = Base(g) /\ Latest(t)' = new
    BY <1>1, <1>4, <1>6, <1>9, <1>10, <2>1 DEF Base, Latest
  <2>3. before[t] # <<>> => Base(g).schema = before[t][Len(before[t])].schema
    BY <1>1, <1>10 DEF RecordInv, SolesInv, SoleTarget
  <2>4. mode = "overwrite" => new.schema = IF g.drift = NoDrift THEN Base(g).schema ELSE g.schema
    BY <1>8, <1>9, <1>10 DEF DeclaresSchema
  <2>5. Len(log'[t]) = h.base + 1 /\ h.state # "conflict" /\ h.state \in {"ok", "landed"}
    BY <1>6, <1>10, <2>1
  <2> QED
    BY <2>1, <2>2, <2>3, <2>4, <2>5 DEF SoleTarget
<1>11. VersionsAreWhole'
  <2>1. PlansGrow /\ Run \in Nat \ {0} /\ Run' = Run
    BY <1>4, PlanIsPlan DEF PlansGrow, Run
  <2>2. ASSUME mode # "append", FedOnce(t) PROVE new.files = Produced(Run, t)
    <3>1. FirstTarget(i)
      <4>1. ASSUME NEW j \in 1..(i - 1) PROVE targets[j].table # targets[i].table
        <5>1. i \in Nat /\ j \in DOMAIN targets /\ j # i
          BY <1>4, TargetIsTarget DEF TypeInv
        <5> QED
          BY <1>1, <2>2, <5>1 DEF RecordInv, OpenedInv
      <4> QED
        BY <4>1 DEF FirstTarget
    <3>2. g.actions = staged[t] /\ blk > Len(Plan)
      BY <1>1, <3>1 DEF LoadInv, PassInv
    <3>3. g.actions = Produced(Run, t)
      BY <3>2, StagedIsProduced
    <3>4. Base(g).files \ Removes(g) = {}
      <4>1. mode \in {"overwrite", "error"}
        BY <1>4, <2>2, ModeAssumption DEF TypeInv
      <4>2. mode = "error" => Base(g).files = {}
        BY DEF RecordInv, SolesInv
      <4> QED
        BY <4>1, <4>2 DEF Removes
    <3> QED
      BY <1>8, <1>9, <2>2, <3>3, <3>4
  <2>3. ASSUME NEW x \in Tables, FedOnce(x)', NEW v \in 2..Len(log'[x])
        PROVE  \/ v \in 2..Len(log[x]) /\ log'[x][v] = log[x][v]
               \/ mode # "append" => \E r \in 1..Run' : log'[x][v].files = Produced(r, x)'
    <3>1. CASE x # t
      BY <1>5, <2>3, <3>1
    <3>2. CASE x = t /\ v # n + 1
      BY <1>3, <1>6, <2>3, <3>2
    <3>3. CASE x = t /\ v = n + 1
      <4>1. FedOnce(t) /\ Run \in 1..Run'
        BY <1>4, <2>1, <2>3, <3>3, FedOnceBefore
      <4>2. Produced(Run, t)' = Produced(Run, t)
        BY DEF Produced, Run, FileOf
      <4>3. mode # "append" => log'[x][v].files = Produced(Run, x)
        BY <1>6, <2>2, <3>3, <4>1
      <4>4. PICK r : r = Run
        OBVIOUS
      <4>5. Produced(r, t)' = Produced(r, t) /\ r \in 1..Run'
        BY <1>4, <2>1, <4>1, <4>4, ProducedStands
      <4> QED
        BY <3>3, <4>3, <4>4, <4>5
    <3> QED
      BY <3>1, <3>2, <3>3
  <2> QED
    BY <1>4, <2>1, <2>3, WholeStands DEF RecordInv
<1>12. StatsInv'
  <2>1. CASE how = "ok"
    <3>1. VersionSet(i, t, n)
      <4>1. SetVersion(t, n) /\ t = targets[i].table
        BY <1>1, <1>3, <2>1
      <4> QED
        BY <1>3, <4>1, SetsVersion
    <3>2. how = "ok" /\ FedOnce(t) => stats'[i].version + 1 = Len(log'[t])
      BY <1>6, <3>1 DEF VersionSet
    <3>3. t = targets[i].table /\ phase' = "commit"
      BY <1>1
    <3> QED
      BY <1>4, <1>5, <3>1, <3>2, <3>3, StatsEnd DEF VersionSet
  <2>2. CASE how # "ok"
    <3>1. stats \in Seq([table : Tables, version : Nat, drift : Drifts]) /\ stats' = stats
      BY <2>2 DEF RecordInv, StatsInv
    <3> QED
      BY <1>1, <1>4, <1>5, <2>2, <3>1, StatsEnd
  <2> QED
    BY <2>1, <2>2
<1> QED
  BY <1>1, <1>4, <1>5, <1>7, <1>10, <1>11, <1>12, EndsRecordInv

LEMMA CommitTableRecordInv ==
    ASSUME LoadInv, LoadInv', RecordInv, NEW i \in DOMAIN targets, CommitTable(i)
    PROVE  RecordInv'
<1>1. PICK g : g = targets[i]
  OBVIOUS
<1>2. /\ phase = "commit" /\ g.state = "todo"
      /\ UNCHANGED <<mode, plans, phase, blk, staged, history, result, before>>
      /\ log' \in [Tables -> Seq(Versions)] /\ TypeInv /\ g.table \in Tables
  BY <1>1, TargetIsTarget DEF CommitTable, LoadInv, TypeInv
<1>3. ASSUME NEW how \in {"ok", "landed"}, targets' = [targets EXCEPT ![i].state = how],
             log' = [log EXCEPT ![g.table] = Append(@, Landed(g))],
             how = "ok" => SetVersion(g.table, Len(log[g.table])), how # "ok" => UNCHANGED stats
      PROVE  RecordInv'
  BY <1>1, <1>2, <1>3, LandsRecordInv
<1>4. ASSUME NEW how \in {"conflict", "err"}, targets' = [targets EXCEPT ![i].state = how], UNCHANGED <<log, stats>>,
             how = "conflict" => Conflicts(g)
      PROVE  RecordInv'
  <2>1. how \in Outcomes /\ how # "ok" /\ LogsGrow /\ PlansGrow
    BY <1>2, <1>4 DEF Outcomes, LogsGrow, PlansGrow
  <2>2. VersionsAreWhole'
    BY <1>2, <1>4, <2>1, WholeStands DEF RecordInv
  <2>3. StatsInv'
    <3>1. stats \in Seq([table : Tables, version : Nat, drift : Drifts])
      BY DEF RecordInv, StatsInv
    <3> QED
      BY <1>1, <1>2, <1>4, <2>1, <3>1, StatsEnd
  <2>4. ASSUME FedOnce(g.table), NEW h, SameTarget(h, g), h.state = how
        PROVE  SoleTarget(h)'
    <3>1. h.state = "err"
      BY <1>1, <1>2, <1>4, <2>4, SoleDoesNotConflict
    <3>2. SoleTarget(g)
      BY <1>1, <2>4 DEF RecordInv, SolesInv
    <3>3. Base(h)' = Base(g) /\ Latest(h.table)' = Latest(g.table)
      BY <1>4, <2>4 DEF Base, Latest, SameTarget
    <3> QED
      BY <1>2, <1>4, <2>4, <3>1, <3>2, <3>3 DEF SoleTarget, SameTarget
  <2> QED
    BY <1>1, <1>2, <1>4, <2>1, <2>2, <2>3, <2>4, EndsRecordInv
<1> QED
  BY <1>1, <1>3, <1>4 DEF CommitTable

-----------------------------------------------------------------------------
(***************************************************************************)
(* Opening a block.                                                        *)
(***************************************************************************)
(* No log changes but that of a table that had none.                       *)
OnlyCreates == \A t \in Tables : log'[t] = log[t] \/ (log[t] = <<>> /\ Len(log'[t]) = 1)

LEMMA CreatingStands ==
    ASSUME LoadInv, RecordInv, OnlyCreates, UNCHANGED <<mode, plans, history>>, phase # "idle", result' # "ok"
    PROVE  /\ RecordedInv' /\ HistoryReadable' /\ VersionsAreWhole' /\ HistoryTells'
           /\ \A i \in DOMAIN targets : log'[targets[i].table] = log[targets[i].table]
<1>1. TypeInv /\ PlansGrow
  BY DEF LoadInv, PlansGrow
<1>2. LogsGrow
  <2> SUFFICES ASSUME NEW t \in Tables, NEW v \in DOMAIN log[t]
               PROVE  v \in DOMAIN log'[t] /\ log'[t][v] = log[t][v]
    BY DEF LogsGrow
  <2>1. log[t] # <<>>
    OBVIOUS
  <2> QED
    BY <2>1 DEF OnlyCreates
<1>3. RecordedInv'
  BY DEF RecordInv, RecordedInv, Run
<1>4. HistoryReadable'
  BY <1>1, <1>2, RecordedStands DEF RecordInv
<1>5. VersionsAreWhole'
  <2>1. ASSUME NEW t \in Tables, NEW v \in 2..Len(log'[t])
        PROVE  v \in 2..Len(log[t]) /\ log'[t][v] = log[t][v]
    <3>1. ASSUME Len(log'[t]) = 1 PROVE FALSE
      <4>1. v \in 2..1
        BY <3>1
      <4> QED
        BY <4>1
    <3>2. log'[t] = log[t]
      BY <3>1 DEF OnlyCreates
    <3> QED
      BY <2>1, <3>2
  <2> QED
    BY <1>1, <2>1, WholeStands DEF RecordInv
<1>6. HistoryTells'
  BY DEF HistoryTells
<1>7. ASSUME NEW i \in DOMAIN targets PROVE log'[targets[i].table] = log[targets[i].table]
  <2>1. targets[i].table \in Tables /\ targets[i].base \in DOMAIN log[targets[i].table]
    BY <1>1, TargetIsTarget DEF LoadInv, TargetInv, GoodTarget
  <2>2. log[targets[i].table] # <<>>
    BY <2>1
  <2> QED
    BY <2>1, <2>2 DEF OnlyCreates
<1> QED
  BY <1>3, <1>4, <1>5, <1>6, <1>7

(* What is known of a target does not depend on other tables.              *)
LEMMA SoleStands ==
    ASSUME NEW g, log'[g.table] = log[g.table], UNCHANGED <<mode, plans, before>>,
           mode = "error" => Base(g).files = {}, FedOnce(g.table) => SoleTarget(g)
    PROVE  /\ mode = "error" => Base(g)'.files = {}
           /\ FedOnce(g.table)' => SoleTarget(g)'
<1>1. FedOnce(g.table)' => FedOnce(g.table)
  BY DEF FedOnce, Run
<1>2. Base(g)' = Base(g) /\ Latest(g.table)' = Latest(g.table)
  BY DEF Base, Latest
<1> QED
  BY <1>1, <1>2 DEF SoleTarget

(* create() has landed and an error follows.                               *)
LEMMA CreatedRecordInv ==
    ASSUME LoadInv, RecordInv, OnlyCreates, phase # "idle", NEW how, how # "ok", Return(how),
           UNCHANGED <<mode, plans, targets, stats, history, before>>
    PROVE  RecordInv'
<1>1. phase' = "idle" /\ result' # "ok"
  BY DEF Return
<1>2. /\ RecordedInv' /\ HistoryReadable' /\ VersionsAreWhole' /\ HistoryTells'
      /\ \A i \in DOMAIN targets : log'[targets[i].table] = log[targets[i].table]
  BY <1>1, CreatingStands
<1>3. OpenedInv'
  BY <1>1 DEF RecordInv, OpenedInv, FedOnce, Run
<1>4. SolesInv'
  <2> SUFFICES ASSUME NEW i \in DOMAIN targets, NEW g, g = targets[i]
               PROVE  /\ mode = "error" => Base(g)'.files = {}
                      /\ FedOnce(g.table)' => SoleTarget(g)'
    BY DEF SolesInv
  <2>1. /\ mode = "error" => Base(g).files = {}
        /\ FedOnce(g.table) => SoleTarget(g)
    BY DEF RecordInv, SolesInv
  <2> QED
    BY <1>2, <2>1, SoleStands
<1>5. StatsInv'
  BY <1>1 DEF RecordInv, StatsInv
<1> QED
  BY <1>2, <1>3, <1>4, <1>5 DEF RecordInv

(* A target is opened over the newest version of its table.                *)
LEMMA OpenTargetRecordInv ==
    ASSUME LoadInv, LoadInv', RecordInv, phase = "open", blk <= Len(Plan), Plan[blk].wanted,
           NEW t, t = Plan[blk].table, NEW base, NEW drift, OpenTarget(t, base, drift),
           OnlyCreates, \A x \in Tables : x # t => log'[x] = log[x],
           base = Len(log'[t]), mode = "error" => log'[t][base].files = {},
           UNCHANGED <<mode, plans, blk, stats, history, before>>
    PROVE  RecordInv'
<1>1. /\ TypeInv /\ plans # <<>> /\ targets \in Seq(Targets) /\ targets' \in Seq(Targets) /\ result # "ok"
      /\ blk \in Nat /\ blk >= 1 /\ phase' = "stage" /\ result' = result
  BY DEF LoadInv, TypeInv, OpenTarget
<1>2. PICK n \in Nat : n = Len(targets)
  BY <1>1
<1>3. PICK new : new = [table |-> t, base |-> base, schema |-> Plan[blk].schema,
                        drift |-> drift, actions |-> {}, state |-> "todo"]
  OBVIOUS
<1>4. targets' = Append(targets, new)
  BY <1>3 DEF OpenTarget
<1>5. /\ DOMAIN targets = 1..n /\ DOMAIN targets' = 1..(n + 1) /\ Len(targets') = n + 1
      /\ \A i \in 1..n : targets'[i] = targets[i]
      /\ targets'[n + 1] = new
  BY <1>1, <1>2, <1>4
<1>6. new.table = t /\ new.base = base /\ new.state = "todo"
  BY <1>3
<1>7. /\ Plan' = Plan /\ \A x : (FedOnce(x)' <=> FedOnce(x))
      /\ blk \in DOMAIN Plan /\ t \in Tables /\ DOMAIN Plan \subseteq Nat
  <2>1. Plan' = Plan /\ \A x : (FedOnce(x)' <=> FedOnce(x))
    BY DEF Plan, Run, FedOnce
  <2>2. blk \in DOMAIN Plan
    BY <1>1, PlanIsPlan
  <2> QED
    BY <1>1, <2>1, <2>2, PlanIsPlan
<1>8. /\ RecordedInv' /\ HistoryReadable' /\ VersionsAreWhole' /\ HistoryTells'
      /\ \A i \in DOMAIN targets : log'[targets[i].table] = log[targets[i].table]
  BY <1>1, CreatingStands
<1>9. \A i \in 1..n : \E b \in DOMAIN Plan : Plan[b].table = targets[i].table /\ Plan[b].wanted /\ b < blk
  BY <1>5 DEF RecordInv, OpenedInv
<1>10. FedOnce(t) => \A i \in 1..n : targets[i].table # t
  <2> SUFFICES ASSUME FedOnce(t), NEW i \in 1..n, targets[i].table = t PROVE FALSE
    OBVIOUS
  <2>1. PICK b \in DOMAIN Plan : Plan[b].table = t /\ b < blk
    BY <1>9
  <2>2. b = blk
    BY <1>1, <1>7, <2>1, OneBlock
  <2> QED
    BY <1>1, <2>1, <2>2
<1>11. OpenedInv'
  <2>1. ASSUME NEW i \in 1..(n + 1)
        PROVE  \E b \in DOMAIN Plan : Plan[b].table = targets'[i].table /\ Plan[b].wanted /\ (b < blk \/ b = blk)
    <3>1. CASE i \in 1..n
      BY <1>5, <1>9, <3>1
    <3>2. CASE i = n + 1
      BY <1>5, <1>6, <1>7, <3>2
    <3> QED
      BY <2>1, <1>2, <3>1, <3>2
  <2>2. targets' # <<>> /\ targets'[Len(targets')].table = Plan[blk].table
    BY <1>5, <1>6
  <2>3. ASSUME NEW i \in 1..(n + 1), NEW j \in 1..(n + 1), NEW x, x = targets'[i].table, x = targets'[j].table, FedOnce(x)
        PROVE  i = j
    <3>1. CASE i \in 1..n /\ j \in 1..n
      <4>1. \A a, b \in 1..n : targets[a].table = targets[b].table /\ FedOnce(targets[a].table) => a = b
        BY <1>5 DEF RecordInv, OpenedInv
      <4>2. targets[i].table = x /\ targets[j].table = x
        BY <1>5, <2>3, <3>1
      <4> QED
        BY <2>3, <3>1, <4>1, <4>2
    <3>2. CASE i = n + 1 /\ j \in 1..n
      BY <1>5, <1>6, <1>10, <2>3, <3>2
    <3>3. CASE j = n + 1 /\ i \in 1..n
      BY <1>5, <1>6, <1>10, <2>3, <3>3
    <3> QED
      BY <1>2, <2>3, <3>1, <3>2, <3>3
  <2>4. \A i, j \in DOMAIN targets' : targets'[i].table = targets'[j].table /\ FedOnce(targets[i].table)' => i = j
    BY <1>5, <1>7, <2>3
  <2>5. ASSUME NEW x \in Tables, \A i \in 1..(n + 1) : targets'[i].table # x PROVE log'[x] = before[x]
    <3>1. x # t
      BY <1>2, <1>5, <1>6, <2>5
    <3>2. \A i \in 1..n : targets[i].table # x
      BY <1>2, <1>5, <2>5
    <3>3. log[x] = before[x]
      BY <1>5, <3>2 DEF RecordInv, OpenedInv
    <3> QED
      BY <3>1, <3>3
  <2> QED
    BY <1>1, <1>5, <1>7, <2>1, <2>2, <2>4, <2>5 DEF OpenedInv
<1>12. SolesInv'
  <2> SUFFICES ASSUME NEW i \in 1..(n + 1), NEW h, h = targets'[i]
               PROVE  /\ mode = "error" => Base(h)'.files = {}
                      /\ FedOnce(h.table)' => SoleTarget(h)'
    BY <1>5 DEF SolesInv
  <2>1. CASE i \in 1..n
    <3>1. h = targets[i] /\ i \in DOMAIN targets
      BY <1>5, <2>1
    <3>2. /\ mode = "error" => Base(h).files = {}
          /\ FedOnce(h.table) => SoleTarget(h)
      BY <3>1 DEF RecordInv, SolesInv
    <3> QED
      BY <1>8, <3>1, <3>2, SoleStands
  <2>2. CASE i = n + 1
    <3>1. h.table = t /\ h.base = base /\ h.state = "todo"
      BY <1>5, <1>6, <2>2
    <3>2. Base(h)' = log'[t][base]
      BY <3>1 DEF Base
    <3>3. ASSUME FedOnce(t), before[t] # <<>> PROVE Base(h)'.schema = before[t][Len(before[t])].schema
      <4>1. log[t] = before[t]
        BY <1>5, <1>7, <1>10, <3>3 DEF RecordInv, OpenedInv
      <4>2. log'[t] = log[t]
        BY <1>7, <3>3, <4>1 DEF OnlyCreates
      <4> QED
        BY <3>2, <4>1, <4>2
    <3>4. FedOnce(t)' => FedOnce(t)
      BY <1>7
    <3> QED
      BY <3>1, <3>2, <3>3, <3>4 DEF SoleTarget
  <2> QED
    BY <1>2, <2>1, <2>2
<1>13. StatsInv'
  <2>1. /\ stats \in Seq([table : Tables, version : Nat, drift : Drifts])
        /\ Len(stats) = n
        /\ \A i \in DOMAIN stats : stats[i].table = targets[i].table /\ stats[i].drift = targets[i].drift
    BY <1>2 DEF RecordInv, StatsInv
  <2>2. DOMAIN stats = 1..n
    BY <2>1
  <2>3. \A i \in 1..n : targets[i].state = "todo"
    BY <1>5 DEF LoadInv, PassInv
  <2>4. /\ \A i \in DOMAIN stats : /\ stats'[i].table = targets'[i].table
                                   /\ stats'[i].drift = targets'[i].drift
                                   /\ targets'[i].state # "ok"
        /\ Len(stats') = Len(targets') - 1
    BY <1>2, <1>5, <2>1, <2>2, <2>3
  <2> QED
    BY <1>1, <2>1, <2>4 DEF StatsInv
<1> QED
  BY <1>8, <1>11, <1>12, <1>13 DEF RecordInv

LEMMA OpenBlockRecordInv ==
    ASSUME LoadInv, LoadInv', RecordInv, OpenBlock
    PROVE  RecordInv'
<1>1. PICK t : t = Plan[blk].table
  OBVIOUS
<1>2. PICK s : s = Plan[blk].schema
  OBVIOUS
<1>3. PICK created : created = [files |-> {}, schema |-> s, removed |-> {}, meta |-> TRUE]
  OBVIOUS
<1>4. PICK drift : drift = diff_schema(Latest(t).schema, s)
  OBVIOUS
<1>5. /\ phase = "open" /\ blk <= Len(Plan) /\ Plan[blk].wanted
      /\ UNCHANGED <<mode, plans, blk, staged, stats, committed, history, before>>
  BY DEF OpenBlock
<1>6. t \in Tables /\ log \in [Tables -> Seq(Versions)]
  <2>1. TypeInv /\ plans # <<>> /\ blk \in Nat /\ blk >= 1
    BY <1>5 DEF LoadInv, TypeInv
  <2> QED
    BY <1>1, <1>5, <2>1, PlanIsPlan DEF TypeInv
<1>7. ASSUME log[t] = <<>>, log' = [log EXCEPT ![t] = <<created>>]
      PROVE  /\ OnlyCreates /\ Len(log'[t]) = 1 /\ log'[t][1].files = {}
             /\ \A x \in Tables : x # t => log'[x] = log[x]
  <2>1. log'[t] = <<created>> /\ \A x \in Tables : x # t => log'[x] = log[x]
    BY <1>6, <1>7
  <2> QED
    BY <1>3, <1>7, <2>1 DEF OnlyCreates
<1>8. CASE log[t] = <<>> /\ log' = [log EXCEPT ![t] = <<created>>] /\ OpenTarget(t, 1, NoDrift)
  <2>1. /\ OnlyCreates /\ Len(log'[t]) = 1 /\ log'[t][1].files = {}
        /\ \A x \in Tables : x # t => log'[x] = log[x]
    BY <1>7, <1>8
  <2> QED
    BY <1>1, <1>5, <1>8, <2>1, OpenTargetRecordInv
<1>9. CASE log[t] = <<>> /\ log' = [log EXCEPT ![t] = <<created>>] /\ Return("PassFailed") /\ UNCHANGED targets
  <2>1. OnlyCreates
    BY <1>7, <1>9
  <2> QED
    BY <1>5, <1>9, <2>1, CreatedRecordInv
<1>10. CASE log[t] # <<>> /\ ~RefusesTable(t, drift) /\ OpenTarget(t, Len(log[t]), drift) /\ UNCHANGED log
  <2>1. OnlyCreates /\ \A x \in Tables : x # t => log'[x] = log[x]
    BY <1>10 DEF OnlyCreates
  <2>2. PICK base : base = Len(log[t])
    OBVIOUS
  <2>3. mode = "error" => log'[t][base].files = {}
    BY <1>10, <2>2 DEF RefusesTable, Latest
  <2>4. OpenTarget(t, base, drift) /\ base = Len(log'[t])
    BY <1>10, <2>2
  <2> QED
    BY <1>1, <1>5, <2>1, <2>3, <2>4, OpenTargetRecordInv
<1>11. CASE Return("PassFailed") /\ UNCHANGED <<log, targets>>
  BY <1>5, <1>11, StopRecordInv
<1> QED
  BY <1>1, <1>2, <1>3, <1>4, <1>8, <1>9, <1>10, <1>11 DEF OpenBlock

-----------------------------------------------------------------------------
(***************************************************************************)
(* The report and the history.                                             *)
(***************************************************************************)
(* The names a drift lists are those of the fields that differ.            *)
LEMMA DriftNames ==
    ASSUME NEW s \in Schemas, NEW r \in Schemas, NEW d, d = diff_schema(s, r)
    PROVE  d.added \cup d.removed \cup d.retyped
             = {f.name : f \in (Fields(s) \ Fields(r)) \cup (Fields(r) \ Fields(s))}
<1> DEFINE Differ == (Fields(s) \ Fields(r)) \cup (Fields(r) \ Fields(s))
           Retyped == {g \in Fields(r) : g.name \in FieldNames(s) /\ g \notin Fields(s)}
<1>1. /\ d.added = FieldNames(r) \ FieldNames(s)
      /\ d.removed = FieldNames(s) \ FieldNames(r)
      /\ d.retyped = {f.name : f \in Retyped}
  BY DEF diff_schema
<1>2. ASSUME NEW x \in d.added \cup d.removed \cup d.retyped PROVE \E f \in Differ : x = f.name
  BY <1>1, <1>2 DEF FieldNames
<1>3. ASSUME NEW f \in Differ PROVE f.name \in d.added \cup d.removed \cup d.retyped
  <2>1. CASE f \in Fields(r) \ Fields(s)
    <3>1. f.name \in FieldNames(r)
      BY <2>1 DEF FieldNames
    <3>2. f.name \in FieldNames(s) => f.name \in d.retyped
      BY <1>1, <2>1
    <3> QED
      BY <1>1, <3>1, <3>2
  <2>2. CASE f \in Fields(s) \ Fields(r)
    <3>1. f.name \in FieldNames(s)
      BY <2>2 DEF FieldNames
    <3>2. CASE f.name \notin FieldNames(r)
      BY <1>1, <3>1, <3>2
    <3>3. CASE f.name \in FieldNames(r)
      <4>1. PICK g \in Fields(r) : g.name = f.name
        BY <3>3 DEF FieldNames
      <4>2. g \notin Fields(s)
        BY <2>2, <4>1, PlansAssumption
      <4>3. g \in Retyped
        BY <3>1, <4>1, <4>2
      <4> QED
        BY <1>1, <4>1, <4>3
    <3> QED
      BY <3>2, <3>3
  <2> QED
    BY <2>1, <2>2
<1> QED
  BY <1>2, <1>3

(* A row of the report.                                                    *)
LoadedRow(h, i) ==
    /\ h.run = Run /\ h.table = stats[i].table /\ h.status = "loaded"
    /\ h.expected = (stats[i].table \notin UnexpectedTables)
    /\ h.version = stats[i].version /\ h.drift = stats[i].drift

MissingRow(h, t) == h.run = Run /\ h.table = t /\ h.status = "missing"

LEMMA RowsOfReport ==
    /\ \A h \in rows_for : \/ \E i \in DOMAIN stats : LoadedRow(h, i)
                           \/ \E t \in MissingTables : MissingRow(h, t)
    /\ \A i \in DOMAIN stats : \E h \in rows_for : LoadedRow(h, i)
    /\ \A t \in MissingTables : \E h \in rows_for : MissingRow(h, t)
<1>1. ASSUME NEW h \in rows_for
      PROVE  \/ \E i \in DOMAIN stats : LoadedRow(h, i)
             \/ \E t \in MissingTables : MissingRow(h, t)
  <2>1. CASE \E i \in DOMAIN stats :
                h = [run |-> Run, table |-> stats[i].table, status |-> "loaded",
                     expected |-> stats[i].table \notin UnexpectedTables,
                     version |-> stats[i].version, drift |-> stats[i].drift]
    BY <2>1 DEF LoadedRow
  <2>2. CASE \E t \in MissingTables :
                h = [run |-> Run, table |-> t, status |-> "missing", expected |-> TRUE,
                     version |-> Null, drift |-> NoDrift]
    BY <2>2 DEF MissingRow
  <2> QED
    BY <1>1, <2>1, <2>2 DEF rows_for
<1>2. ASSUME NEW i \in DOMAIN stats PROVE \E h \in rows_for : LoadedRow(h, i)
  <2>1. PICK h : h = [run |-> Run, table |-> stats[i].table, status |-> "loaded",
                      expected |-> stats[i].table \notin UnexpectedTables,
                      version |-> stats[i].version, drift |-> stats[i].drift]
    OBVIOUS
  <2>2. h \in rows_for
    BY <2>1 DEF rows_for
  <2> QED
    BY <2>1, <2>2 DEF LoadedRow
<1>3. ASSUME NEW t \in MissingTables PROVE \E h \in rows_for : MissingRow(h, t)
  <2>1. PICK h : h = [run |-> Run, table |-> t, status |-> "missing", expected |-> TRUE,
                      version |-> Null, drift |-> NoDrift]
    OBVIOUS
  <2>2. h \in rows_for
    BY <2>1 DEF rows_for
  <2> QED
    BY <2>1, <2>2 DEF MissingRow
<1> QED
  BY <1>1, <1>2, <1>3

(* When every target has ended well, the stats and the targets are about   *)
(* the tables of the wanted blocks.                                        *)
LEMMA StatsOfRecord ==
    ASSUME LoadInv, RecordInv, phase = "record"
    PROVE  /\ TypeInv /\ plans # <<>> /\ blk > Len(Plan)
           /\ DOMAIN stats = DOMAIN targets
           /\ \A i \in DOMAIN targets :
                /\ targets[i].state = "ok"
                /\ targets[i].table \in Tables
                /\ stats[i].table = targets[i].table
                /\ stats[i].drift = targets[i].drift
                /\ stats[i].version \in Nat
                /\ FedOnce(targets[i].table) => stats[i].version + 1 = Len(log[targets[i].table])
                /\ \E b \in DOMAIN Plan : Plan[b].table = targets[i].table /\ Plan[b].wanted
           /\ \A b \in DOMAIN Plan : Plan[b].wanted => \E i \in DOMAIN targets : targets[i].table = Plan[b].table
<1>1. TypeInv /\ plans # <<>> /\ blk > Len(Plan) /\ targets \in Seq(Targets) /\ blk \in Nat
  BY DEF LoadInv, TypeInv, PassInv
<1>2. /\ stats \in Seq([table : Tables, version : Nat, drift : Drifts]) /\ Len(stats) = Len(targets)
      /\ \A i \in DOMAIN stats :
           /\ stats[i].table = targets[i].table
           /\ stats[i].drift = targets[i].drift
           /\ FedOnce(stats[i].table) /\ targets[i].state = "ok" => stats[i].version + 1 = Len(log[stats[i].table])
  BY DEF RecordInv, StatsInv
<1>3. DOMAIN stats = DOMAIN targets
  BY <1>1, <1>2
<1>4. ASSUME NEW i \in DOMAIN targets
      PROVE  /\ targets[i].state = "ok"
             /\ targets[i].table \in Tables
             /\ stats[i].version \in Nat
             /\ \E b \in DOMAIN Plan : Plan[b].table = targets[i].table /\ Plan[b].wanted
  <2>1. targets[i].state = "ok"
    BY DEF LoadInv, PassInv
  <2>2. targets[i].table \in Tables
    BY <1>1, TargetIsTarget
  <2>3. stats[i] \in [table : Tables, version : Nat, drift : Drifts]
    <3>1. PICK Stat : Stat = [table : Tables, version : Nat, drift : Drifts]
      OBVIOUS
    <3>2. stats \in Seq(Stat) /\ i \in DOMAIN stats
      BY <1>2, <1>3, <3>1
    <3>3. stats[i] \in Stat
      BY <3>2
    <3> QED
      BY <3>1, <3>3
  <2>4. \E b \in DOMAIN Plan : Plan[b].table = targets[i].table /\ Plan[b].wanted
    BY DEF RecordInv, OpenedInv
  <2> QED
    BY <2>1, <2>2, <2>3, <2>4
<1>5. ASSUME NEW b \in DOMAIN Plan, Plan[b].wanted
      PROVE  \E i \in DOMAIN targets : targets[i].table = Plan[b].table
  <2>1. b < blk
    <3>1. Plan \in Seq(Blocks) /\ b \in Nat \ {0}
      BY <1>1, PlanIsPlan
    <3> QED
      BY <1>1, <3>1
  <2> QED
    BY <1>5, <2>1 DEF LoadInv, PassInv
<1> QED
  BY <1>1, <1>2, <1>3, <1>4, <1>5

(* The version recorded of a table that one block feeds is the newest, and *)
(* it is what this load produced.                                          *)
LEMMA RecordsItsOwn ==
    ASSUME LoadInv, RecordInv, phase = "record", NEW i \in DOMAIN targets, NEW t, t = targets[i].table, FedOnce(t),
           NEW v, v = stats[i].version
    PROVE  /\ v + 1 \in DOMAIN log[t]
           /\ Produced(Run, t) \subseteq log[t][v + 1].files
           /\ IF mode = "overwrite" THEN log[t][v + 1].files \subseteq Produced(Run, t)
                                    ELSE \A f \in log[t][v + 1].files : f.run <= Run
<1>1. PICK g : g = targets[i]
  OBVIOUS
<1>2. TypeInv /\ plans # <<>> /\ blk > Len(Plan) /\ g.state = "ok" /\ t \in Tables /\ v + 1 = Len(log[t]) /\ t = g.table
  BY <1>1, StatsOfRecord
<1>3. GoodTarget(g)
  BY <1>1 DEF LoadInv, TargetInv
<1>4. log[t] # <<>>
  BY <1>2, <1>3 DEF GoodTarget
<1>5. v + 1 \in DOMAIN log[t] /\ log[t][v + 1] = Latest(t)
  BY <1>2, <1>4, LogIsVersions DEF Latest
<1>6. FirstTarget(i)
  <2>1. PICK k \in DOMAIN targets : targets[k].table = targets[i].table /\ FirstTarget(k)
    BY DEF LoadInv, PassInv
  <2>2. k = i
    BY <2>1 DEF RecordInv, OpenedInv
  <2> QED
    BY <2>1, <2>2
<1>7. g.actions = Produced(Run, t)
  <2>1. g.actions = staged[t]
    BY <1>1, <1>2, <1>6 DEF LoadInv, PassInv
  <2> QED
    BY <1>2, <2>1, StagedIsProduced
<1>8. /\ Produced(Run, t) \subseteq Latest(t).files
      /\ Latest(t).files \subseteq Base(g).files \cup Produced(Run, t)
      /\ mode = "overwrite" => Latest(t).files \cap Base(g).files = {}
  BY <1>2, <1>3, <1>7 DEF GoodTarget
<1>9. \A f \in Latest(t).files : f.run <= Run
  BY <1>2, <1>5 DEF LoadInv, RunsInv
<1> QED
  BY <1>5, <1>8, <1>9

(* What the rows of a load that is about to succeed say of a table.        *)
LEMMA ReportTells ==
    ASSUME LoadInv, RecordInv, phase = "record", NEW t \in Tables
    PROVE  /\ (\E h \in rows_for : h.table = t /\ h.status = "loaded") <=>
                 (\E b \in DOMAIN Plan : Plan[b].table = t /\ Plan[b].wanted)
           /\ (\E h \in rows_for : h.table = t /\ h.status = "missing") <=>
                 (t \in Expectation /\ ~\E b \in DOMAIN Plan : Plan[b].table = t)
           /\ (~\E b \in DOMAIN Plan : Plan[b].table = t) => log[t] = before[t]
           /\ \A h \in rows_for : h.table = t /\ h.status = "loaded" =>
                /\ h.expected = (Expected = Null \/ t \in Expected)
                /\ mode = "overwrite" /\ FedOnce(t) /\ before[t] # <<>> =>
                     h.drift.added \cup h.drift.removed \cup h.drift.retyped
                       = {f.name : f \in (Fields(before[t][Len(before[t])].schema) \ Fields(Latest(t).schema))
                                            \cup (Fields(Latest(t).schema) \ Fields(before[t][Len(before[t])].schema))}
<1>1. /\ TypeInv /\ DOMAIN stats = DOMAIN targets
      /\ \A i \in DOMAIN targets :
           /\ targets[i].state = "ok"
           /\ stats[i].table = targets[i].table
           /\ stats[i].drift = targets[i].drift
           /\ \E b \in DOMAIN Plan : Plan[b].table = targets[i].table /\ Plan[b].wanted
      /\ \A b \in DOMAIN Plan : Plan[b].wanted => \E i \in DOMAIN targets : targets[i].table = Plan[b].table
  BY StatsOfRecord
<1>2. ASSUME NEW h \in rows_for, h.table = t, h.status = "loaded"
      PROVE  \E i \in DOMAIN targets : targets[i].table = t /\ LoadedRow(h, i)
  <2>1. ~\E x \in MissingTables : MissingRow(h, x)
    BY <1>2 DEF MissingRow
  <2>2. PICK i \in DOMAIN stats : LoadedRow(h, i)
    BY <2>1, RowsOfReport
  <2>3. stats[i].table = t
    BY <1>2, <2>2 DEF LoadedRow
  <2> QED
    BY <1>1, <2>2, <2>3
<1>3. (\E h \in rows_for : h.table = t /\ h.status = "loaded") <=>
        (\E b \in DOMAIN Plan : Plan[b].table = t /\ Plan[b].wanted)
  <2>1. ASSUME NEW h \in rows_for, h.table = t, h.status = "loaded"
        PROVE  \E b \in DOMAIN Plan : Plan[b].table = t /\ Plan[b].wanted
    BY <1>1, <1>2, <2>1
  <2>2. ASSUME NEW b \in DOMAIN Plan, Plan[b].table = t, Plan[b].wanted
        PROVE  \E h \in rows_for : h.table = t /\ h.status = "loaded"
    <3>1. PICK i \in DOMAIN stats : stats[i].table = t
      BY <1>1, <2>2
    <3>2. PICK h \in rows_for : LoadedRow(h, i)
      BY RowsOfReport
    <3> QED
      BY <3>1, <3>2 DEF LoadedRow
  <2> QED
    BY <2>1, <2>2
<1>4. (\E h \in rows_for : h.table = t /\ h.status = "missing") <=>
        (t \in Expectation /\ ~\E b \in DOMAIN Plan : Plan[b].table = t)
  <2>1. t \in MissingTables <=> t \in Expectation /\ ~\E b \in DOMAIN Plan : Plan[b].table = t
    BY DEF MissingTables, Seen
  <2>2. ASSUME NEW h \in rows_for, h.table = t, h.status = "missing" PROVE t \in MissingTables
    <3>1. ~\E i \in DOMAIN stats : LoadedRow(h, i)
      BY <2>2 DEF LoadedRow
    <3>2. PICK x \in MissingTables : MissingRow(h, x)
      BY <3>1, RowsOfReport
    <3> QED
      BY <2>2, <3>2 DEF MissingRow
  <2>3. t \in MissingTables => \E h \in rows_for : h.table = t /\ h.status = "missing"
    BY RowsOfReport DEF MissingRow
  <2> QED
    BY <2>1, <2>2, <2>3
<1>5. ASSUME ~\E b \in DOMAIN Plan : Plan[b].table = t PROVE log[t] = before[t]
  <2>1. \A i \in DOMAIN targets : targets[i].table # t
    BY <1>1, <1>5
  <2> QED
    BY <2>1 DEF RecordInv, OpenedInv
<1>6. ASSUME NEW h \in rows_for, h.table = t, h.status = "loaded"
      PROVE  h.expected = (Expected = Null \/ t \in Expected)
  <2>1. PICK i \in DOMAIN targets : targets[i].table = t /\ LoadedRow(h, i)
    BY <1>2, <1>6
  <2>2. t \in Seen
    BY <1>1, <2>1 DEF Seen
  <2>3. stats[i].table = t
    BY <1>1, <2>1
  <2>4. h.expected = (t \notin UnexpectedTables)
    BY <2>1, <2>3 DEF LoadedRow
  <2>5. t \notin UnexpectedTables <=> Expected = Null \/ t \in Expected
    BY <2>2 DEF UnexpectedTables
  <2> QED
    BY <2>4, <2>5
<1>7. ASSUME NEW h \in rows_for, h.table = t, h.status = "loaded", mode = "overwrite", FedOnce(t), before[t] # <<>>,
             NEW was, was = before[t][Len(before[t])].schema, NEW now, now = Latest(t).schema
      PROVE  h.drift.added \cup h.drift.removed \cup h.drift.retyped
               = {f.name : f \in (Fields(was) \ Fields(now)) \cup (Fields(now) \ Fields(was))}
  <2>1. PICK i \in DOMAIN targets : targets[i].table = t /\ LoadedRow(h, i)
    BY <1>2, <1>7
  <2>2. PICK g : g = targets[i]
    OBVIOUS
  <2>3. g.table = t /\ g.state = "ok" /\ h.drift = g.drift
    BY <1>1, <2>1, <2>2 DEF LoadedRow
  <2>4. Base(g).schema = was /\ now = IF g.drift = NoDrift THEN was ELSE g.schema
    BY <1>7, <2>2, <2>3 DEF RecordInv, SolesInv, SoleTarget
  <2>5. g.drift = diff_schema(was, g.schema) /\ was \in Schemas /\ g.schema \in Schemas
    <3>1. GoodTarget(g) /\ g.schema \in Schemas
      BY <1>1, <2>2, TargetIsTarget DEF LoadInv, TargetInv
    <3>2. Base(g).schema \in Schemas
      BY <1>1, <2>3, <3>1, LogIsVersions DEF GoodTarget, Base
    <3> QED
      BY <2>4, <3>1, <3>2 DEF GoodTarget
  <2>6. CASE g.drift = NoDrift
    <3>1. h.drift.added \cup h.drift.removed \cup h.drift.retyped = {}
      BY <2>3, <2>6 DEF NoDrift
    <3>2. (Fields(was) \ Fields(now)) \cup (Fields(now) \ Fields(was)) = {}
      BY <2>4, <2>6
    <3> QED
      BY <3>1, <3>2
  <2>7. CASE g.drift # NoDrift
    BY <2>3, <2>4, <2>5, <2>7, DriftNames
  <2> QED
    BY <2>6, <2>7
<1> QED
  BY <1>3, <1>4, <1>5, <1>6, <1>7

LEMMA RecordRecordInv ==
    ASSUME LoadInv, RecordInv, Record
    PROVE  RecordInv'
<1>1. /\ phase = "record" /\ phase' = "idle" /\ TypeInv /\ PlansGrow /\ LogsGrow
      /\ UNCHANGED <<mode, log, plans, blk, targets, staged, stats, committed, before>>
  BY DEF Record, Return, LoadInv, PlansGrow, LogsGrow
<1>2. CASE Return("ManifestFailed") /\ history' = history
  BY <1>1, <1>2, StopRecordInv
<1>3. CASE history' = history \cup rows_for /\ (Return("ok") \/ Return("ManifestFailed"))
  <2>1. OpenedInv'
    <3>1. \A t : (FedOnce(t)' <=> FedOnce(t))
      BY <1>1 DEF Run, FedOnce
    <3>2. \A i, j \in DOMAIN targets : targets[i].table = targets[j].table /\ FedOnce(targets[i].table) => i = j
      BY DEF RecordInv, OpenedInv
    <3> QED
      BY <1>1, <3>1, <3>2 DEF OpenedInv
  <2>2. SolesInv'
    BY <1>1, SolesStand DEF RecordInv
  <2>3. StatsInv'
    BY <1>1 DEF RecordInv, StatsInv
  <2>4. VersionsAreWhole'
    BY <1>1, WholeStands DEF RecordInv
  <2>5. /\ Run' = Run /\ Run \in Nat \ {0}
        /\ \A t : (FedOnce(t)' <=> FedOnce(t))
        /\ \A r, t : Produced(r, t)' = Produced(r, t)
    <3>1. Run' = Run /\ \A t : (FedOnce(t)' <=> FedOnce(t))
      BY <1>1 DEF Run, FedOnce
    <3>2. \A r, t : Produced(r, t)' = Produced(r, t)
      BY <1>1 DEF Produced, FileOf
    <3> QED
      BY <1>1, <3>1, <3>2, StatsOfRecord, PlanIsPlan
  <2>6. ASSUME NEW h \in rows_for
        PROVE  /\ h.run = Run /\ h.table \in Tables
               /\ h.status = "loaded" =>
                    \E i \in DOMAIN targets : targets[i].table = h.table /\ h.version = stats[i].version /\ h.version \in Nat
    <3>1. CASE \E i \in DOMAIN stats : LoadedRow(h, i)
      <4>1. PICK i \in DOMAIN stats : LoadedRow(h, i)
        BY <3>1
      <4>2. i \in DOMAIN targets /\ stats[i].table = targets[i].table /\ stats[i].version \in Nat /\ targets[i].table \in Tables
        BY <1>1, StatsOfRecord
      <4> QED
        BY <4>1, <4>2 DEF LoadedRow
    <3>2. CASE \E t \in MissingTables : MissingRow(h, t)
      BY <3>2, ListsAssumption DEF MissingRow, MissingTables, Expectation
    <3> QED
      BY <3>1, <3>2, RowsOfReport
  <2>7. RecordedInv'
    <3> SUFFICES ASSUME NEW h \in history'
                 PROVE  h.run \in 1..Run /\ h.table \in Tables /\ (h.status = "loaded" => h.version \in Nat)
      BY <1>1, <2>5 DEF RecordedInv
    <3>1. CASE h \in history
      BY <3>1 DEF RecordInv, RecordedInv
    <3>2. CASE h \in rows_for
      BY <2>5, <2>6, <3>2
    <3> QED
      BY <1>3, <3>1, <3>2
  <2>8. HistoryReadable'
    <3> SUFFICES ASSUME NEW h \in history', h.status = "loaded", FedOnce(h.table)
                 PROVE  /\ h.version + 1 \in DOMAIN log[h.table]
                        /\ Produced(h.run, h.table) \subseteq log[h.table][h.version + 1].files
                        /\ IF mode = "overwrite"
                             THEN log[h.table][h.version + 1].files \subseteq Produced(h.run, h.table)
                             ELSE \A f \in log[h.table][h.version + 1].files : f.run <= h.run
      BY <1>1, <2>5 DEF HistoryReadable
    <3>1. CASE h \in history
      BY <3>1 DEF RecordInv, HistoryReadable
    <3>2. CASE h \in rows_for
      <4>1. PICK i \in DOMAIN targets : targets[i].table = h.table /\ h.version = stats[i].version
        BY <2>6, <3>2
      <4>2. h.run = Run
        BY <2>6, <3>2
      <4>3. PICK t, v : t = h.table /\ v = h.version
        OBVIOUS
      <4>4. /\ v + 1 \in DOMAIN log[t]
            /\ Produced(Run, t) \subseteq log[t][v + 1].files
            /\ IF mode = "overwrite" THEN log[t][v + 1].files \subseteq Produced(Run, t)
                                     ELSE \A f \in log[t][v + 1].files : f.run <= Run
        BY <1>1, <4>1, <4>3, RecordsItsOwn
      <4> QED
        BY <4>2, <4>3, <4>4
    <3> QED
      BY <1>3, <3>1, <3>2
  <2>9. HistoryTells'
    <3> SUFFICES ASSUME NEW t \in Tables
                 PROVE  LET Rows(status) == {h \in history' : h.run = Run /\ h.table = t /\ h.status = status}
                            fed == {b \in DOMAIN Plan : Plan[b].table = t}
                            was == Fields(before[t][Len(before[t])].schema)
                            now == Fields(Latest(t).schema)
                        IN  /\ Rows("loaded") # {} <=> \E b \in fed : Plan[b].wanted
                            /\ Rows("missing") # {} <=> t \in Expectation /\ fed = {}
                            /\ Rows("missing") # {} => log[t] = before[t]
                            /\ \A h \in Rows("loaded") :
                                 /\ h.expected = (Expected = Null \/ t \in Expected)
                                 /\ mode = "overwrite" /\ FedOnce(t) /\ before[t] # <<>> =>
                                      h.drift.added \cup h.drift.removed \cup h.drift.retyped
                                        = {f.name : f \in (was \ now) \cup (now \ was)}
      <4>1. Plan' = Plan
        BY <1>1 DEF Plan, Run
      <4>2. \A x \in Tables : Latest(x)' = Latest(x)
        BY <1>1 DEF Latest
      <4> QED
        BY <1>1, <2>5, <4>1, <4>2 DEF HistoryTells, Fields
    <3> DEFINE Rows(status) == {h \in history' : h.run = Run /\ h.table = t /\ h.status = status}
    <3>1. ASSUME NEW st PROVE Rows(st) = {h \in rows_for : h.table = t /\ h.status = st}
      <4>1. \A h \in history : h.run # Run
        BY <1>1, <2>5 DEF RecordInv, RecordedInv
      <4>2. \A h \in rows_for : h.run = Run
        BY <2>6
      <4> QED
        BY <1>3, <4>1, <4>2
    <3>2. Rows("loaded") # {} <=> \E b \in {x \in DOMAIN Plan : Plan[x].table = t} : Plan[b].wanted
      <4> HIDE DEF Rows
      <4>1. (\E h \in rows_for : h.table = t /\ h.status = "loaded") <=>
              (\E b \in DOMAIN Plan : Plan[b].table = t /\ Plan[b].wanted)
        BY <1>1, ReportTells
      <4>2. Rows("loaded") = {h \in rows_for : h.table = t /\ h.status = "loaded"}
        BY <3>1
      <4> QED
        BY <4>1, <4>2
    <3>3. Rows("missing") = {h \in rows_for : h.table = t /\ h.status = "missing"}
      BY <3>1
    <3>4. Rows("missing") # {} <=> t \in Expectation /\ {x \in DOMAIN Plan : Plan[x].table = t} = {}
      <4> HIDE DEF Rows
      <4>1. (\E h \in rows_for : h.table = t /\ h.status = "missing") <=>
              (t \in Expectation /\ ~\E b \in DOMAIN Plan : Plan[b].table = t)
        BY <1>1, ReportTells
      <4> QED
        BY <3>3, <4>1
    <3>5. Rows("missing") # {} => log[t] = before[t]
      <4> HIDE DEF Rows
      <4>1. (~\E b \in DOMAIN Plan : Plan[b].table = t) => log[t] = before[t]
        BY <1>1, ReportTells
      <4> QED
        BY <3>4, <4>1
    <3>6. ASSUME NEW h \in Rows("loaded")
          PROVE  /\ h.expected = (Expected = Null \/ t \in Expected)
                 /\ mode = "overwrite" /\ FedOnce(t) /\ before[t] # <<>> =>
                      h.drift.added \cup h.drift.removed \cup h.drift.retyped
                        = {f.name : f \in (Fields(before[t][Len(before[t])].schema) \ Fields(Latest(t).schema))
                                             \cup (Fields(Latest(t).schema) \ Fields(before[t][Len(before[t])].schema))}
      <4> HIDE DEF Rows
      <4>1. h \in rows_for /\ h.table = t /\ h.status = "loaded"
        BY <3>1, <3>6
      <4> QED
        BY <1>1, <4>1, ReportTells
    <3> QED
      BY <3>2, <3>4, <3>5, <3>6
  <2> QED
    BY <2>1, <2>2, <2>3, <2>4, <2>7, <2>8, <2>9 DEF RecordInv
<1> QED
  BY <1>2, <1>3 DEF Record

-----------------------------------------------------------------------------
LEMMA NextRecordInv == LoadInv /\ LoadInv' /\ RecordInv /\ [Next]_vars => RecordInv'
<1> SUFFICES ASSUME LoadInv, LoadInv', RecordInv, [Next]_vars PROVE RecordInv'
  OBVIOUS
<1>1. CASE UNCHANGED vars
  <2>1. /\ UNCHANGED <<mode, log, plans, phase, blk, targets, stats, history, before, result>>
        /\ TypeInv /\ PlansGrow /\ LogsGrow /\ Run' = Run /\ Plan' = Plan
    BY <1>1 DEF vars, LoadInv, PlansGrow, LogsGrow, Run, Plan
  <2>2. \A t : (FedOnce(t)' <=> FedOnce(t))
    BY <2>1 DEF FedOnce
  <2>3. OpenedInv'
    BY <2>1, <2>2 DEF RecordInv, OpenedInv
  <2>4. SolesInv'
    BY <2>1, SolesStand DEF RecordInv
  <2>5. StatsInv' /\ RecordedInv'
    BY <2>1, <2>2 DEF RecordInv, StatsInv, RecordedInv
  <2>6. HistoryReadable'
    BY <2>1, RecordedStands DEF RecordInv
  <2>7. VersionsAreWhole'
    BY <2>1, WholeStands DEF RecordInv
  <2>8. HistoryTells'
    <3>1. \A t \in Tables : Latest(t)' = Latest(t)
      BY <2>1 DEF Latest
    <3> QED
      BY <2>1, <2>2, <3>1 DEF RecordInv, HistoryTells, Fields
  <2> QED
    BY <2>3, <2>4, <2>5, <2>6, <2>7, <2>8 DEF RecordInv
<1>2. ASSUME NEW p \in Plans, Start(p) PROVE RecordInv'
  BY <1>2, StartRecordInv
<1>3. CASE OpenBlock
  BY <1>3, OpenBlockRecordInv
<1>4. CASE SkipBlock
  BY <1>4, SkipRecordInv
<1>5. CASE StageBlock
  BY <1>5, StageRecordInv
<1>6. CASE PassFails
  BY <1>6, StopRecordInv DEF PassFails
<1>7. CASE EndPass
  BY <1>7, EndPassRecordInv
<1>8. ASSUME NEW i \in DOMAIN targets, CommitTable(i) PROVE RecordInv'
  BY <1>8, CommitTableRecordInv
<1>9. CASE CommitsOver
  BY <1>9, CommitsOverRecordInv
<1>10. CASE Record
  BY <1>10, RecordRecordInv
<1>11. CASE Crash
  BY <1>11, StopRecordInv DEF Crash
<1> QED
  BY <1>1, <1>2, <1>3, <1>4, <1>5, <1>6, <1>7, <1>8, <1>9, <1>10, <1>11 DEF Next

(* In every reachable state the loads, the logs, the stats and the history *)
(* fit each other, for any tables, dumps, modes, loads and faults.         *)
THEOREM RecordInvariance == Spec => []IInv
<1>1. Init => RecordInv
  BY InitRecordInv
<1>2. LoadInv /\ LoadInv' /\ RecordInv /\ [Next]_vars => RecordInv'
  BY NextRecordInv
<1>3. LoadInv /\ RecordInv => IInv
  BY DEF IInv
<1> QED
  BY <1>1, <1>2, <1>3, Invariance, PTL DEF Spec

(* commit_table: "no reader observes an empty or half-replaced table".     *)
(* Under overwrite and error a table that one block feeds holds, in every  *)
(* version after the one that created it, what one load produced for it.   *)
THEOREM WholeVersions == Spec => []VersionsAreWhole
<1>1. IInv => VersionsAreWhole
  BY DEF IInv, RecordInv
<1> QED
  BY <1>1, RecordInvariance, PTL

(* manifest.rs: "Every table read at its recorded version is by            *)
(* construction the set one run produced", whatever loads come after.      *)
THEOREM HistoryIsReadable == Spec => []HistoryReadable
<1>1. IInv => HistoryReadable
  BY DEF IInv, RecordInv
<1> QED
  BY <1>1, RecordInvariance, PTL

(* The rows_for of a load that succeeds account for every expected and     *)
(* every loaded table, and say which declared fields it has changed.       *)
THEOREM HistoryIsTold == Spec => []HistoryTells
<1>1. IInv => HistoryTells
  BY DEF IInv, RecordInv
<1> QED
  BY <1>1, RecordInvariance, PTL

(* The commit of a table that one block feeds never conflicts, so a commit *)
(* burst fails only where storage did.                                     *)
THEOREM NoConflict == Spec => []NoSelfConflict
<1>1. IInv => NoSelfConflict
  BY DEF IInv, RecordInv, SolesInv, SoleTarget, NoSelfConflict
<1> QED
  BY <1>1, RecordInvariance, PTL
=============================================================================
