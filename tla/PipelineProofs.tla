--------------------------- MODULE PipelineProofs ---------------------------
(***************************************************************************)
(* Proofs about Pipeline, for any number of workers, any queue depth, any  *)
(* set of tables and any dumps whose events are bracketed.                 *)
(***************************************************************************)
EXTENDS Pipeline, FiniteSetTheorems, SequenceTheorems, TLAPS

-----------------------------------------------------------------------------
(* The jobs and messages the actions build, and what one of them holds.    *)
LEMMA JobFacts ==
    /\ \A g \in Nat : [type |-> "Open", gen |-> g] \in Jobs /\ [type |-> "Close", gen |-> g] \in Jobs
    /\ \A g, i \in Nat, b \in BOOLEAN : [type |-> "Rows", gen |-> g, id |-> i, bad |-> b] \in Jobs
    /\ \A j \in Jobs : /\ j.type \in {"Open", "Rows", "Close"} /\ j.gen \in Nat
                       /\ j.type = "Rows" => j.id \in Nat /\ j.bad \in BOOLEAN
  BY DEF Jobs

LEMMA MessageFacts ==
    /\ \A c \in Causes : [type |-> "Failed", cause |-> c] \in Messages
    /\ \A g \in Nat, F \in SUBSET Files : [type |-> "Closed", gen |-> g, files |-> F] \in Messages
    /\ \A m \in Messages : /\ m.type \in {"Failed", "Closed"}
                           /\ m.type = "Failed" => m.cause \in Causes
                           /\ m.type = "Closed" => m.gen \in Nat /\ m.files \in SUBSET Files
  BY DEF Messages

LEMMA FileFacts ==
    /\ \A g \in Nat, w \in Workers, s \in Seq(Nat) : [gen |-> g, worker |-> w, rows |-> s] \in Files
    /\ \A f \in Files : f.gen \in Nat /\ f.worker \in Workers /\ f.rows \in Seq(Nat)
  BY DEF Files

(* A dump is a sequence of events, and its rows carry the flag of the row. *)
LEMMA DumpFacts ==
    ASSUME NEW d \in Dumps
    PROVE  /\ d \in Seq(DumpEvents) /\ Len(d) \in Nat
           /\ \A i \in 1..Len(d) :
                /\ d[i].type \in {"table", "start", "end"} => d[i].table \in Tables
                /\ d[i].type = "rows" => d[i].bad \in BOOLEAN
                /\ d[i].type \in {"rows", "end"} => Inside(d, i)
                /\ d[i].type = "start" => ~Inside(d, i)
  <1>1. d \in Seq(DumpEvents) /\ Len(d) \in Nat
    BY DumpsAssumption
  <1>2. \A i \in 1..Len(d) : d[i] \in DumpEvents
    BY <1>1
  <1> QED
    BY <1>1, <1>2, DumpsAssumption DEF DumpEvents

(* An event that starts no block and ends none leaves the reader on the    *)
(* same side of the brackets.                                              *)
LEMMA InsideStep ==
    ASSUME NEW d \in Dumps, NEW i \in 1..Len(d)
    PROVE  /\ d[i].type = "start" => Inside(d, i + 1)
           /\ d[i].type = "end" => ~Inside(d, i + 1)
           /\ d[i].type \notin {"start", "end"} => (Inside(d, i + 1) <=> Inside(d, i))
  <1> Len(d) \in Nat
    BY DumpFacts
  <1> QED
    BY DEF Inside, BlockStart

-----------------------------------------------------------------------------
(***************************************************************************)
(* Types.                                                                  *)
(***************************************************************************)
LEMMA InitTyped == Init => TypeOK
  <1> SUFFICES ASSUME Init PROVE TypeOK
    OBVIOUS
  <1>1. dump \in Dumps /\ Len(dump) \in Nat
    BY DumpFacts DEF Init
  <1>2. 1 \in Workers /\ acked \in 0..(Threads - 1) /\ rr \in 0..(Threads - 1)
    BY PoolAssumption DEF Init, Workers
  <1>3. /\ block \in SUBSET Files /\ staged \in [Tables -> SUBSET Files]
        /\ preload \in [Tables -> {"none", "running", "loaded", "failed"}]
    BY DEF Init
  <1>4. opened \in Seq(Tables) /\ commits \in Seq({"todo", "running", "ok", "err"})
    BY DEF Init
  <1>5. ReaderTypes
    <2>1. /\ rpc = "start" /\ pos = 1 /\ version = FALSE /\ skipping = FALSE /\ jobOpen = TRUE /\ defs = {}
          /\ current = NoTable /\ generation = 0 /\ widx = 1
      BY DEF Init
    <2> QED
      BY <1>1, <1>2, <1>3, <1>4, <2>1 DEF ReaderTypes
  <1>6. jobs = [w \in Workers |-> <<>>]
    BY DEF Init
  <1>7. /\ jobs \in [Workers -> Seq(Jobs)]
        /\ \A w \in Workers : Len(jobs[w]) <= QueueDepth
    BY <1>6, PoolAssumption
  <1>8. blocks = [w \in Workers |-> <<>>] /\ ctxs = [w \in Workers |-> {}]
    BY DEF Init
  <1>9. /\ ctxs \in [Workers -> SUBSET Nat] /\ DOMAIN blocks = Workers
        /\ \A w \in Workers : \E D \in SUBSET ctxs[w] : blocks[w] \in [D -> Seq(Nat)]
    <2>1. \A w \in Workers : ctxs[w] = {} /\ blocks[w] \in [{} -> Seq(Nat)]
      BY <1>8
    <2> QED
      BY <1>8, <2>1
  <1>10. events \in Seq(Messages)
    BY DEF Init
  <1>11. hand = [w \in Workers |-> Nothing] /\ wpc = [w \in Workers |-> "recv"]
    BY DEF Init
  <1>12. PoolTypes
    BY <1>7, <1>9, <1>10, <1>11 DEF PoolTypes
  <1> QED
    BY <1>5, <1>12 DEF TypeOK

poolVars == <<jobs, events, wpc, hand, ctxs, blocks>>

LEMMA PoolTypesStand == PoolTypes /\ UNCHANGED poolVars => PoolTypes'
  BY DEF PoolTypes, poolVars

(* The steps of the reader that touch no channel, and those of the tasks.  *)
ReaderAlone == \/ OpenInput \/ EndOfChunk \/ DumpVersion \/ Table \/ CopyStart \/ CopyEnd
               \/ EndOfDump \/ CommitsOver \/ Shutdown \/ Join

LEMMA ReaderAloneStands == ReaderAlone => UNCHANGED poolVars
  BY DEF ReaderAlone, poolVars, workerVars, OpenInput, EndOfChunk, DumpVersion, Table, CopyStart,
         CopyEnd, EndOfDump, CommitsOver, Shutdown, Join

LEMMA TasksStand ==
    ASSUME \/ \E t \in Tables : PreloadDone(t)
           \/ \E i \in DOMAIN commits : Commit(i)
    PROVE  UNCHANGED poolVars /\ UNCHANGED readerVars
  BY DEF poolVars, workerVars, PreloadDone, Commit, CommitStart, CommitDone

LEMMA ReaderAloneTyped ==
    ASSUME TypeOK, ReaderAlone
    PROVE  ReaderTypes'
  <1>0. ReaderTypes /\ Len(dump) \in Nat
    BY DumpFacts DEF TypeOK, ReaderTypes
  <1>d. \A i \in 1..Len(dump) : dump[i].type \in {"table", "start", "end"} => dump[i].table \in Tables
    BY <1>0, DumpFacts DEF ReaderTypes
  <1>1. CASE OpenInput
    BY <1>0, <1>1 DEF ReaderTypes, OpenInput, Return
  <1>2. CASE EndOfChunk
    BY <1>0, <1>2 DEF ReaderTypes, EndOfChunk, Return, At
  <1>3. CASE DumpVersion
    BY <1>0, <1>3 DEF ReaderTypes, DumpVersion, Return, At
  <1>4. CASE Table
    <2>1. defs' \in SUBSET Tables /\ pos' \in 1..(Len(dump) + 1)
      BY <1>0, <1>d, <1>4 DEF ReaderTypes, Table, At
    <2>2. preload' \in [Tables -> {"none", "running", "loaded", "failed"}]
      BY <1>0, <1>4 DEF ReaderTypes, Table
    <2> QED
      BY <1>0, <1>4, <2>1, <2>2 DEF ReaderTypes, Table
  <1>5. CASE CopyStart
    <2>1. dump[pos].table \in Tables /\ pos \in 1..Len(dump)
      BY <1>0, <1>d, <1>5 DEF ReaderTypes, CopyStart, At
    <2>2. opened' \in Seq(Tables)
      <3>1. opened' = opened \/ opened' = Append(opened, dump[pos].table)
        BY <1>5 DEF CopyStart
      <3>2. opened \in Seq(Tables)
        BY <1>0 DEF ReaderTypes
      <3> QED
        BY <2>1, <3>1, <3>2
    <2>3. preload' \in [Tables -> {"none", "running", "loaded", "failed"}]
      <3>1. preload' = preload \/ preload' = [preload EXCEPT ![dump[pos].table] = "none"]
        BY <1>5 DEF CopyStart
      <3> QED
        BY <1>0, <3>1 DEF ReaderTypes
    <2>4. pos' \in 1..(Len(dump) + 1)
      BY <1>0, <1>5, <2>1 DEF ReaderTypes, CopyStart
    <2>5. generation' \in Nat /\ widx' \in Workers
      BY <1>0, <1>5, PoolAssumption DEF ReaderTypes, CopyStart, Workers
    <2>6. rpc' \in {"scan", "open", "shutdown"}
      BY <1>0, <1>5 DEF ReaderTypes, CopyStart, At, Return
    <2> QED
      BY <1>0, <1>5, <2>2, <2>3, <2>4, <2>5, <2>6 DEF ReaderTypes, CopyStart
  <1>6. CASE CopyEnd
    BY <1>0, <1>d, <1>6, PoolAssumption DEF ReaderTypes, CopyEnd, At, Return, Workers
  <1>7. CASE EndOfDump
    BY <1>0, <1>7 DEF ReaderTypes, EndOfDump, Return
  <1>8. CASE CommitsOver
    BY <1>0, <1>8 DEF ReaderTypes, CommitsOver, Return
  <1>9. CASE Shutdown \/ Join
    BY <1>0, <1>9 DEF ReaderTypes, Shutdown, Join
  <1> QED
    BY <1>1, <1>2, <1>3, <1>4, <1>5, <1>6, <1>7, <1>8, <1>9 DEF ReaderAlone

LEMMA TasksTyped ==
    ASSUME TypeOK,
           \/ \E t \in Tables : PreloadDone(t)
           \/ \E i \in DOMAIN commits : Commit(i)
    PROVE  ReaderTypes'
  <1>1. CASE \E t \in Tables : PreloadDone(t)
    BY <1>1 DEF TypeOK, ReaderTypes, PreloadDone, readerVars
  <1>2. CASE \E i \in DOMAIN commits : Commit(i)
    <2>1. commits' \in Seq({"todo", "running", "ok", "err"})
      <3>1. PICK i \in DOMAIN commits : Commit(i)
        BY <1>2
      <3>2. \E r \in {"running", "ok", "err"} : commits' = [commits EXCEPT ![i] = r]
        BY <3>1 DEF Commit, CommitStart, CommitDone
      <3>3. commits \in Seq({"todo", "running", "ok", "err"})
        BY DEF TypeOK, ReaderTypes
      <3> QED
        BY <3>2, <3>3
    <2> QED
      BY <1>2, <2>1 DEF TypeOK, ReaderTypes, Commit, CommitStart, CommitDone, readerVars
  <1> QED
    BY <1>1, <1>2

(* A job sent to a worker. *)
LEMMA SendTyped ==
    ASSUME PoolTypes, NEW w \in Workers, Accepts(w), NEW job \in Jobs,
           jobs' = [jobs EXCEPT ![w] = Append(@, job)],
           UNCHANGED <<events, workerVars>>
    PROVE  PoolTypes'
  <1>1. jobs \in [Workers -> Seq(Jobs)] /\ \A v \in Workers : Len(jobs[v]) <= QueueDepth
    BY DEF PoolTypes
  <1>2. Len(jobs[w]) < QueueDepth
    BY DEF Accepts
  <1>3. jobs' \in [Workers -> Seq(Jobs)]
    BY <1>1
  <1>4. \A v \in Workers : Len(jobs'[v]) <= QueueDepth
    <2> TAKE v \in Workers
    <2>1. CASE v = w
      BY <1>1, <1>2, <2>1, PoolAssumption
    <2>2. CASE v # w
      BY <1>1, <2>2
    <2> QED
      BY <2>1, <2>2
  <1> QED
    BY <1>3, <1>4 DEF PoolTypes, workerVars

(* An event taken from the channel, or the end of the channel. *)
LEMMA TakeTyped ==
    ASSUME PoolTypes, events' = EventsLeft, UNCHANGED <<jobs, workerVars>>
    PROVE  PoolTypes'
  <1>1. events \in Seq(Messages)
    BY DEF PoolTypes
  <1>2. events' \in Seq(Messages)
    BY <1>1 DEF EventsLeft
  <1> QED
    BY <1>2 DEF PoolTypes, workerVars

LEMMA EventFacts ==
    ASSUME PoolTypes
    PROVE  EventTaken.type = "Closed" => /\ events # <<>> /\ EventTaken = events[1]
                                         /\ EventTaken.files \in SUBSET Files
  <1>1. events \in Seq(Messages)
    BY DEF PoolTypes
  <1>2. events = <<>> => EventTaken.type = "None"
    BY DEF EventTaken
  <1>3. events # <<>> => EventTaken = events[1] /\ events[1] \in Messages
    BY <1>1 DEF EventTaken
  <1> QED
    BY <1>2, <1>3, MessageFacts

LEMMA BroadcastOpenTyped ==
    ASSUME TypeOK, ReaderInv, BroadcastOpen
    PROVE  TypeOK'
  <1>0. ReaderTypes /\ PoolTypes /\ Len(dump) \in Nat /\ rpc = "open"
    BY DumpFacts DEF TypeOK, ReaderTypes, BroadcastOpen, Broadcast
  <1>1. /\ pos \in 1..Len(dump) /\ dump[pos].table \in Tables
        /\ widx \in Workers /\ generation \in Nat
    BY <1>0, DumpFacts DEF ReaderTypes, ReaderInv
  <1>2. /\ widx' \in Workers /\ rr' \in 0..(Threads - 1)
        /\ rpc' \in {"open", "scan", "cause"}
        /\ pos' \in 1..(Len(dump) + 1)
        /\ current' \in Tables \cup {NoTable}
    BY <1>0, <1>1, PoolAssumption DEF ReaderTypes, BroadcastOpen, Broadcast, Workers
  <1>3. ReaderTypes'
    BY <1>0, <1>2 DEF ReaderTypes, BroadcastOpen
  <1>4. PoolTypes'
    <2>1. \/ /\ Accepts(widx)
             /\ jobs' = [jobs EXCEPT ![widx] = Append(@, [type |-> "Open", gen |-> generation])]
          \/ UNCHANGED jobs
      BY DEF BroadcastOpen, Broadcast
    <2>2. UNCHANGED <<events, workerVars>>
      BY DEF BroadcastOpen
    <2>3. [type |-> "Open", gen |-> generation] \in Jobs
      BY <1>1, JobFacts
    <2>4. CASE UNCHANGED jobs
      BY <1>0, <2>2, <2>4, PoolTypesStand DEF poolVars, workerVars
    <2> QED
      BY <1>0, <1>1, <2>1, <2>2, <2>3, <2>4, SendTyped
  <1> QED
    BY <1>3, <1>4 DEF TypeOK

LEMMA BroadcastCloseTyped ==
    ASSUME TypeOK, BroadcastClose
    PROVE  TypeOK'
  <1>0. ReaderTypes /\ PoolTypes /\ rpc = "close" /\ widx \in Workers /\ generation \in Nat
    BY DEF TypeOK, ReaderTypes, BroadcastClose, Broadcast
  <1>1. widx' \in Workers /\ rpc' \in {"close", "acks", "cause"}
    BY <1>0, PoolAssumption DEF BroadcastClose, Broadcast, Workers
  <1>3. ReaderTypes'
    BY <1>0, <1>1 DEF ReaderTypes, BroadcastClose
  <1>4. PoolTypes'
    <2>1. \/ /\ Accepts(widx)
             /\ jobs' = [jobs EXCEPT ![widx] = Append(@, [type |-> "Close", gen |-> generation])]
          \/ UNCHANGED jobs
      BY DEF BroadcastClose, Broadcast
    <2>2. UNCHANGED <<events, workerVars>>
      BY DEF BroadcastClose
    <2>3. [type |-> "Close", gen |-> generation] \in Jobs
      BY <1>0, JobFacts
    <2>4. CASE UNCHANGED jobs
      BY <1>0, <2>2, <2>4, PoolTypesStand DEF poolVars, workerVars
    <2> QED
      BY <1>0, <2>1, <2>2, <2>3, <2>4, SendTyped
  <1> QED
    BY <1>3, <1>4 DEF TypeOK

LEMMA CopyRowsTyped ==
    ASSUME TypeOK, CopyRows
    PROVE  TypeOK'
  <1>0. /\ ReaderTypes /\ PoolTypes /\ Len(dump) \in Nat /\ generation \in Nat
        /\ rr \in 0..(Threads - 1) /\ rr + 1 \in Workers
    BY DumpFacts, PoolAssumption DEF TypeOK, ReaderTypes, Workers
  <1>1. pos \in 1..Len(dump) /\ dump[pos].bad \in BOOLEAN
    BY <1>0, DumpFacts DEF ReaderTypes, CopyRows, At
  <1>2. rr' \in 0..(Threads - 1)
    <2>1. rr' = rr \/ rr' = (rr + 1) % Threads
      BY DEF CopyRows
    <2> QED
      BY <1>0, <2>1, PoolAssumption
  <1>3. /\ rpc' \in {"scan", "cause"}
        /\ pos' \in 1..(Len(dump) + 1)
    BY <1>0, <1>1 DEF CopyRows, At
  <1>4. ReaderTypes'
    BY <1>0, <1>2, <1>3 DEF ReaderTypes, CopyRows
  <1>5. PoolTypes'
    <2> DEFINE job == [type |-> "Rows", gen |-> generation, id |-> pos, bad |-> dump[pos].bad]
    <2>1. \/ /\ Accepts(rr + 1)
             /\ jobs' = [jobs EXCEPT ![rr + 1] = Append(@, job)]
          \/ UNCHANGED jobs
      BY DEF CopyRows
    <2>2. UNCHANGED <<events, workerVars>>
      BY DEF CopyRows
    <2>3. job \in Jobs
      BY <1>0, <1>1, JobFacts
    <2>4. CASE UNCHANGED jobs
      BY <1>0, <2>2, <2>4, PoolTypesStand DEF poolVars, workerVars
    <2> HIDE DEF job
    <2> QED
      BY <1>0, <2>1, <2>2, <2>3, <2>4, SendTyped
  <1> QED
    BY <1>4, <1>5 DEF TypeOK

LEMMA AwaitAckTyped ==
    ASSUME TypeOK, ReaderInv, AwaitAck
    PROVE  TypeOK'
  <1>0. ReaderTypes /\ PoolTypes /\ Len(dump) \in Nat /\ rpc = "acks"
    BY DumpFacts DEF TypeOK, ReaderTypes, AwaitAck
  <1>1. pos \in 1..Len(dump) /\ dump[pos].table \in Tables
    BY <1>0, DumpFacts DEF ReaderTypes, ReaderInv
  <1>2. EventTaken.type = "Closed" => EventTaken.files \in SUBSET Files
    BY <1>0, EventFacts
  <1>3. block' \in SUBSET Files
    <2>1. \/ block' = block \/ block' = {}
          \/ EventTaken.type = "Closed" /\ block' = block \cup EventTaken.files
      BY DEF AwaitAck
    <2> QED
      BY <1>0, <1>2, <2>1 DEF ReaderTypes
  <1>4. staged' \in [Tables -> SUBSET Files]
    <2>1. \/ staged' = staged
          \/ /\ EventTaken.type = "Closed"
             /\ staged' = [staged EXCEPT ![dump[pos].table] = @ \cup block \cup EventTaken.files]
      BY DEF AwaitAck
    <2>2. staged \in [Tables -> SUBSET Files] /\ block \in SUBSET Files
      BY <1>0 DEF ReaderTypes
    <2> QED
      BY <1>1, <1>2, <2>1, <2>2
  <1>5. /\ acked' \in 0..(Threads - 1) /\ pos' \in 1..(Len(dump) + 1)
        /\ rpc' \in {"acks", "scan", "shutdown"}
    BY <1>0, <1>1, PoolAssumption DEF ReaderTypes, AwaitAck, Return
  <1>6. ReaderTypes'
    BY <1>0, <1>3, <1>4, <1>5 DEF ReaderTypes, AwaitAck
  <1>7. PoolTypes'
    BY <1>0, TakeTyped DEF AwaitAck
  <1> QED
    BY <1>6, <1>7 DEF TypeOK

LEMMA TakeCauseTyped ==
    ASSUME TypeOK, TakeCause
    PROVE  TypeOK'
  <1>1. ReaderTypes'
    BY DEF TypeOK, ReaderTypes, TakeCause, Return
  <1>2. PoolTypes'
    BY TakeTyped DEF TypeOK, TakeCause
  <1> QED
    BY <1>1, <1>2 DEF TypeOK

(* What a worker holds for its blocks, in a form that its steps can use.   *)
LEMMA BlocksTyped ==
    ASSUME PoolTypes, NEW w \in Workers
    PROVE  /\ DOMAIN blocks[w] \subseteq ctxs[w]
           /\ blocks[w] \in [DOMAIN blocks[w] -> Seq(Nat)]
           /\ \A g \in DOMAIN blocks[w] : blocks[w][g] \in Seq(Nat)
           /\ \A g : PayloadsOf(w, g) \in Seq(Nat)
  <1>1. PICK D \in SUBSET ctxs[w] : blocks[w] \in [D -> Seq(Nat)]
    BY DEF PoolTypes
  <1>2. D = DOMAIN blocks[w]
    BY <1>1
  <1>3. \A g \in DOMAIN blocks[w] : blocks[w][g] \in Seq(Nat)
    BY <1>1
  <1>4. <<>> \in Seq(Nat)
    OBVIOUS
  <1> QED
    BY <1>1, <1>2, <1>3, <1>4 DEF PayloadsOf

(* A change of one worker's contexts and blocks. *)
LEMMA BlocksChange ==
    ASSUME PoolTypes, NEW w \in Workers, NEW c \in SUBSET Nat, NEW D \in SUBSET c,
           NEW b \in [D -> Seq(Nat)],
           ctxs' = [ctxs EXCEPT ![w] = c], blocks' = [blocks EXCEPT ![w] = b]
    PROVE  /\ ctxs' \in [Workers -> SUBSET Nat]
           /\ DOMAIN blocks' = Workers
           /\ \A v \in Workers : \E E \in SUBSET ctxs'[v] : blocks'[v] \in [E -> Seq(Nat)]
  <1>1. ctxs \in [Workers -> SUBSET Nat] /\ DOMAIN blocks = Workers
    BY DEF PoolTypes
  <1>2. ctxs' \in [Workers -> SUBSET Nat] /\ DOMAIN blocks' = Workers
    BY <1>1
  <1>3. \A v \in Workers \ {w} : ctxs'[v] = ctxs[v] /\ blocks'[v] = blocks[v]
    BY <1>1
  <1>4. ctxs'[w] = c /\ blocks'[w] = b
    BY <1>1
  <1>5. \A v \in Workers : \E E \in SUBSET ctxs[v] : blocks[v] \in [E -> Seq(Nat)]
    BY DEF PoolTypes
  <1>6. \A v \in Workers : \E E \in SUBSET ctxs'[v] : blocks'[v] \in [E -> Seq(Nat)]
    <2> TAKE v \in Workers
    <2>1. CASE v = w
      BY <1>4, <2>1
    <2>2. CASE v # w
      BY <1>3, <1>5, <2>2
    <2> QED
      BY <2>1, <2>2
  <1> QED
    BY <1>2, <1>6

(* A change of where one worker is and of what it holds in its hand. *)
LEMMA HandChange ==
    ASSUME PoolTypes, NEW w \in Workers,
           NEW p \in {"recv", "work", "send", "report", "leaving", "exit"},
           NEW h \in Jobs \cup Messages \cup {Nothing},
           p = "work" => h \in Jobs, p \in {"send", "report"} => h \in Messages,
           wpc' = [wpc EXCEPT ![w] = p], hand' = [hand EXCEPT ![w] = h]
    PROVE  /\ wpc' \in [Workers -> {"recv", "work", "send", "report", "leaving", "exit"}]
           /\ hand' \in [Workers -> Jobs \cup Messages \cup {Nothing}]
           /\ \A v \in Workers : /\ wpc'[v] = "work" => hand'[v] \in Jobs
                                 /\ wpc'[v] \in {"send", "report"} => hand'[v] \in Messages
  <1>1. /\ wpc \in [Workers -> {"recv", "work", "send", "report", "leaving", "exit"}]
        /\ hand \in [Workers -> Jobs \cup Messages \cup {Nothing}]
        /\ \A v \in Workers : /\ wpc[v] = "work" => hand[v] \in Jobs
                              /\ wpc[v] \in {"send", "report"} => hand[v] \in Messages
    BY DEF PoolTypes
  <1>2. /\ wpc' \in [Workers -> {"recv", "work", "send", "report", "leaving", "exit"}]
        /\ hand' \in [Workers -> Jobs \cup Messages \cup {Nothing}]
    BY <1>1
  <1>3. wpc'[w] = p /\ hand'[w] = h
    BY <1>1
  <1>4. \A v \in Workers \ {w} : wpc'[v] = wpc[v] /\ hand'[v] = hand[v]
    BY <1>1
  <1> QED
    BY <1>1, <1>2, <1>3, <1>4

LEMMA WorkerFailsTyped ==
    ASSUME PoolTypes, NEW w \in Workers, NEW c \in Causes, WorkerFails(w, c),
           UNCHANGED <<jobs, events>>
    PROVE  PoolTypes'
  <1>1. [type |-> "Failed", cause |-> c] \in Messages
    BY MessageFacts
  <1>2. <<>> \in [{} -> Seq(Nat)]
    OBVIOUS
  <1>3. /\ ctxs' \in [Workers -> SUBSET Nat]
        /\ DOMAIN blocks' = Workers
        /\ \A v \in Workers : \E E \in SUBSET ctxs'[v] : blocks'[v] \in [E -> Seq(Nat)]
    BY <1>2, BlocksChange DEF WorkerFails
  <1>4. /\ wpc' \in [Workers -> {"recv", "work", "send", "report", "leaving", "exit"}]
        /\ hand' \in [Workers -> Jobs \cup Messages \cup {Nothing}]
        /\ \A v \in Workers : /\ wpc'[v] = "work" => hand'[v] \in Jobs
                              /\ wpc'[v] \in {"send", "report"} => hand'[v] \in Messages
    <2> DEFINE h == [type |-> "Failed", cause |-> c]
    <2>1. h \in Messages /\ hand' = [hand EXCEPT ![w] = h] /\ wpc' = [wpc EXCEPT ![w] = "report"]
      BY <1>1 DEF WorkerFails
    <2> HIDE DEF h
    <2> QED
      BY <2>1, HandChange
  <1> QED
    BY <1>3, <1>4 DEF PoolTypes

LEMMA WorkerTyped ==
    ASSUME TypeOK, NEW w \in Workers, Worker(w)
    PROVE  TypeOK'
  <1>0. ReaderTypes /\ PoolTypes
    BY DEF TypeOK
  <1>1. ReaderTypes'
    BY <1>0 DEF ReaderTypes, readerVars, Worker, WorkerRecv, WorkerOpen, WorkerRows, WorkerClose, WorkerSend, WorkerExit
  <1>2. jobs \in [Workers -> Seq(Jobs)] /\ \A v \in Workers : Len(jobs[v]) <= QueueDepth
    BY <1>0 DEF PoolTypes
  <1>3. wpc[w] = "work" => hand[w] \in Jobs /\ hand[w].gen \in Nat
    BY <1>0, JobFacts DEF PoolTypes
  <1>4. ctxs \in [Workers -> SUBSET Nat] /\ DOMAIN blocks = Workers
    BY <1>0 DEF PoolTypes
  <1>5. CASE WorkerRecv(w)
    <2>1. CASE jobs[w] # <<>>
      <3>1. jobs[w] \in Seq(Jobs) /\ Head(jobs[w]) \in Jobs /\ Tail(jobs[w]) \in Seq(Jobs)
        BY <1>2, <2>1
      <3>2. jobs' = [jobs EXCEPT ![w] = Tail(jobs[w])]
        BY <1>5, <2>1 DEF WorkerRecv
      <3>3. jobs' \in [Workers -> Seq(Jobs)]
        BY <1>2, <3>1, <3>2
      <3>4. Len(Tail(jobs[w])) <= QueueDepth
        BY <1>2, <2>1, PoolAssumption
      <3>5. \A v \in Workers : Len(jobs'[v]) <= QueueDepth
        BY <1>2, <3>2, <3>4
      <3>6. hand' = [hand EXCEPT ![w] = Head(jobs[w])] /\ wpc' = [wpc EXCEPT ![w] = "work"]
        BY <1>5, <2>1 DEF WorkerRecv
      <3>7. /\ wpc' \in [Workers -> {"recv", "work", "send", "report", "leaving", "exit"}]
            /\ hand' \in [Workers -> Jobs \cup Messages \cup {Nothing}]
            /\ \A v \in Workers : /\ wpc'[v] = "work" => hand'[v] \in Jobs
                                  /\ wpc'[v] \in {"send", "report"} => hand'[v] \in Messages
        BY <1>0, <3>1, <3>6, HandChange
      <3> QED
        BY <1>0, <1>1, <1>5, <3>3, <3>5, <3>7 DEF PoolTypes, WorkerRecv, TypeOK
    <2>2. CASE jobs[w] = <<>>
      <3>1. wpc' = [wpc EXCEPT ![w] = "leaving"] /\ UNCHANGED <<hand, jobs, events, ctxs, blocks>>
        BY <1>5, <2>2 DEF WorkerRecv
      <3>2. PoolTypes'
        BY <1>0, <3>1 DEF PoolTypes
      <3> QED
        BY <1>1, <3>2 DEF TypeOK
    <2> QED
      BY <2>1, <2>2
  <1>6. CASE WorkerOpen(w)
    <2>1. wpc[w] = "work" /\ UNCHANGED <<jobs, events>>
      BY <1>6 DEF WorkerOpen
    <2> DEFINE c == ctxs[w] \cup {hand[w].gen}
    <2>2. c \in SUBSET Nat /\ DOMAIN blocks[w] \in SUBSET c /\ blocks[w] \in [DOMAIN blocks[w] -> Seq(Nat)]
      BY <1>0, <1>3, <1>4, <2>1, BlocksTyped
    <2>3. ctxs' = [ctxs EXCEPT ![w] = c] /\ blocks' = blocks
      BY <1>6 DEF WorkerOpen
    <2>4. hand' = [hand EXCEPT ![w] = Nothing] /\ wpc' = [wpc EXCEPT ![w] = "recv"]
      BY <1>6 DEF WorkerOpen
    <2> HIDE DEF c
    <2>5. /\ ctxs' \in [Workers -> SUBSET Nat]
          /\ DOMAIN blocks' = Workers
          /\ \A v \in Workers : \E E \in SUBSET ctxs'[v] : blocks'[v] \in [E -> Seq(Nat)]
      <3>1. ctxs'[w] = c /\ \A v \in Workers \ {w} : ctxs'[v] = ctxs[v]
        BY <1>4, <2>3
      <3>2. \A v \in Workers : \E E \in SUBSET ctxs[v] : blocks[v] \in [E -> Seq(Nat)]
        BY <1>0 DEF PoolTypes
      <3>3. \A v \in Workers \ {w} : \E E \in SUBSET ctxs'[v] : blocks'[v] \in [E -> Seq(Nat)]
        BY <2>3, <3>1, <3>2
      <3>4. \E E \in SUBSET ctxs'[w] : blocks'[w] \in [E -> Seq(Nat)]
        BY <2>2, <2>3, <3>1
      <3>5. ctxs' \in [Workers -> SUBSET Nat]
        BY <1>4, <2>2, <2>3
      <3> QED
        BY <1>4, <2>3, <3>3, <3>4, <3>5
    <2>6. /\ wpc' \in [Workers -> {"recv", "work", "send", "report", "leaving", "exit"}]
          /\ hand' \in [Workers -> Jobs \cup Messages \cup {Nothing}]
          /\ \A v \in Workers : /\ wpc'[v] = "work" => hand'[v] \in Jobs
                                /\ wpc'[v] \in {"send", "report"} => hand'[v] \in Messages
      BY <1>0, <2>4, HandChange
    <2> QED
      BY <1>0, <1>1, <2>1, <2>5, <2>6 DEF PoolTypes, TypeOK
  <1>7. CASE WorkerRows(w)
    <2> DEFINE g == hand[w].gen
               b == BlocksWith(w, g, hand[w].id)
    <2>1. /\ wpc[w] = "work" /\ UNCHANGED <<jobs, events>>
          /\ hand[w] \in Jobs /\ hand[w].id \in Nat /\ g \in Nat
      BY <1>3, <1>7, JobFacts DEF WorkerRows
    <2>2. CASE \E c \in Causes : WorkerFails(w, c)
      BY <1>0, <1>1, <2>1, <2>2, WorkerFailsTyped DEF TypeOK
    <2>3. CASE /\ g \in ctxs[w] /\ UNCHANGED ctxs
               /\ blocks' = [blocks EXCEPT ![w] = b]
               /\ hand' = [hand EXCEPT ![w] = Nothing]
               /\ wpc' = [wpc EXCEPT ![w] = "recv"]
      <3> DEFINE D == DOMAIN blocks[w] \cup {g}
      <3>1. D \in SUBSET ctxs[w] /\ ctxs[w] \in SUBSET Nat
        BY <1>0, <1>4, <2>3, BlocksTyped
      <3>2. b \in [D -> Seq(Nat)]
        <4>1. Append(PayloadsOf(w, g), hand[w].id) \in Seq(Nat)
          BY <1>0, <2>1, BlocksTyped
        <4>2. \A x \in DOMAIN blocks[w] : blocks[w][x] \in Seq(Nat)
          BY <1>0, BlocksTyped
        <4> QED
          BY <4>1, <4>2 DEF BlocksWith
      <3>3. ctxs' = [ctxs EXCEPT ![w] = ctxs[w]]
        BY <1>4, <2>3
      <3> HIDE DEF b, D, g
      <3>4. /\ ctxs' \in [Workers -> SUBSET Nat]
            /\ DOMAIN blocks' = Workers
            /\ \A v \in Workers : \E E \in SUBSET ctxs'[v] : blocks'[v] \in [E -> Seq(Nat)]
        BY <1>0, <2>3, <3>1, <3>2, <3>3, BlocksChange
      <3>5. /\ wpc' \in [Workers -> {"recv", "work", "send", "report", "leaving", "exit"}]
            /\ hand' \in [Workers -> Jobs \cup Messages \cup {Nothing}]
            /\ \A v \in Workers : /\ wpc'[v] = "work" => hand'[v] \in Jobs
                                  /\ wpc'[v] \in {"send", "report"} => hand'[v] \in Messages
        BY <1>0, <2>3, HandChange
      <3> QED
        BY <1>0, <1>1, <2>1, <3>4, <3>5 DEF PoolTypes, TypeOK
    <2> QED
      BY <1>7, <2>2, <2>3 DEF WorkerRows, Causes
  <1>8. CASE WorkerClose(w)
    <2> DEFINE g == hand[w].gen
               F == IF g \notin DOMAIN blocks[w] THEN {} ELSE {[gen |-> g, worker |-> w, rows |-> blocks[w][g]]}
               m == [type |-> "Closed", gen |-> g, files |-> F]
               b == Restrict(blocks[w], DOMAIN blocks[w] \ {g})
    <2>1. wpc[w] = "work" /\ UNCHANGED <<jobs, events>> /\ g \in Nat
      BY <1>3, <1>8 DEF WorkerClose
    <2>2. CASE WorkerFails(w, "StorageFailed")
      BY <1>0, <1>1, <2>1, <2>2, WorkerFailsTyped DEF TypeOK, Causes
    <2>3. CASE /\ ctxs' = [ctxs EXCEPT ![w] = ctxs[w] \ {g}]
               /\ hand' = [hand EXCEPT ![w] = m]
               /\ blocks' = [blocks EXCEPT ![w] = b]
               /\ wpc' = [wpc EXCEPT ![w] = "send"]
      <3>1. F \in SUBSET Files
        BY <1>0, <2>1, BlocksTyped, FileFacts
      <3> HIDE DEF F
      <3>2. m \in Messages
        BY <2>1, <3>1, MessageFacts
      <3>3. /\ ctxs[w] \ {g} \in SUBSET Nat
            /\ DOMAIN blocks[w] \ {g} \in SUBSET (ctxs[w] \ {g})
        BY <1>0, <1>4, BlocksTyped
      <3>4. b \in [DOMAIN blocks[w] \ {g} -> Seq(Nat)]
        BY <1>0, BlocksTyped DEF Restrict
      <3> HIDE DEF b, m, g
      <3>5. /\ ctxs' \in [Workers -> SUBSET Nat]
            /\ DOMAIN blocks' = Workers
            /\ \A v \in Workers : \E E \in SUBSET ctxs'[v] : blocks'[v] \in [E -> Seq(Nat)]
        BY <1>0, <2>3, <3>3, <3>4, BlocksChange
      <3>6. /\ wpc' \in [Workers -> {"recv", "work", "send", "report", "leaving", "exit"}]
            /\ hand' \in [Workers -> Jobs \cup Messages \cup {Nothing}]
            /\ \A v \in Workers : /\ wpc'[v] = "work" => hand'[v] \in Jobs
                                  /\ wpc'[v] \in {"send", "report"} => hand'[v] \in Messages
        BY <1>0, <2>3, <3>2, HandChange
      <3> QED
        BY <1>0, <1>1, <2>1, <3>5, <3>6 DEF PoolTypes, TypeOK
    <2> QED
      BY <1>8, <2>2, <2>3 DEF WorkerClose
  <1>9. CASE WorkerSend(w)
    <2>1. events \in Seq(Messages) /\ hand[w] \in Messages
      BY <1>0, <1>9 DEF PoolTypes, WorkerSend
    <2>2. events' \in Seq(Messages)
      BY <1>9, <2>1 DEF WorkerSend
    <2>3. /\ \E p \in {"recv", "leaving"} : wpc' = [wpc EXCEPT ![w] = p]
          /\ hand' = [hand EXCEPT ![w] = Nothing]
          /\ UNCHANGED <<jobs, ctxs, blocks>>
      BY <1>9 DEF WorkerSend
    <2>4. /\ wpc' \in [Workers -> {"recv", "work", "send", "report", "leaving", "exit"}]
          /\ hand' \in [Workers -> Jobs \cup Messages \cup {Nothing}]
          /\ \A v \in Workers : /\ wpc'[v] = "work" => hand'[v] \in Jobs
                                /\ wpc'[v] \in {"send", "report"} => hand'[v] \in Messages
      BY <1>0, <2>3, HandChange
    <2> QED
      BY <1>0, <1>1, <2>2, <2>3, <2>4 DEF PoolTypes, TypeOK
  <1>10. CASE WorkerExit(w)
    <2>1. <<>> \in [{} -> Seq(Nat)]
      OBVIOUS
    <2>2. /\ ctxs' \in [Workers -> SUBSET Nat]
          /\ DOMAIN blocks' = Workers
          /\ \A v \in Workers : \E E \in SUBSET ctxs'[v] : blocks'[v] \in [E -> Seq(Nat)]
      BY <1>0, <1>10, <2>1, BlocksChange DEF WorkerExit
    <2>3. wpc' = [wpc EXCEPT ![w] = "exit"] /\ UNCHANGED <<hand, jobs, events>>
      BY <1>10 DEF WorkerExit
    <2> QED
      BY <1>0, <1>1, <2>2, <2>3 DEF PoolTypes, TypeOK
  <1> QED
    BY <1>5, <1>6, <1>7, <1>8, <1>9, <1>10 DEF Worker

-----------------------------------------------------------------------------
(***************************************************************************)
(* The reader and the brackets of the dump.                                *)
(***************************************************************************)
LEMMA ReaderFollowsBrackets ==
    ASSUME TypeOK, ReaderInv, Reader
    PROVE  ReaderInv'
  <1>0. /\ dump \in Dumps /\ pos \in 1..(Len(dump) + 1) /\ Len(dump) \in Nat
        /\ dump' = dump /\ (jobOpen' = jobOpen \/ rpc' = "join")
    <2>1. dump' = dump /\ (jobOpen' = jobOpen \/ rpc' = "join")
      BY DEF Reader, OpenInput, EndOfChunk, DumpVersion, Table, CopyStart, BroadcastOpen, CopyRows, CopyEnd,
             BroadcastClose, AwaitAck, TakeCause, EndOfDump, CommitsOver, Shutdown, Join
    <2> QED
      BY <2>1, DumpFacts DEF TypeOK, ReaderTypes
  <1>1. \A i \in 1..Len(dump) :
          /\ dump[i].type \in {"table", "start", "end"} => dump[i].table \in Tables
          /\ dump[i].type \in {"rows", "end"} => Inside(dump, i)
          /\ dump[i].type = "start" => Inside(dump, i + 1) /\ ~Inside(dump, i)
          /\ dump[i].type = "end" => ~Inside(dump, i + 1)
          /\ dump[i].type \notin {"start", "end"} => (Inside(dump, i + 1) <=> Inside(dump, i))
    BY <1>0, DumpFacts, InsideStep
  <1>2. ~Inside(dump, 1)
    <2>1. \A j \in 1..(1 - 1) : FALSE
      OBVIOUS
    <2> QED
      BY <2>1 DEF Inside
  <1>3. pos <= Len(dump) => pos \in 1..Len(dump)
    BY <1>0
  <1>4. CASE OpenInput
    BY <1>0, <1>2, <1>4 DEF OpenInput, Return, ReaderInv
  <1>5. CASE EndOfChunk \/ DumpVersion \/ Table
    BY <1>0, <1>1, <1>3, <1>5 DEF EndOfChunk, DumpVersion, Table, Return, At, ReaderInv
  <1>6. CASE CopyStart
    BY <1>0, <1>1, <1>3, <1>6 DEF CopyStart, Return, At, ReaderInv
  <1>7. CASE BroadcastOpen
    BY <1>0, <1>1, <1>3, <1>7, TablesAssumption DEF BroadcastOpen, Broadcast, ReaderInv
  <1>8. CASE CopyRows \/ CopyEnd
    BY <1>0, <1>1, <1>3, <1>8 DEF CopyRows, CopyEnd, At, ReaderInv
  <1>9. CASE BroadcastClose
    BY <1>0, <1>9 DEF BroadcastClose, Broadcast, ReaderInv
  <1>10. CASE AwaitAck
    BY <1>0, <1>1, <1>3, <1>10 DEF AwaitAck, Return, ReaderInv
  <1>11. CASE TakeCause \/ EndOfDump \/ CommitsOver \/ Shutdown \/ Join
    BY <1>0, <1>11 DEF TakeCause, EndOfDump, CommitsOver, Shutdown, Join, Return, ReaderInv
  <1> QED
    BY <1>4, <1>5, <1>6, <1>7, <1>8, <1>9, <1>10, <1>11 DEF Reader

-----------------------------------------------------------------------------
(***************************************************************************)
(* The workers, the block and the barrier.                                 *)
(***************************************************************************)
WorkersInv == \A w \in Workers : WorkerInv(w)

LEMMA IndexFacts == 1 \in Workers /\ Workers \subseteq Nat /\ \A w \in Workers : 1 <= w /\ w <= Threads
  BY PoolAssumption DEF Workers

(* The reader goes on and nothing of the pool moves. *)
LEMMA PoolStands ==
    ASSUME WorkersInv, AnswersInv, UNCHANGED poolVars, generation' = generation,
           acked' <= acked, acked \in Nat, acked' \in Nat, block' \subseteq block,
           ~jobOpen => ~jobOpen',
           rpc \in Draining => rpc' \in Draining,
           \A w \in Workers : /\ BeforeBlock(w)' => BeforeBlock(w)
                              /\ InBlock(w)' => InBlock(w)
                              /\ AfterBlock(w) => AfterBlock(w)'
    PROVE  WorkersInv' /\ AnswersInv'
  <1>1. \A w \in Workers : (Quiet(w) <=> Quiet(w)') /\ (Live(w) <=> Live(w)') /\ (Gone(w) <=> Gone(w)')
                           /\ (Entered(w) <=> Entered(w)')
    BY DEF Quiet, Live, Gone, Entered, poolVars
  <1>2. ASSUME NEW w \in Workers
        PROVE  WorkerInv(w)'
    <2>1. WorkerInv(w)
      BY DEF WorkersInv
    <2>2. QueueShape(w) => QueueShape(w)'
      BY <1>1 DEF QueueShape, poolVars
    <2>3. HandShape(w) => HandShape(w)'
      BY DEF HandShape, poolVars
    <2>4. ctxs[w]' = ctxs[w]
      BY DEF poolVars
    <2> QED
      BY <1>1, <2>1, <2>2, <2>3, <2>4 DEF WorkerInv
  <1>3. AnswersInv'
    <2>0. PICK n \in 0..Threads : \E own \in [1..n -> Workers] : AnsweredBy(n, own)
      BY DEF AnswersInv
    <2>1. PICK own \in [1..n -> Workers] : AnsweredBy(n, own)
      BY <2>0
    <2>2. \A i \in 1..n : own[i] \in Workers
      BY <2>1
    <2>3. \A w \in Workers : Spent(w) => Spent(w)'
      BY <1>1 DEF Spent
    <2>4. events' = events
      BY DEF poolVars
    <2>5. AnsweredBy(n, own)'
      BY <1>1, <2>1, <2>2, <2>3, <2>4 DEF AnsweredBy
    <2> QED
      BY <2>5 DEF AnswersInv
  <1> QED
    BY <1>2, <1>3 DEF WorkersInv

(* Between two blocks every worker is quiet and nothing is under way. *)
LEMMA BetweenBlocks ==
    ASSUME TypeOK, WorkersInv, AnswersInv, \A w \in Workers : BeforeBlock(w)
    PROVE  (\A w \in Workers : Quiet(w)) /\ events = <<>> /\ acked = 0 /\ block = {}
  <1>1. \A w \in Workers : Quiet(w)
    BY DEF WorkersInv, WorkerInv
  <1>2. \A w \in Workers : ~AfterBlock(w)
    BY DEF BeforeBlock, AfterBlock, Draining
  <1>3. \A w \in Workers : ~Spent(w)
    BY <1>1, <1>2 DEF Spent, Quiet, Gone
  <1>4. PICK n \in 0..Threads : \E own \in [1..n -> Workers] : AnsweredBy(n, own)
    BY DEF AnswersInv
  <1>5. PICK own \in [1..n -> Workers] : AnsweredBy(n, own)
    BY <1>4
  <1>6. n = 0
    <2>1. n # 0 => own[1] \in Workers /\ Spent(own[1])
      BY <1>5 DEF AnsweredBy
    <2> QED
      BY <1>3, <2>1
  <1>7. events \in Seq(Messages) /\ acked \in Nat /\ Len(events) \in Nat
    BY PoolAssumption DEF TypeOK, PoolTypes, ReaderTypes
  <1>8. acked <= 0 - Len(events)
    BY <1>5, <1>6 DEF AnsweredBy
  <1>9. acked = 0 /\ Len(events) = 0
    BY <1>7, <1>8
  <1>10. block = {}
    BY <1>5, <1>6 DEF AnsweredBy
  <1> QED
    BY <1>1, <1>7, <1>9, <1>10

(* Quiet workers and no event satisfy the invariant wherever the reader is *)
(* with respect to the block.                                              *)
LEMMA QuietPool ==
    ASSUME \A w \in Workers : Quiet(w), events = <<>>, acked = 0, block = {},
           \A w \in Workers : ~InBlock(w)
    PROVE  WorkersInv /\ AnswersInv
  <1>1. WorkersInv
    BY DEF WorkersInv, WorkerInv, Quiet, QueueShape, HandShape
  <1>2. \A own : AnsweredBy(0, own)
    BY DEF AnsweredBy
  <1>3. <<>> \in [1..0 -> Workers]
    OBVIOUS
  <1>4. 0 \in 0..Threads
    BY PoolAssumption
  <1> QED
    BY <1>1, <1>2, <1>3, <1>4 DEF AnswersInv

LEMMA QuietPoolNext ==
    ASSUME \A w \in Workers : Quiet(w)', events' = <<>>, acked' = 0, block' = {},
           \A w \in Workers : ~InBlock(w)'
    PROVE  WorkersInv' /\ AnswersInv'
  <1>1. WorkersInv'
    BY DEF WorkersInv, WorkerInv, Quiet, QueueShape, HandShape
  <1>2. \A own : AnsweredBy(0, own)'
    BY DEF AnsweredBy
  <1>3. <<>> \in [1..0 -> Workers]
    OBVIOUS
  <1>4. 0 \in 0..Threads
    BY PoolAssumption
  <1> QED
    BY <1>1, <1>2, <1>3, <1>4 DEF AnswersInv

LEMMA CopyStartKeeps ==
    ASSUME TypeOK, ReaderInv, WorkersInv, AnswersInv, CopyStart
    PROVE  WorkersInv' /\ AnswersInv'
  <1>0. /\ rpc = "scan" /\ acked \in Nat
        /\ UNCHANGED <<poolVars, acked, block, current, jobOpen>>
    BY PoolAssumption DEF TypeOK, ReaderTypes, CopyStart, At, poolVars, workerVars
  <1>1. CASE generation' = generation /\ rpc' \in {"scan", "shutdown"}
    <2>1. \A w \in Workers : /\ BeforeBlock(w)' => BeforeBlock(w)
                             /\ InBlock(w)' => InBlock(w)
                             /\ AfterBlock(w) => AfterBlock(w)'
      BY <1>0, <1>1 DEF BeforeBlock, InBlock, AfterBlock, Draining
    <2> QED
      BY <1>0, <1>1, <2>1, PoolStands DEF Draining
  <1>2. CASE rpc' = "open" /\ widx' = 1
    <2>1. current = NoTable
      <3>1. pos \in 1..Len(dump) /\ dump \in Dumps /\ dump[pos].type = "start"
        BY DumpFacts DEF TypeOK, ReaderTypes, CopyStart, At
      <3>2. ~Inside(dump, pos)
        BY <3>1, DumpFacts
      <3> QED
        BY <1>0, <3>2 DEF ReaderInv
    <2>2. \A w \in Workers : BeforeBlock(w)
      BY <1>0, <2>1 DEF BeforeBlock
    <2>3. (\A w \in Workers : Quiet(w)) /\ events = <<>> /\ acked = 0 /\ block = {}
      BY <2>2, BetweenBlocks
    <2>4. \A w \in Workers : Quiet(w)'
      BY <1>0, <2>3 DEF Quiet, poolVars
    <2>5. \A w \in Workers : ~InBlock(w)'
      BY <1>2, IndexFacts DEF InBlock
    <2>6. events' = <<>> /\ acked' = 0 /\ block' = {}
      BY <1>0, <2>3 DEF poolVars
    <2> QED
      BY <2>4, <2>5, <2>6, QuietPoolNext
  <1> QED
    BY <1>0, <1>1, <1>2 DEF CopyStart, Return

LEMMA ReaderAloneKeeps ==
    ASSUME TypeOK, ReaderInv, WorkersInv, AnswersInv, ReaderAlone
    PROVE  WorkersInv' /\ AnswersInv'
  <1>0. UNCHANGED poolVars /\ acked \in Nat
    BY ReaderAloneStands, PoolAssumption DEF TypeOK, ReaderTypes
  <1> DEFINE Hold == /\ generation' = generation /\ block' \subseteq block
                     /\ acked' <= acked /\ acked' \in Nat
                     /\ ~jobOpen => ~jobOpen'
                     /\ rpc \in Draining => rpc' \in Draining
                     /\ \A w \in Workers : /\ BeforeBlock(w)' => BeforeBlock(w)
                                           /\ InBlock(w)' => InBlock(w)
                                           /\ AfterBlock(w) => AfterBlock(w)'
  <1>1. CASE OpenInput
    <2>1. Hold
      BY <1>0, <1>1 DEF ReaderInv, OpenInput, Return, BeforeBlock, InBlock, AfterBlock, Draining
    <2> QED
      BY <1>0, <2>1, PoolStands
  <1>2. CASE EndOfChunk \/ DumpVersion \/ Table
    <2>1. Hold
      BY <1>0, <1>2 DEF EndOfChunk, DumpVersion, Table, At, Return, BeforeBlock, InBlock, AfterBlock, Draining
    <2> QED
      BY <1>0, <2>1, PoolStands
  <1>3. CASE CopyEnd
    <2>1. ~skipping => current # NoTable
      <3>1. pos \in 1..Len(dump) /\ dump \in Dumps /\ dump[pos].type = "end" /\ rpc = "scan"
        BY <1>3, DumpFacts DEF TypeOK, ReaderTypes, CopyEnd, At
      <3>2. Inside(dump, pos)
        BY <3>1, DumpFacts
      <3> QED
        BY <3>1, <3>2 DEF ReaderInv
    <2>2. /\ rpc = "scan" /\ generation' = generation /\ jobOpen' = jobOpen
          /\ \/ UNCHANGED <<rpc, current, acked, block>>
             \/ /\ current # NoTable /\ rpc' = "close" /\ widx' = 1
                /\ acked' = 0 /\ block' = {}
      BY <1>3, <2>1 DEF CopyEnd, At
    <2>3. Hold
      BY <1>0, <2>2, IndexFacts DEF BeforeBlock, InBlock, AfterBlock, Draining
    <2> QED
      BY <1>0, <2>3, PoolStands
  <1>4. CASE EndOfDump
    <2>1. Hold
      BY <1>0, <1>4 DEF EndOfDump, Return, BeforeBlock, InBlock, AfterBlock, Draining
    <2> QED
      BY <1>0, <2>1, PoolStands
  <1>5. CASE CommitsOver \/ Shutdown \/ Join
    <2>1. Hold
      BY <1>0, <1>5 DEF CommitsOver, Shutdown, Join, Return, BeforeBlock, InBlock, AfterBlock, Draining
    <2> QED
      BY <1>0, <2>1, PoolStands
  <1> QED
    BY <1>1, <1>2, <1>3, <1>4, <1>5, CopyStartKeeps DEF ReaderAlone

LEMMA TasksKeep ==
    ASSUME TypeOK, WorkersInv, AnswersInv,
           \/ \E t \in Tables : PreloadDone(t)
           \/ \E i \in DOMAIN commits : Commit(i)
    PROVE  WorkersInv' /\ AnswersInv'
  <1>1. UNCHANGED poolVars /\ UNCHANGED <<rpc, current, widx, generation, acked, block, jobOpen>> /\ acked \in Nat
    BY TasksStand, PoolAssumption DEF readerVars, TypeOK, ReaderTypes
  <1>2. \A w \in Workers : /\ BeforeBlock(w)' => BeforeBlock(w)
                           /\ InBlock(w)' => InBlock(w)
                           /\ AfterBlock(w) => AfterBlock(w)'
    BY <1>1 DEF BeforeBlock, InBlock, AfterBlock
  <1> QED
    BY <1>1, <1>2, PoolStands

-----------------------------------------------------------------------------
(***************************************************************************)
(* The reader sends a job to worker w.                                     *)
(***************************************************************************)

(* What it takes: nobody but w notices, and w finds the job behind those   *)
(* it has, as the next one of the block.                                   *)
LEMMA SendKeeps ==
    ASSUME TypeOK, WorkersInv, AnswersInv, NEW w \in Workers, NEW job \in Jobs,
           jobs' = [jobs EXCEPT ![w] = Append(@, job)],
           UNCHANGED <<events, workerVars, generation, acked, block, jobOpen>>,
           rpc \notin Draining, ~AfterBlock(w),
           job.gen = generation,
           job.type = "Open" => BeforeBlock(w),
           job.type # "Open" => InBlock(w),
           job.type = "Close" <=> AfterBlock(w)',
           job.type # "Close" <=> InBlock(w)',
           ~BeforeBlock(w)',
           \A v \in Workers \ {w} : /\ BeforeBlock(v)' => BeforeBlock(v)
                                    /\ InBlock(v)' => InBlock(v)
                                    /\ AfterBlock(v) => AfterBlock(v)'
    PROVE  WorkersInv' /\ AnswersInv'
  <1>0. /\ jobs \in [Workers -> Seq(Jobs)]
        /\ jobs'[w] = Append(jobs[w], job) /\ jobs[w] \in Seq(Jobs)
        /\ \A v \in Workers \ {w} : jobs'[v] = jobs[v]
        /\ events' = events /\ wpc' = wpc /\ hand' = hand /\ ctxs' = ctxs /\ generation' = generation
    BY DEF TypeOK, PoolTypes, workerVars
  <1>1. \A v \in Workers \ {w} : /\ (Quiet(v) <=> Quiet(v)') /\ (Live(v) <=> Live(v)')
                                 /\ (Entered(v) <=> Entered(v)') /\ (Spent(v) => Spent(v)')
    BY <1>0 DEF Quiet, Live, Gone, Entered, Spent
  <1>2. \A v \in Workers : Gone(v) <=> Gone(v)'
    BY <1>0 DEF Gone
  <1>3. \A v \in Workers \ {w} : WorkerInv(v)'
    <2> TAKE v \in Workers \ {w}
    <2>1. WorkerInv(v)
      BY DEF WorkersInv
    <2>2. QueueShape(v) => QueueShape(v)'
      BY <1>0, <1>1 DEF QueueShape
    <2>3. HandShape(v) => HandShape(v)'
      BY <1>0 DEF HandShape
    <2> QED
      BY <1>0, <1>1, <2>1, <2>2, <2>3 DEF WorkerInv
  <1>4. WorkerInv(w)'
    <2>1. WorkerInv(w)
      BY DEF WorkersInv
    <2>2. /\ Len(jobs'[w]) = Len(jobs[w]) + 1 /\ Len(jobs[w]) \in Nat
          /\ jobs'[w][Len(jobs[w]) + 1] = job
          /\ \A k \in 1..Len(jobs[w]) : jobs'[w][k] = jobs[w][k]
          /\ DOMAIN jobs[w] = 1..Len(jobs[w]) /\ DOMAIN jobs'[w] = 1..(Len(jobs[w]) + 1)
          /\ jobs'[w] # <<>>
      BY <1>0
    <2>3. CASE Live(w)
      <3>1. QueueShape(w) /\ HandShape(w) /\ ctxs[w] \subseteq {generation}
        BY <2>1, <2>3 DEF WorkerInv
      <3>2. wpc[w] # "send" /\ ~(wpc[w] = "work" /\ hand[w].type = "Close")
        BY <3>1 DEF HandShape
      <3>3. \A k \in 1..Len(jobs[w]) : jobs[w][k].type # "Close"
        BY <2>2, <3>1 DEF QueueShape
      <3>4. CASE job.type = "Open"
        <4>1. Quiet(w)
          BY <2>1, <3>4 DEF WorkerInv
        <4>2. jobs[w] = <<>> /\ wpc[w] = "recv" /\ ctxs[w] = {} /\ Len(jobs[w]) = 0
          BY <4>1 DEF Quiet
        <4>3. jobs'[w][1] = job
          BY <2>2, <4>2
        <4>4. Entered(w)'
          BY <1>0, <2>2, <3>4, <4>2, <4>3 DEF Entered
        <4>5. QueueShape(w)'
          BY <1>0, <2>2, <3>4, <4>2, <4>3 DEF QueueShape
        <4>6. HandShape(w)'
          BY <1>0, <4>2 DEF HandShape
        <4> QED
          BY <1>0, <4>2, <4>4, <4>5, <4>6 DEF WorkerInv
      <3>5. CASE job.type # "Open"
        <4>1. Entered(w)
          BY <2>1, <2>3, <3>5 DEF WorkerInv
        <4>2. Entered(w)'
          BY <1>0, <2>2, <4>1 DEF Entered
        <4>3. QueueShape(w)'
          BY <1>0, <2>2, <3>1, <3>3, <3>5, <4>2 DEF QueueShape
        <4>4. HandShape(w)'
          BY <1>0, <3>1, <3>2 DEF HandShape
        <4> QED
          BY <1>0, <3>1, <4>2, <4>3, <4>4 DEF WorkerInv
      <3> QED
        BY <3>4, <3>5
    <2>4. CASE ~Live(w)
      <3>1. ~Live(w)' /\ ctxs[w]' \subseteq {generation'}
        BY <1>0, <2>1, <2>4 DEF Live, WorkerInv
      <3>2. HandShape(w)'
        BY <1>0, <2>1, <2>4 DEF Live, HandShape, WorkerInv
      <3> QED
        BY <3>1, <3>2 DEF WorkerInv
    <2> QED
      BY <2>3, <2>4
  <1>5. AnswersInv'
    <2>0. PICK n \in 0..Threads : \E own \in [1..n -> Workers] : AnsweredBy(n, own)
      BY DEF AnswersInv
    <2>1. PICK own \in [1..n -> Workers] : AnsweredBy(n, own)
      BY <2>0
    <2>2. \A i \in 1..n : own[i] \in Workers /\ Spent(own[i])
      BY <2>1 DEF AnsweredBy
    <2>3. \A i \in 1..n : own[i] = w => Gone(w)
      BY <2>2 DEF Spent
    <2>4. \A i \in 1..n : Spent(own[i])'
      BY <1>1, <1>2, <2>2, <2>3 DEF Spent
    <2>5. Gone(w) => ~Quiet(w)
      BY DEF Gone, Quiet
    <2>6. \A i \in 1..n : Quiet(own[i]) => Quiet(own[i])'
      BY <1>1, <2>2, <2>3, <2>5
    <2>7. events \in Seq(Messages) /\ Len(events) \in Nat
      BY DEF TypeOK, PoolTypes
    <2>8. \A k \in 1..Len(events) : n - Len(events) + k \in 1..n
      <3>1. acked \in Nat /\ acked <= n - Len(events)
        BY <2>1, PoolAssumption DEF AnsweredBy, TypeOK, ReaderTypes
      <3> QED
        BY <2>7, <3>1
    <2>9. AnsweredBy(n, own)'
      BY <1>0, <1>2, <2>1, <2>2, <2>4, <2>6, <2>7, <2>8 DEF AnsweredBy
    <2> QED
      BY <2>9 DEF AnswersInv
  <1> QED
    BY <1>3, <1>4, <1>5 DEF WorkersInv

(* A send that fails leaves the pool as it is and makes the reader give up. *)
LEMMA GivingUpKeeps ==
    ASSUME TypeOK, WorkersInv, AnswersInv, UNCHANGED poolVars,
           UNCHANGED <<generation, acked, block, jobOpen>>, rpc' = "cause"
    PROVE  WorkersInv' /\ AnswersInv'
  <1>1. acked \in Nat
    BY PoolAssumption DEF TypeOK, ReaderTypes
  <1>2. \A w \in Workers : ~BeforeBlock(w)' /\ ~InBlock(w)' /\ AfterBlock(w)'
    BY DEF BeforeBlock, InBlock, AfterBlock, Draining
  <1> QED
    BY <1>1, <1>2, PoolStands DEF Draining

LEMMA BroadcastOpenKeeps ==
    ASSUME TypeOK, ReaderInv, WorkersInv, AnswersInv, BroadcastOpen
    PROVE  WorkersInv' /\ AnswersInv'
  <1>0. /\ rpc = "open" /\ widx \in Workers /\ generation \in Nat
        /\ UNCHANGED <<events, workerVars, generation, acked, block, jobOpen>>
        /\ current = NoTable
    BY DEF TypeOK, ReaderTypes, ReaderInv, BroadcastOpen, Broadcast
  <1>1. CASE Refuses(widx) /\ rpc' = "cause" /\ UNCHANGED jobs
    BY <1>0, <1>1, GivingUpKeeps DEF poolVars, workerVars
  <1>2. CASE /\ jobs' = [jobs EXCEPT ![widx] = Append(@, [type |-> "Open", gen |-> generation])]
             /\ \/ widx < Threads /\ widx' = widx + 1 /\ rpc' = "open" /\ current' = current
                \/ widx = Threads /\ rpc' = "scan" /\ current' # NoTable
    <2> DEFINE job == [type |-> "Open", gen |-> generation]
    <2>1. job \in Jobs /\ job.gen = generation /\ job.type = "Open"
      BY <1>0, JobFacts
    <2>2. ~AfterBlock(widx) /\ rpc \notin Draining /\ BeforeBlock(widx)
      BY <1>0, IndexFacts DEF AfterBlock, BeforeBlock, Draining
    <2>3. PICK w \in Workers : w = widx
      BY <1>0
    <2>4. InBlock(w)' /\ ~BeforeBlock(w)' /\ ~AfterBlock(w)'
      BY <1>0, <1>2, <2>3, IndexFacts DEF AfterBlock, BeforeBlock, InBlock, Draining
    <2>5. \A v \in Workers \ {w} : /\ BeforeBlock(v)' => BeforeBlock(v)
                                   /\ InBlock(v)' => InBlock(v)
                                   /\ AfterBlock(v) => AfterBlock(v)'
      BY <1>0, <1>2, <2>3, IndexFacts DEF AfterBlock, BeforeBlock, InBlock, Draining
    <2>6. jobs' = [jobs EXCEPT ![w] = Append(@, job)]
      BY <1>2, <2>3
    <2> HIDE DEF job
    <2> QED
      BY <1>0, <2>1, <2>2, <2>3, <2>4, <2>5, <2>6, SendKeeps
  <1>3. dump[pos].table # NoTable
    BY <1>0, DumpFacts, TablesAssumption DEF TypeOK, ReaderTypes, ReaderInv
  <1>4. widx \in Nat /\ widx <= Threads /\ Threads \in Nat
    BY <1>0, IndexFacts, PoolAssumption
  <1> QED
    BY <1>0, <1>1, <1>2, <1>3, <1>4 DEF BroadcastOpen, Broadcast

LEMMA BroadcastCloseKeeps ==
    ASSUME TypeOK, ReaderInv, WorkersInv, AnswersInv, BroadcastClose
    PROVE  WorkersInv' /\ AnswersInv'
  <1>0. /\ rpc = "close" /\ widx \in Workers /\ generation \in Nat
        /\ UNCHANGED <<events, workerVars, generation, acked, block, jobOpen, current>>
    BY DEF TypeOK, ReaderTypes, ReaderInv, BroadcastClose, Broadcast
  <1>1. CASE Refuses(widx) /\ rpc' = "cause" /\ UNCHANGED jobs
    BY <1>0, <1>1, GivingUpKeeps DEF poolVars, workerVars
  <1>2. CASE /\ jobs' = [jobs EXCEPT ![widx] = Append(@, [type |-> "Close", gen |-> generation])]
             /\ \/ widx < Threads /\ widx' = widx + 1 /\ rpc' = "close"
                \/ widx = Threads /\ rpc' = "acks"
    <2> DEFINE job == [type |-> "Close", gen |-> generation]
    <2>1. job \in Jobs /\ job.gen = generation /\ job.type = "Close"
      BY <1>0, JobFacts
    <2>2. ~AfterBlock(widx) /\ rpc \notin Draining /\ InBlock(widx)
      BY <1>0, IndexFacts DEF AfterBlock, InBlock, Draining
    <2>3. PICK w \in Workers : w = widx
      BY <1>0
    <2>4. ~InBlock(w)' /\ ~BeforeBlock(w)' /\ AfterBlock(w)'
      BY <1>0, <1>2, <2>3, IndexFacts DEF AfterBlock, BeforeBlock, InBlock, Draining
    <2>5. \A v \in Workers \ {w} : /\ BeforeBlock(v)' => BeforeBlock(v)
                                   /\ InBlock(v)' => InBlock(v)
                                   /\ AfterBlock(v) => AfterBlock(v)'
      BY <1>0, <1>2, <2>3, IndexFacts DEF AfterBlock, BeforeBlock, InBlock, Draining
    <2>6. jobs' = [jobs EXCEPT ![w] = Append(@, job)]
      BY <1>2, <2>3
    <2> HIDE DEF job
    <2> QED
      BY <1>0, <2>1, <2>2, <2>3, <2>4, <2>5, <2>6, SendKeeps
  <1>4. widx \in Nat /\ widx <= Threads /\ Threads \in Nat
    BY <1>0, IndexFacts, PoolAssumption
  <1> QED
    BY <1>0, <1>1, <1>2, <1>4 DEF BroadcastClose, Broadcast

LEMMA CopyRowsKeeps ==
    ASSUME TypeOK, ReaderInv, WorkersInv, AnswersInv, CopyRows
    PROVE  WorkersInv' /\ AnswersInv'
  <1>0. /\ rpc = "scan" /\ generation \in Nat /\ acked \in Nat /\ rr + 1 \in Workers
        /\ pos \in 1..Len(dump) /\ dump \in Dumps /\ dump[pos].type = "rows"
        /\ UNCHANGED <<events, workerVars, generation, acked, block, jobOpen, current>>
    BY DumpFacts, PoolAssumption DEF TypeOK, ReaderTypes, CopyRows, At, Workers
  <1>1. pos \in Nat /\ dump[pos].bad \in BOOLEAN /\ Inside(dump, pos)
    BY <1>0, DumpFacts
  <1>2. ~skipping => current # NoTable
    BY <1>0, <1>1 DEF ReaderInv
  <1>3. CASE UNCHANGED jobs /\ rpc' = "cause"
    BY <1>0, <1>3, GivingUpKeeps DEF poolVars, workerVars
  <1>4. CASE UNCHANGED jobs /\ rpc' = "scan"
    <2>1. \A w \in Workers : /\ BeforeBlock(w)' => BeforeBlock(w)
                             /\ InBlock(w)' => InBlock(w)
                             /\ AfterBlock(w) => AfterBlock(w)'
      BY <1>0, <1>4 DEF BeforeBlock, InBlock, AfterBlock, Draining
    <2> QED
      BY <1>0, <1>4, <2>1, PoolStands DEF poolVars, workerVars, Draining
  <1>5. CASE /\ current # NoTable /\ rpc' = "scan"
             /\ jobs' = [jobs EXCEPT ![rr + 1] = Append(@,
                           [type |-> "Rows", gen |-> generation, id |-> pos, bad |-> dump[pos].bad])]
    <2> DEFINE job == [type |-> "Rows", gen |-> generation, id |-> pos, bad |-> dump[pos].bad]
    <2>1. job \in Jobs /\ job.gen = generation /\ job.type = "Rows"
      BY <1>0, <1>1, JobFacts
    <2>2. PICK w \in Workers : w = rr + 1
      BY <1>0
    <2>3. ~AfterBlock(w) /\ rpc \notin Draining /\ InBlock(w)
      BY <1>0, <1>5 DEF AfterBlock, InBlock, Draining
    <2>4. InBlock(w)' /\ ~BeforeBlock(w)' /\ ~AfterBlock(w)'
      BY <1>0, <1>5 DEF AfterBlock, BeforeBlock, InBlock, Draining
    <2>5. \A v \in Workers \ {w} : /\ BeforeBlock(v)' => BeforeBlock(v)
                                   /\ InBlock(v)' => InBlock(v)
                                   /\ AfterBlock(v) => AfterBlock(v)'
      BY <1>0, <1>5 DEF AfterBlock, BeforeBlock, InBlock, Draining
    <2>6. jobs' = [jobs EXCEPT ![w] = Append(@, job)]
      BY <1>5, <2>2
    <2> HIDE DEF job
    <2> QED
      BY <1>0, <2>1, <2>3, <2>4, <2>5, <2>6, SendKeeps
  <1> QED
    BY <1>0, <1>2, <1>3, <1>4, <1>5 DEF CopyRows

-----------------------------------------------------------------------------
(***************************************************************************)
(* The reader takes an event.                                              *)
(***************************************************************************)

(* As many different workers as there are workers are all of them. *)
LEMMA EveryWorker ==
    ASSUME NEW n \in Nat, NEW own \in [1..n -> Workers], Threads <= n,
           \A i, j \in 1..n : own[i] = own[j] => i = j
    PROVE  n = Threads /\ \A w \in Workers : \E i \in 1..n : own[i] = w
  <1>1. /\ IsFiniteSet(Workers) /\ Cardinality(Workers) = Threads
        /\ IsFiniteSet(1..n) /\ Cardinality(1..n) = n
    BY FS_Interval, PoolAssumption DEF Workers
  <1>2. own \in Injection(1..n, Workers)
    BY DEF Injection, IsInjective
  <1>3. n <= Threads /\ (n = Threads => own \in Surjection(1..n, Workers))
    BY <1>1, <1>2, FS_Injection
  <1> QED
    BY <1>3, PoolAssumption DEF Surjection

(* The event that is read moves the border between what has been read and  *)
(* what has not; everything else the invariant says of the owners stands.  *)
LEMMA TakeShifts ==
    ASSUME TypeOK, NEW n \in 0..Threads, NEW own \in [1..n -> Workers], AnsweredBy(n, own),
           events # <<>>
    PROVE  /\ EventsLeft \in Seq(Messages) /\ Len(EventsLeft) = Len(events) - 1
           /\ \A k \in 1..Len(EventsLeft) : EventsLeft[k] = events[k + 1] /\ k + 1 \in 1..Len(events)
           /\ EventTaken = events[1] /\ 1 \in 1..Len(events)
           /\ Len(events) \in Nat /\ acked \in Nat /\ Len(events) <= n
           /\ n - Len(events) + 1 \in 1..n
  <1>1. events \in Seq(Messages) /\ acked \in Nat /\ n \in Nat
    BY PoolAssumption DEF TypeOK, PoolTypes, ReaderTypes
  <1>2. acked <= n - Len(events) /\ Len(events) \in Nat /\ Len(events) > 0
    BY <1>1 DEF AnsweredBy
  <1>3. EventsLeft = Tail(events) /\ EventTaken = Head(events)
    BY DEF EventsLeft, EventTaken
  <1>4. EventsLeft \in Seq(Messages) /\ Len(EventsLeft) = Len(events) - 1
    BY <1>1, <1>2, <1>3
  <1>5. \A k \in 1..Len(EventsLeft) : EventsLeft[k] = events[k + 1] /\ k + 1 \in 1..Len(events)
    BY <1>1, <1>2, <1>3, <1>4
  <1> QED
    BY <1>1, <1>2, <1>3, <1>4, <1>5

(* The reader gives up with the event it has read. *)
LEMMA TakeAndLeaveKeeps ==
    ASSUME TypeOK, WorkersInv, AnswersInv, events' = EventsLeft,
           UNCHANGED <<jobs, workerVars, generation, acked, block, jobOpen>>, rpc' = "shutdown"
    PROVE  WorkersInv' /\ AnswersInv'
  <1>0. acked \in Nat
    BY PoolAssumption DEF TypeOK, ReaderTypes
  <1>1. \A w \in Workers : ~BeforeBlock(w)' /\ ~InBlock(w)' /\ AfterBlock(w)'
    BY DEF BeforeBlock, InBlock, AfterBlock, Draining
  <1>2. \A w \in Workers : (Quiet(w) <=> Quiet(w)') /\ (Live(w) <=> Live(w)') /\ (Gone(w) <=> Gone(w)')
                           /\ (Entered(w) <=> Entered(w)') /\ (Spent(w) => Spent(w)')
    BY <1>1 DEF Quiet, Live, Gone, Entered, Spent, workerVars
  <1>3. WorkersInv'
    <2> SUFFICES ASSUME NEW w \in Workers PROVE WorkerInv(w)'
      BY DEF WorkersInv
    <2>1. WorkerInv(w)
      BY DEF WorkersInv
    <2>2. QueueShape(w) => QueueShape(w)'
      BY <1>1, <1>2 DEF QueueShape, workerVars
    <2>3. HandShape(w) => HandShape(w)'
      BY <1>1 DEF HandShape, workerVars
    <2>4. ctxs[w]' = ctxs[w]
      BY DEF workerVars
    <2> QED
      BY <1>1, <1>2, <2>1, <2>2, <2>3, <2>4 DEF WorkerInv
  <1>4. AnswersInv'
    <2>0. PICK n \in 0..Threads : \E own \in [1..n -> Workers] : AnsweredBy(n, own)
      BY DEF AnswersInv
    <2>1. PICK own \in [1..n -> Workers] : AnsweredBy(n, own)
      BY <2>0
    <2>2. \A i \in 1..n : own[i] \in Workers
      BY <2>1
    <2>3. CASE events = <<>>
      <3>1. events' = events
        BY <2>3 DEF EventsLeft
      <3>2. AnsweredBy(n, own)'
        BY <1>2, <2>1, <2>2, <2>3, <3>1 DEF AnsweredBy, Draining
      <3> QED
        BY <3>2 DEF AnswersInv
    <2>4. CASE events # <<>>
      <3>0. PICK l \in Nat : l = Len(events)
        BY <2>1, <2>4, TakeShifts
      <3>1. /\ l <= n /\ n \in Nat /\ Len(EventsLeft) = l - 1
            /\ \A k \in 1..(l - 1) : EventsLeft[k] = events[k + 1] /\ k + 1 \in 1..l
        BY <2>1, <2>4, <3>0, TakeShifts
      <3>2. PICK read \in Nat : read = n - l
        <4>1. n - l \in Nat
          BY <3>0, <3>1
        <4> QED
          BY <4>1
      <3>3. n - Len(events') = read + 1 /\ Len(events') = l - 1
        BY <3>0, <3>1, <3>2
      <3>4. \A k \in 1..(l - 1) : (read + 1) + k \in 1..n /\ (read + 1) + k = read + (k + 1)
        BY <3>0, <3>1, <3>2
      <3>5. \A k \in 1..(l - 1) :
              \/ events'[k].type = "Failed" /\ Gone(own[read + 1 + k])'
              \/ /\ events'[k].type = "Closed" /\ events'[k].gen = generation'
                 /\ Quiet(own[read + 1 + k])' \/ ~jobOpen'
                 /\ \A f \in events'[k].files : f.gen = generation' /\ f.worker = own[read + 1 + k]
        <4> TAKE k \in 1..(l - 1)
        <4>1. k + 1 \in 1..l /\ events'[k] = events[k + 1]
          BY <3>1
        <4>2. \/ events[k + 1].type = "Failed" /\ Gone(own[read + (k + 1)])
              \/ /\ events[k + 1].type = "Closed" /\ events[k + 1].gen = generation
                 /\ Quiet(own[read + (k + 1)]) \/ ~jobOpen
                 /\ \A f \in events[k + 1].files : f.gen = generation /\ f.worker = own[read + (k + 1)]
          BY <2>1, <3>0, <3>2, <4>1 DEF AnsweredBy
        <4>3. PICK v \in Workers : v = own[read + (k + 1)] /\ v = own[read + 1 + k]
          BY <2>2, <3>4
        <4>4. (Quiet(v) <=> Quiet(v)') /\ (Gone(v) <=> Gone(v)')
          BY <1>2
        <4> QED
          BY <4>1, <4>2, <4>3, <4>4
      <3>6. \A f \in block' : \E i \in 1..n : i <= read + 1 /\ f.worker = own[i]
        BY <2>1, <3>0, <3>2 DEF AnsweredBy
      <3>7. acked' <= read + 1
        BY <1>0, <2>1, <3>0, <3>2 DEF AnsweredBy
      <3>8. \A i \in 1..n : Spent(own[i])'
        BY <1>2, <2>1, <2>2 DEF AnsweredBy
      <3>9. \A i, j \in 1..n : own[i] = own[j] => i = j
        BY <2>1 DEF AnsweredBy
      <3>10. rpc' \in Draining
        BY DEF Draining
      <3>11. AnsweredBy(n, own)'
        BY <3>3, <3>5, <3>6, <3>7, <3>8, <3>9, <3>10, ZenonT(40) DEF AnsweredBy
      <3> QED
        BY <3>11 DEF AnswersInv
    <2> QED
      BY <2>3, <2>4
  <1> QED
    BY <1>3, <1>4

(* The barrier.  An answer is counted and its worker stays quiet; with the *)
(* last answer every worker has answered, and nothing is under way.        *)
LEMMA AwaitAckKeeps ==
    ASSUME TypeOK, ReaderInv, WorkersInv, AnswersInv, AwaitAck
    PROVE  WorkersInv' /\ AnswersInv'
  <1>0. /\ rpc = "acks" /\ events' = EventsLeft /\ acked \in Nat /\ jobOpen /\ current = NoTable
        /\ UNCHANGED <<jobs, workerVars, generation, jobOpen, current>>
    BY PoolAssumption DEF TypeOK, ReaderTypes, ReaderInv, AwaitAck
  <1>1. CASE UNCHANGED <<acked, block>> /\ rpc' = "shutdown"
    BY <1>0, <1>1, TakeAndLeaveKeeps
  <1>2. CASE /\ EventTaken.type = "Closed"
             /\ \/ /\ acked + 1 < Threads /\ rpc' = rpc
                   /\ acked' = acked + 1 /\ block' = block \cup EventTaken.files
                \/ /\ acked + 1 = Threads /\ acked' = 0 /\ block' = {}
                   /\ rpc' \in {"scan", "shutdown"}
    <2>1. events # <<>>
      BY <1>2, EventFacts DEF TypeOK
    <2>2. PICK n \in 0..Threads : \E own \in [1..n -> Workers] : AnsweredBy(n, own)
      BY DEF AnswersInv
    <2>3. PICK own \in [1..n -> Workers] : AnsweredBy(n, own)
      BY <2>2
    <2>4. PICK l \in Nat : l = Len(events)
      BY <2>1, <2>3, TakeShifts
    <2>5. /\ l <= n /\ n \in Nat /\ 1 \in 1..l /\ Len(EventsLeft) = l - 1
          /\ \A k \in 1..(l - 1) : EventsLeft[k] = events[k + 1] /\ k + 1 \in 1..l
          /\ EventTaken = events[1]
      BY <2>1, <2>3, <2>4, TakeShifts
    <2>6. PICK read \in Nat : read = n - l
      <3>1. n - l \in Nat
        BY <2>4, <2>5
      <3> QED
        BY <3>1
    <2>7. read + 1 \in 1..n /\ own[read + 1] \in Workers
      BY <2>3, <2>5, <2>6
    <2>8. Quiet(own[read + 1]) /\ \A f \in EventTaken.files : f.worker = own[read + 1]
      BY <1>0, <1>2, <2>3, <2>4, <2>5, <2>6 DEF AnsweredBy
    <2>9. \A i \in 1..n : i <= read + 1 => Quiet(own[i])
      <3>1. \A i \in 1..n : i <= read => Quiet(own[i])
        BY <1>0, <2>3, <2>4, <2>6 DEF AnsweredBy, Draining
      <3>2. \A i \in 1..n : i <= read + 1 => i <= read \/ i = read + 1
        BY <2>6
      <3> QED
        BY <2>8, <3>1, <3>2
    <2>10. acked <= read /\ \A i, j \in 1..n : own[i] = own[j] => i = j
      BY <2>3, <2>4, <2>6 DEF AnsweredBy
    <2>11. \A w \in Workers : (Quiet(w) <=> Quiet(w)') /\ (Gone(w) <=> Gone(w)')
                              /\ (Live(w) <=> Live(w)') /\ (Entered(w) <=> Entered(w)')
      BY <1>0 DEF Quiet, Gone, Live, Entered, workerVars
    <2>12. CASE acked + 1 = Threads /\ acked' = 0 /\ block' = {} /\ rpc' \in {"scan", "shutdown"}
      <3>1. Threads <= n
        BY <1>0, <2>5, <2>6, <2>10, <2>12, PoolAssumption
      <3>2. n = Threads /\ \A w \in Workers : \E i \in 1..n : own[i] = w
        BY <2>5, <2>10, <3>1, EveryWorker
      <3>3. l = 1 /\ read + 1 = n
        BY <1>0, <2>5, <2>6, <2>10, <2>12, <3>2, PoolAssumption
      <3>4. \A w \in Workers : Quiet(w)
        BY <2>9, <3>2, <3>3
      <3>5. \A w \in Workers : Quiet(w)'
        BY <2>11, <3>4
      <3>6. events' = <<>>
        <4>1. EventsLeft \in Seq(Messages) /\ Len(EventsLeft) = 0
          BY <2>1, <2>3, <2>5, <3>3, TakeShifts
        <4> QED
          BY <1>0, <4>1
      <3>7. \A w \in Workers : ~InBlock(w)'
        BY <1>0, <2>12 DEF InBlock
      <3> QED
        BY <2>12, <3>5, <3>6, <3>7, QuietPoolNext
    <2>13. CASE /\ acked + 1 < Threads /\ rpc' = rpc
                /\ acked' = acked + 1 /\ block' = block \cup EventTaken.files
      <3>1. \A w \in Workers : ~BeforeBlock(w)' /\ ~InBlock(w)' /\ AfterBlock(w)'
        BY <1>0, <2>13 DEF BeforeBlock, InBlock, AfterBlock, Draining
      <3>2. WorkersInv'
        <4> SUFFICES ASSUME NEW w \in Workers PROVE WorkerInv(w)'
          BY DEF WorkersInv
        <4>1. WorkerInv(w)
          BY DEF WorkersInv
        <4>2. QueueShape(w) => QueueShape(w)'
          BY <1>0, <2>11, <3>1 DEF QueueShape, workerVars
        <4>3. HandShape(w) => HandShape(w)'
          BY <1>0, <3>1 DEF HandShape, workerVars
        <4>4. ctxs[w]' = ctxs[w]
          BY <1>0 DEF workerVars
        <4> QED
          BY <1>0, <2>11, <3>1, <4>1, <4>2, <4>3, <4>4 DEF WorkerInv
      <3>3. n - Len(events') = read + 1 /\ Len(events') = l - 1
        BY <1>0, <2>5, <2>6
      <3>4. \A k \in 1..(l - 1) :
              \/ events'[k].type = "Failed" /\ Gone(own[read + 1 + k])'
              \/ /\ events'[k].type = "Closed" /\ events'[k].gen = generation'
                 /\ Quiet(own[read + 1 + k])' \/ ~jobOpen'
                 /\ \A f \in events'[k].files : f.gen = generation' /\ f.worker = own[read + 1 + k]
        <4> TAKE k \in 1..(l - 1)
        <4>1. k + 1 \in 1..l /\ events'[k] = events[k + 1]
          BY <1>0, <2>5
        <4>2. \/ events[k + 1].type = "Failed" /\ Gone(own[read + (k + 1)])
              \/ /\ events[k + 1].type = "Closed" /\ events[k + 1].gen = generation
                 /\ Quiet(own[read + (k + 1)]) \/ ~jobOpen
                 /\ \A f \in events[k + 1].files : f.gen = generation /\ f.worker = own[read + (k + 1)]
          BY <2>3, <2>4, <2>6, <4>1 DEF AnsweredBy
        <4>3. PICK v \in Workers : v = own[read + (k + 1)] /\ v = own[read + 1 + k]
          BY <2>3, <2>5, <2>6, <4>1
        <4>4. (Quiet(v) <=> Quiet(v)') /\ (Gone(v) <=> Gone(v)')
          BY <2>11
        <4> QED
          BY <1>0, <4>1, <4>2, <4>3, <4>4
      <3>5. \A f \in block' : \E i \in 1..n : i <= read + 1 /\ f.worker = own[i]
        <4>1. \A f \in block : \E i \in 1..n : i <= read /\ f.worker = own[i]
          BY <2>3, <2>4, <2>6 DEF AnsweredBy
        <4>2. \A i \in 1..n : i <= read => i <= read + 1
          BY <2>6
        <4>3. read + 1 <= read + 1
          BY <2>6
        <4> QED
          BY <2>7, <2>8, <2>13, <4>1, <4>2, <4>3
      <3>6. acked' <= read + 1
        BY <1>0, <2>6, <2>10, <2>13
      <3>7. \A i \in 1..n : Spent(own[i])'
        <4>1. \A i \in 1..n : own[i] \in Workers /\ Spent(own[i])
          BY <2>3 DEF AnsweredBy
        <4> QED
          BY <2>11, <3>1, <4>1 DEF Spent
      <3>8. \A i \in 1..n : i <= read + 1 => Quiet(own[i])'
        BY <2>3, <2>9, <2>11
      <3>9. AnsweredBy(n, own)'
        BY <2>10, <3>3, <3>4, <3>5, <3>6, <3>7, <3>8, ZenonT(40) DEF AnsweredBy
      <3> QED
        BY <3>2, <3>9 DEF AnswersInv
    <2> QED
      BY <1>2, <2>12, <2>13
  <1> QED
    BY <1>0, <1>1, <1>2 DEF AwaitAck, Return

-----------------------------------------------------------------------------
(***************************************************************************)
(* A worker takes a step.                                                  *)
(***************************************************************************)

(* The other workers do not notice; and no answer is under way or has been *)
(* read from a worker that still moves, except to leave after shutdown.    *)
LEMMA OthersStand ==
    ASSUME TypeOK, ReaderInv, WorkersInv, NEW w \in Workers, UNCHANGED readerVars,
           \A v \in Workers \ {w} : /\ jobs'[v] = jobs[v] /\ wpc'[v] = wpc[v]
                                    /\ hand'[v] = hand[v] /\ ctxs'[v] = ctxs[v]
    PROVE  /\ \A v \in Workers \ {w} : /\ WorkerInv(v)' /\ (Quiet(v) => Quiet(v)')
                                       /\ (Gone(v) => Gone(v)') /\ (Spent(v) => Spent(v)')
           /\ \A v \in Workers : /\ BeforeBlock(v)' <=> BeforeBlock(v)
                                 /\ InBlock(v)' <=> InBlock(v)
                                 /\ AfterBlock(v)' <=> AfterBlock(v)
  <1>0. rpc' = rpc /\ current' = current /\ widx' = widx /\ generation' = generation
    BY DEF readerVars
  <1>1. \A v \in Workers : /\ BeforeBlock(v)' <=> BeforeBlock(v)
                           /\ InBlock(v)' <=> InBlock(v)
                           /\ AfterBlock(v)' <=> AfterBlock(v)
    BY <1>0 DEF BeforeBlock, InBlock, AfterBlock
  <1>2. ASSUME NEW v \in Workers \ {w}
        PROVE  WorkerInv(v)' /\ (Quiet(v) => Quiet(v)') /\ (Gone(v) => Gone(v)') /\ (Spent(v) => Spent(v)')
    <2>1. /\ (Quiet(v) <=> Quiet(v)') /\ (Gone(v) <=> Gone(v)')
          /\ (Live(v) <=> Live(v)') /\ (Entered(v) <=> Entered(v)')
      BY <1>0 DEF Quiet, Gone, Live, Entered
    <2>2. QueueShape(v) => QueueShape(v)'
      BY <1>0, <1>1, <2>1 DEF QueueShape
    <2>3. HandShape(v) => HandShape(v)'
      BY <1>0, <1>1 DEF HandShape
    <2>4. WorkerInv(v)'
      BY <1>0, <1>1, <2>1, <2>2, <2>3 DEF WorkersInv, WorkerInv
    <2> QED
      BY <1>1, <2>1, <2>4 DEF Spent
  <1> QED
    BY <1>1, <1>2

LEMMA WorkerStepKeepsAnswers ==
    ASSUME TypeOK, ReaderInv, WorkersInv, AnswersInv, NEW w \in Workers,
           UNCHANGED readerVars, events' = events,
           \A v \in Workers \ {w} : /\ jobs'[v] = jobs[v] /\ wpc'[v] = wpc[v]
                                    /\ hand'[v] = hand[v] /\ ctxs'[v] = ctxs[v],
           Gone(w) => Gone(w)', Spent(w) => Spent(w)',
           Quiet(w) => Quiet(w)' \/ ~jobOpen
    PROVE  AnswersInv'
  <1>0. /\ rpc' = rpc /\ generation' = generation /\ acked' = acked /\ block' = block /\ jobOpen' = jobOpen
        /\ ~jobOpen => rpc \in Draining
    BY DEF readerVars, ReaderInv, Draining
  <1>1. PICK n \in 0..Threads : \E own \in [1..n -> Workers] : AnsweredBy(n, own)
    BY DEF AnswersInv
  <1>2. PICK own \in [1..n -> Workers] : AnsweredBy(n, own)
    BY <1>1
  <1>3. \A v \in Workers : (Gone(v) => Gone(v)') /\ (Spent(v) => Spent(v)') /\ (Quiet(v) => Quiet(v)' \/ ~jobOpen)
    BY OthersStand
  <1>4. PICK l \in Nat : l = Len(events)
    BY DEF TypeOK, PoolTypes
  <1>5. acked \in Nat /\ n \in Nat /\ acked <= n - l
    BY <1>2, <1>4, PoolAssumption DEF AnsweredBy, TypeOK, ReaderTypes
  <1>6. n - l \in Nat
    BY <1>4, <1>5
  <1>7. PICK read \in Nat : read = n - l
    BY <1>6
  <1>8. \A k \in 1..l : own[read + k] \in Workers
    BY <1>5, <1>7
  <1>9. /\ acked <= read
        /\ \A i, j \in 1..n : own[i] = own[j] => i = j
        /\ \A i \in 1..n : own[i] \in Workers /\ Spent(own[i])
        /\ rpc \notin Draining => \A i \in 1..n : i <= read => Quiet(own[i])
        /\ \A f \in block : \E i \in 1..n : i <= read /\ f.worker = own[i]
    BY <1>2, <1>4, <1>7 DEF AnsweredBy
  <1>10. \A k \in 1..l :
           \/ events[k].type = "Failed" /\ Gone(own[read + k])
           \/ /\ events[k].type = "Closed" /\ events[k].gen = generation
              /\ Quiet(own[read + k]) \/ ~jobOpen
              /\ \A f \in events[k].files : f.gen = generation /\ f.worker = own[read + k]
    BY <1>2, <1>4, <1>7 DEF AnsweredBy
  <1>11. \A k \in 1..l :
           \/ events[k].type = "Failed" /\ Gone(own[read + k])'
           \/ /\ events[k].type = "Closed" /\ events[k].gen = generation
              /\ Quiet(own[read + k])' \/ ~jobOpen
              /\ \A f \in events[k].files : f.gen = generation /\ f.worker = own[read + k]
    BY <1>3, <1>8, <1>10
  <1>12. /\ \A i \in 1..n : Spent(own[i])'
         /\ rpc \notin Draining => \A i \in 1..n : i <= read => Quiet(own[i])'
    BY <1>0, <1>3, <1>9
  <1>13. n - Len(events') = read /\ Len(events') = l
    BY <1>4, <1>7
  <1>14. AnsweredBy(n, own)'
    BY <1>0, <1>9, <1>11, <1>12, <1>13, ZenonT(40) DEF AnsweredBy
  <1> QED
    BY <1>14 DEF AnswersInv

LEMMA WorkerRecvKeeps ==
    ASSUME TypeOK, ReaderInv, WorkersInv, AnswersInv, NEW w \in Workers, WorkerRecv(w)
    PROVE  WorkersInv' /\ AnswersInv'
  <1>0. /\ UNCHANGED readerVars /\ events' = events /\ ctxs' = ctxs
        /\ generation' = generation /\ wpc[w] = "recv"
    BY DEF WorkerRecv, readerVars
  <1>1. /\ jobs \in [Workers -> Seq(Jobs)] /\ jobs[w] \in Seq(Jobs)
        /\ wpc \in [Workers -> {"recv", "work", "send", "report", "leaving", "exit"}]
        /\ hand \in [Workers -> Jobs \cup Messages \cup {Nothing}]
    BY DEF TypeOK, PoolTypes
  <1>2. \A v \in Workers \ {w} : /\ jobs'[v] = jobs[v] /\ wpc'[v] = wpc[v]
                                 /\ hand'[v] = hand[v] /\ ctxs'[v] = ctxs[v]
    BY <1>0, <1>1 DEF WorkerRecv
  <1>3. WorkerInv(w) /\ QueueShape(w) /\ ~Gone(w)
    BY <1>0 DEF WorkersInv, WorkerInv, Live, Gone
  <1>4. CASE jobs[w] # <<>>
    <2>1. /\ wpc'[w] = "work" /\ hand'[w] = Head(jobs[w]) /\ jobs'[w] = Tail(jobs[w])
      BY <1>1, <1>4 DEF WorkerRecv
    <2>2. PICK l \in Nat : l = Len(jobs[w]) /\ 1 <= l
      BY <1>1, <1>4
    <2>3. /\ hand'[w] = jobs[w][1] /\ Len(jobs'[w]) = l - 1
          /\ DOMAIN jobs[w] = 1..l /\ DOMAIN jobs'[w] = 1..(l - 1)
          /\ \A k \in 1..(l - 1) : jobs'[w][k] = jobs[w][k + 1] /\ k + 1 \in 1..l /\ k + 1 # 1
          /\ l = 1 => jobs'[w] = <<>>
      BY <1>1, <1>4, <2>1, <2>2
    <2>4. ~Quiet(w) /\ ~Spent(w) /\ ~BeforeBlock(w)
      BY <1>3, <1>4 DEF Quiet, Spent, WorkerInv
    <2>5. AnswersInv'
      BY <1>0, <1>2, <1>3, <2>4, WorkerStepKeepsAnswers
    <2>6. /\ ~BeforeBlock(w)' /\ (InBlock(w)' => InBlock(w)) /\ (AfterBlock(w)' <=> AfterBlock(w))
          /\ \A v \in Workers \ {w} : WorkerInv(v)'
      BY <1>0, <1>2, <2>4, OthersStand
    <2>7. Entered(w) => Entered(w)'
      BY <1>0, <2>1, <2>3 DEF Entered
    <2>8. QueueShape(w)'
      <3>1. \A k \in 1..(l - 1) :
              /\ jobs'[w][k].gen = generation
              /\ jobs'[w][k].type # "Open"
              /\ Entered(w)
              /\ jobs'[w][k].type = "Close" => k = l - 1 /\ AfterBlock(w)
        <4>1. \A k \in 1..l :
                /\ jobs[w][k].gen = generation
                /\ jobs[w][k].type = "Open" => k = 1
                /\ jobs[w][k].type # "Open" => Entered(w)
                /\ jobs[w][k].type = "Close" => k = l /\ AfterBlock(w)
          BY <1>3, <2>2, <2>3 DEF QueueShape
        <4> TAKE k \in 1..(l - 1)
        <4>2. jobs'[w][k] = jobs[w][k + 1] /\ k + 1 \in 1..l /\ k + 1 # 1
          BY <2>3
        <4>3. k + 1 = l => k = l - 1
          BY <2>2
        <4> QED
          BY <4>1, <4>2, <4>3
      <3> QED
        BY <1>0, <2>3, <2>6, <2>7, <3>1 DEF QueueShape
    <2>9. HandShape(w)'
      <3>1. /\ jobs[w][1].gen = generation
            /\ jobs[w][1].type = "Open" => ctxs[w] = {}
            /\ jobs[w][1].type # "Open" => ctxs[w] = {generation}
            /\ jobs[w][1].type = "Close" => l = 1 /\ AfterBlock(w)
        <4>1. 1 \in DOMAIN jobs[w]
          BY <2>2, <2>3
        <4>2. /\ jobs[w][1].gen = generation
              /\ jobs[w][1].type = "Open" => ctxs[w] = {}
              /\ jobs[w][1].type # "Open" => Entered(w)
              /\ jobs[w][1].type = "Close" => 1 = l /\ AfterBlock(w)
          BY <1>3, <2>2, <4>1 DEF QueueShape
        <4> QED
          BY <1>0, <4>2 DEF Entered
      <3> QED
        BY <1>0, <2>1, <2>3, <2>6, <3>1 DEF HandShape
    <2>10. WorkerInv(w)'
      <3>1. InBlock(w)' => Entered(w)'
        BY <1>0, <1>3, <2>6, <2>7 DEF WorkerInv, Live
      <3> QED
        BY <1>0, <1>3, <2>6, <2>8, <2>9, <3>1 DEF WorkerInv
    <2> QED
      BY <2>5, <2>6, <2>10 DEF WorkersInv
  <1>5. CASE jobs[w] = <<>>
    <2>1. wpc'[w] = "leaving" /\ ~jobOpen /\ hand' = hand /\ jobs' = jobs
      BY <1>1, <1>5 DEF WorkerRecv
    <2>2. Gone(w)' /\ Spent(w)' /\ ~Live(w)'
      BY <2>1 DEF Gone, Spent, Live
    <2>3. AnswersInv'
      BY <1>0, <1>2, <2>1, <2>2, WorkerStepKeepsAnswers
    <2>4. /\ (BeforeBlock(w)' => BeforeBlock(w))
          /\ \A v \in Workers \ {w} : WorkerInv(v)'
      BY <1>0, <1>2, OthersStand
    <2>5. ~BeforeBlock(w)
      BY <2>1 DEF ReaderInv, BeforeBlock
    <2>6. WorkerInv(w)'
      BY <1>0, <1>3, <2>1, <2>2, <2>4, <2>5 DEF WorkerInv, HandShape
    <2> QED
      BY <2>3, <2>4, <2>6 DEF WorkersInv
  <1> QED
    BY <1>4, <1>5

(* A worker at work has not answered and is not between blocks. *)
LEMMA AtWork ==
    ASSUME WorkersInv, NEW w \in Workers, wpc[w] \in {"work", "send", "report"}
    PROVE  /\ WorkerInv(w) /\ ~Quiet(w) /\ ~Gone(w) /\ ~Spent(w) /\ ~BeforeBlock(w)
           /\ wpc[w] = "work" => HandShape(w) /\ QueueShape(w)
  BY DEF WorkersInv, WorkerInv, Quiet, Gone, Spent, Live

LEMMA AfterIsNotIn ==
    ASSUME TypeOK, NEW w \in Workers, AfterBlock(w)
    PROVE  ~InBlock(w)
  <1>1. w \in Nat /\ widx \in Nat
    BY IndexFacts DEF TypeOK, ReaderTypes
  <1> QED
    BY <1>1 DEF AfterBlock, InBlock, Draining

LEMMA WorkerFailsKeeps ==
    ASSUME TypeOK, ReaderInv, WorkersInv, AnswersInv, NEW w \in Workers, wpc[w] = "work",
           NEW c \in Causes, WorkerFails(w, c), UNCHANGED <<readerVars, jobs, events>>
    PROVE  WorkersInv' /\ AnswersInv'
  <1>1. /\ wpc'[w] = "report" /\ ctxs'[w] = {} /\ hand'[w] = [type |-> "Failed", cause |-> c]
        /\ \A v \in Workers \ {w} : /\ jobs'[v] = jobs[v] /\ wpc'[v] = wpc[v]
                                    /\ hand'[v] = hand[v] /\ ctxs'[v] = ctxs[v]
    BY DEF TypeOK, PoolTypes, WorkerFails
  <1>2. ~BeforeBlock(w)' /\ \A v \in Workers \ {w} : WorkerInv(v)'
    BY <1>1, AtWork, OthersStand
  <1>3. ~Live(w)' /\ HandShape(w)' /\ ctxs'[w] \subseteq {generation'}
    BY <1>1 DEF Live, HandShape
  <1>4. WorkerInv(w)'
    BY <1>2, <1>3 DEF WorkerInv
  <1>5. AnswersInv'
    BY <1>1, AtWork, WorkerStepKeepsAnswers
  <1> QED
    BY <1>2, <1>4, <1>5 DEF WorkersInv

LEMMA WorkerOpenKeeps ==
    ASSUME TypeOK, ReaderInv, WorkersInv, AnswersInv, NEW w \in Workers, WorkerOpen(w)
    PROVE  WorkersInv' /\ AnswersInv'
  <1>0. /\ wpc[w] = "work" /\ hand[w].type = "Open"
        /\ UNCHANGED readerVars /\ UNCHANGED <<jobs, events, generation>>
    BY DEF WorkerOpen, readerVars
  <1>1. /\ wpc'[w] = "recv" /\ ctxs'[w] = ctxs[w] \cup {hand[w].gen}
        /\ \A v \in Workers \ {w} : /\ jobs'[v] = jobs[v] /\ wpc'[v] = wpc[v]
                                    /\ hand'[v] = hand[v] /\ ctxs'[v] = ctxs[v]
    BY DEF TypeOK, PoolTypes, WorkerOpen
  <1>2. HandShape(w) /\ QueueShape(w)
    BY <1>0, AtWork
  <1>3. ctxs'[w] = {generation'}
    BY <1>0, <1>1, <1>2 DEF HandShape
  <1>4. /\ ~BeforeBlock(w)' /\ (AfterBlock(w)' <=> AfterBlock(w))
        /\ \A v \in Workers \ {w} : WorkerInv(v)'
    BY <1>0, <1>1, AtWork, OthersStand
  <1>5. Entered(w)'
    BY <1>3 DEF Entered
  <1>6. QueueShape(w)'
    BY <1>0, <1>2, <1>4, <1>5 DEF QueueShape
  <1>7. HandShape(w)'
    BY <1>1 DEF HandShape
  <1>8. WorkerInv(w)'
    BY <1>3, <1>4, <1>5, <1>6, <1>7 DEF WorkerInv
  <1>9. AnswersInv'
    BY <1>0, <1>1, AtWork, WorkerStepKeepsAnswers
  <1> QED
    BY <1>4, <1>8, <1>9 DEF WorkersInv

LEMMA WorkerRowsKeeps ==
    ASSUME TypeOK, ReaderInv, WorkersInv, AnswersInv, NEW w \in Workers, WorkerRows(w)
    PROVE  WorkersInv' /\ AnswersInv'
  <1>0. /\ wpc[w] = "work" /\ hand[w].type = "Rows"
        /\ UNCHANGED readerVars /\ UNCHANGED <<jobs, events, generation>>
    BY DEF WorkerRows, readerVars
  <1>1. CASE \E c \in Causes : WorkerFails(w, c)
    BY <1>0, <1>1, WorkerFailsKeeps
  <1>2. CASE /\ UNCHANGED ctxs /\ hand' = [hand EXCEPT ![w] = Nothing]
             /\ wpc' = [wpc EXCEPT ![w] = "recv"]
    <2>1. /\ wpc'[w] = "recv"
          /\ \A v \in Workers \ {w} : /\ jobs'[v] = jobs[v] /\ wpc'[v] = wpc[v]
                                      /\ hand'[v] = hand[v] /\ ctxs'[v] = ctxs[v]
      BY <1>0, <1>2 DEF TypeOK, PoolTypes
    <2>2. HandShape(w) /\ QueueShape(w)
      BY <1>0, AtWork
    <2>3. ctxs'[w] = {generation'}
      BY <1>0, <1>2, <2>2 DEF HandShape
    <2>4. /\ ~BeforeBlock(w)' /\ (AfterBlock(w)' <=> AfterBlock(w))
          /\ \A v \in Workers \ {w} : WorkerInv(v)'
      BY <1>0, <2>1, AtWork, OthersStand
    <2>5. Entered(w)'
      BY <2>3 DEF Entered
    <2>6. QueueShape(w)'
      BY <1>0, <2>2, <2>4, <2>5 DEF QueueShape
    <2>7. HandShape(w)'
      BY <2>1 DEF HandShape
    <2>8. WorkerInv(w)'
      BY <2>3, <2>4, <2>5, <2>6, <2>7 DEF WorkerInv
    <2>9. AnswersInv'
      BY <1>0, <2>1, AtWork, WorkerStepKeepsAnswers
    <2> QED
      BY <2>4, <2>8, <2>9 DEF WorkersInv
  <1> QED
    BY <1>1, <1>2 DEF WorkerRows, Causes

LEMMA WorkerCloseKeeps ==
    ASSUME TypeOK, ReaderInv, WorkersInv, AnswersInv, NEW w \in Workers, WorkerClose(w)
    PROVE  WorkersInv' /\ AnswersInv'
  <1>0. /\ wpc[w] = "work" /\ hand[w].type = "Close"
        /\ UNCHANGED readerVars /\ UNCHANGED <<jobs, events, generation>>
    BY DEF WorkerClose, readerVars
  <1>1. CASE WorkerFails(w, "StorageFailed")
    BY <1>0, <1>1, WorkerFailsKeeps DEF Causes
  <1>2. CASE /\ ctxs' = [ctxs EXCEPT ![w] = @ \ {hand[w].gen}]
             /\ hand' = [hand EXCEPT ![w] =
                           [type |-> "Closed", gen |-> hand[w].gen,
                            files |-> IF hand[w].gen \notin DOMAIN blocks[w] THEN {}
                                      ELSE {[gen |-> hand[w].gen, worker |-> w, rows |-> blocks[w][hand[w].gen]]}]]
             /\ wpc' = [wpc EXCEPT ![w] = "send"]
    <2>1. /\ wpc'[w] = "send" /\ ctxs'[w] = ctxs[w] \ {hand[w].gen}
          /\ \A v \in Workers \ {w} : /\ jobs'[v] = jobs[v] /\ wpc'[v] = wpc[v]
                                      /\ hand'[v] = hand[v] /\ ctxs'[v] = ctxs[v]
      BY <1>0, <1>2 DEF TypeOK, PoolTypes
    <2>2. /\ hand'[w].type = "Closed" /\ hand'[w].gen = hand[w].gen
          /\ \A f \in hand'[w].files : f.gen = hand[w].gen /\ f.worker = w
      BY <1>2 DEF TypeOK, PoolTypes
    <2>3. HandShape(w)
      BY <1>0, AtWork
    <2>4. /\ hand[w].gen = generation' /\ ctxs'[w] = {}
          /\ jobs'[w] = <<>> /\ AfterBlock(w)
      BY <1>0, <2>1, <2>3 DEF HandShape
    <2>5. /\ ~BeforeBlock(w)' /\ AfterBlock(w)'
          /\ \A v \in Workers \ {w} : WorkerInv(v)'
      BY <1>0, <2>1, <2>4, AtWork, OthersStand
    <2>6. ~InBlock(w)'
      BY <1>0, <2>1, <2>4, AfterIsNotIn, OthersStand
    <2>7. QueueShape(w)'
      BY <2>4 DEF QueueShape
    <2>8. HandShape(w)'
      BY <2>1, <2>2, <2>4, <2>5 DEF HandShape
    <2>9. WorkerInv(w)'
      BY <2>4, <2>5, <2>6, <2>7, <2>8 DEF WorkerInv
    <2>10. AnswersInv'
      BY <1>0, <2>1, AtWork, WorkerStepKeepsAnswers
    <2> QED
      BY <2>5, <2>9, <2>10 DEF WorkersInv
  <1> QED
    BY <1>1, <1>2 DEF WorkerClose

LEMMA WorkerExitKeeps ==
    ASSUME TypeOK, ReaderInv, WorkersInv, AnswersInv, NEW w \in Workers, WorkerExit(w)
    PROVE  WorkersInv' /\ AnswersInv'
  <1>0. /\ wpc[w] = "leaving" /\ UNCHANGED readerVars /\ UNCHANGED <<jobs, events, hand, generation>>
    BY DEF WorkerExit, readerVars
  <1>1. /\ wpc'[w] = "exit" /\ ctxs'[w] = {}
        /\ \A v \in Workers \ {w} : /\ jobs'[v] = jobs[v] /\ wpc'[v] = wpc[v]
                                    /\ hand'[v] = hand[v] /\ ctxs'[v] = ctxs[v]
    BY <1>0 DEF TypeOK, PoolTypes, WorkerExit
  <1>2. Gone(w)' /\ Spent(w)' /\ ~Live(w)' /\ ~Quiet(w)
    BY <1>0, <1>1 DEF Gone, Spent, Live, Quiet
  <1>3. ~BeforeBlock(w)
    BY <1>2 DEF WorkersInv, WorkerInv
  <1>4. ~BeforeBlock(w)' /\ \A v \in Workers \ {w} : WorkerInv(v)'
    BY <1>0, <1>1, <1>3, OthersStand
  <1>5. WorkerInv(w)'
    BY <1>1, <1>2, <1>4 DEF WorkerInv, HandShape
  <1>6. AnswersInv'
    BY <1>0, <1>1, <1>2, WorkerStepKeepsAnswers
  <1> QED
    BY <1>4, <1>5, <1>6 DEF WorkersInv

(* A worker that has not answered leaves room for its own answer. *)
LEMMA RoomForOne ==
    ASSUME NEW n \in 0..Threads, NEW own \in [1..n -> Workers], NEW w \in Workers,
           \A i, j \in 1..n : own[i] = own[j] => i = j,
           \A i \in 1..n : own[i] # w
    PROVE  n + 1 \in 0..Threads
  <1> SUFFICES ASSUME n = Threads PROVE FALSE
    BY PoolAssumption
  <1>1. n \in Nat /\ Threads <= n
    BY PoolAssumption
  <1> QED
    BY <1>1, EveryWorker

LEMMA WorkerSendKeeps ==
    ASSUME TypeOK, ReaderInv, WorkersInv, AnswersInv, NEW w \in Workers, WorkerSend(w)
    PROVE  WorkersInv' /\ AnswersInv'
  <1>0. /\ wpc[w] \in {"send", "report"} /\ UNCHANGED readerVars
        /\ UNCHANGED <<jobs, ctxs>> /\ events' = Append(events, hand[w])
        /\ rpc' = rpc /\ generation' = generation /\ acked' = acked /\ block' = block /\ jobOpen' = jobOpen
    BY DEF WorkerSend, readerVars
  <1>1. /\ wpc'[w] = IF wpc[w] = "send" THEN "recv" ELSE "leaving"
        /\ \A v \in Workers \ {w} : /\ jobs'[v] = jobs[v] /\ wpc'[v] = wpc[v]
                                    /\ hand'[v] = hand[v] /\ ctxs'[v] = ctxs[v]
    BY <1>0 DEF TypeOK, PoolTypes, WorkerSend
  <1>2. HandShape(w) /\ ctxs[w] \subseteq {generation} /\ ~Spent(w) /\ ~BeforeBlock(w)
    BY <1>0, AtWork DEF WorkerInv
  <1>3. /\ ~BeforeBlock(w)' /\ (AfterBlock(w)' <=> AfterBlock(w))
        /\ \A v \in Workers \ {w} : /\ WorkerInv(v)' /\ (Quiet(v) => Quiet(v)')
                                    /\ (Gone(v) => Gone(v)') /\ (Spent(v) => Spent(v)')
    BY <1>0, <1>1, <1>2, OthersStand
  <1>4. wpc[w] = "send" => /\ Quiet(w)' /\ AfterBlock(w)' /\ hand[w].type = "Closed" /\ hand[w].gen = generation
                           /\ \A f \in hand[w].files : f.gen = generation /\ f.worker = w
    BY <1>0, <1>1, <1>2, <1>3 DEF HandShape, Quiet
  <1>5. wpc[w] = "report" => Gone(w)' /\ hand[w].type = "Failed"
    BY <1>0, <1>1, <1>2 DEF HandShape, Gone
  <1>6. Spent(w)'
    BY <1>0, <1>4, <1>5 DEF Spent
  <1>7. WorkerInv(w)'
    <2>1. CASE wpc[w] = "send"
      <3>1. ~InBlock(w)'
        BY <1>0, <1>1, <1>3, <1>4, <2>1, AfterIsNotIn, OthersStand
      <3> QED
        BY <1>0, <1>1, <1>2, <1>3, <1>4, <2>1, <3>1 DEF WorkerInv, QueueShape, HandShape, Quiet
    <2>2. CASE wpc[w] = "report"
      BY <1>0, <1>1, <1>2, <1>3, <2>2 DEF WorkerInv, HandShape, Live
    <2> QED
      BY <1>0, <2>1, <2>2
  <1>8. AnswersInv'
    <2>1. PICK n \in 0..Threads : \E own \in [1..n -> Workers] : AnsweredBy(n, own)
      BY DEF AnswersInv
    <2>2. PICK own \in [1..n -> Workers] : AnsweredBy(n, own)
      BY <2>1
    <2>3. PICK l \in Nat : l = Len(events)
      BY DEF TypeOK, PoolTypes
    <2>4. acked \in Nat /\ n \in Nat /\ acked <= n - l
      BY <2>2, <2>3, PoolAssumption DEF AnsweredBy, TypeOK, ReaderTypes
    <2>5. n - l \in Nat
      BY <2>3, <2>4
    <2>6. PICK read \in Nat : read = n - l
      BY <2>5
    <2>7. /\ acked <= read
          /\ \A i, j \in 1..n : own[i] = own[j] => i = j
          /\ \A i \in 1..n : own[i] \in Workers /\ Spent(own[i])
          /\ rpc \notin Draining => \A i \in 1..n : i <= read => Quiet(own[i])
          /\ \A f \in block : \E i \in 1..n : i <= read /\ f.worker = own[i]
      BY <2>2, <2>3, <2>6 DEF AnsweredBy
    <2>8. \A k \in 1..l :
             \/ events[k].type = "Failed" /\ Gone(own[read + k])
             \/ /\ events[k].type = "Closed" /\ events[k].gen = generation
                /\ Quiet(own[read + k]) \/ ~jobOpen
                /\ \A f \in events[k].files : f.gen = generation /\ f.worker = own[read + k]
      BY <2>2, <2>3, <2>6 DEF AnsweredBy
    <2>9. \A i \in 1..n : own[i] # w
      BY <1>2, <2>7
    <2>10. n + 1 \in 0..Threads
      BY <2>2, <2>7, <2>9, RoomForOne
    <2> DEFINE now == [i \in 1..(n + 1) |-> IF i = n + 1 THEN w ELSE own[i]]
    <2>11. /\ now \in [1..(n + 1) -> Workers] /\ now[n + 1] = w
           /\ \A i \in 1..n : now[i] = own[i]
      BY <2>2, <2>4
    <2>12. \A i \in 1..(n + 1) : i \in 1..n \/ i = n + 1
      BY <2>4
    <2> HIDE DEF now
    <2>13. \A i, j \in 1..(n + 1) : now[i] = now[j] => i = j
      BY <2>7, <2>9, <2>11, <2>12
    <2>14. \A i \in 1..(n + 1) : Spent(now[i])'
      BY <1>3, <1>6, <2>7, <2>9, <2>11, <2>12
    <2>15. read <= n /\ \A i \in 1..(n + 1) : i <= read => i \in 1..n
      BY <2>3, <2>4, <2>6
    <2>16. rpc' \notin Draining => \A i \in 1..(n + 1) : i <= read => Quiet(now[i])'
      BY <1>0, <1>3, <2>7, <2>9, <2>11, <2>15
    <2>17. \A f \in block' : \E i \in 1..(n + 1) : i <= read /\ f.worker = now[i]
      <3>1. \A i \in 1..n : i \in 1..(n + 1)
        BY <2>4
      <3> QED
        BY <1>0, <2>7, <2>11, <3>1
    <2>18. /\ Len(events') = l + 1 /\ (n + 1) - Len(events') = read /\ read + (l + 1) = n + 1
           /\ events'[l + 1] = hand[w] /\ \A k \in 1..l : events'[k] = events[k]
      BY <1>0, <2>3, <2>4, <2>6 DEF TypeOK, PoolTypes
    <2>19. \A k \in 1..(l + 1) :
             \/ events'[k].type = "Failed" /\ Gone(now[read + k])'
             \/ /\ events'[k].type = "Closed" /\ events'[k].gen = generation'
                /\ Quiet(now[read + k])' \/ ~jobOpen'
                /\ \A f \in events'[k].files : f.gen = generation' /\ f.worker = now[read + k]
      <3> TAKE k \in 1..(l + 1)
      <3>1. CASE k = l + 1
        <4>1. now[read + k] = w /\ events'[k] = hand[w]
          BY <2>11, <2>18, <3>1
        <4> QED
          BY <1>0, <1>4, <1>5, <4>1
      <3>2. CASE k \in 1..l
        <4>1. read + k \in 1..n
          BY <2>4, <2>6, <3>2
        <4>2. now[read + k] = own[read + k] /\ own[read + k] \in Workers \ {w} /\ events'[k] = events[k]
          BY <2>7, <2>9, <2>11, <2>18, <3>2, <4>1
        <4>3. PICK v \in Workers \ {w} : v = own[read + k] /\ v = now[read + k]
          BY <4>2
        <4>4. (Quiet(v) => Quiet(v)') /\ (Gone(v) => Gone(v)')
          BY <1>3
        <4> QED
          BY <1>0, <2>8, <3>2, <4>2, <4>3, <4>4
      <3> QED
        BY <2>3, <3>1, <3>2
    <2>20. PICK m \in 0..Threads : m = n + 1
      BY <2>10
    <2>21. AnsweredBy(m, now)'
      <3>1. m - Len(events') = read /\ Len(events') = l + 1
        BY <2>18, <2>20
      <3>2. acked' <= read
        BY <1>0, <2>7
      <3> QED
        BY <2>13, <2>14, <2>16, <2>17, <2>19, <2>20, <3>1, <3>2, ZenonT(40) DEF AnsweredBy
    <2>22. now \in [1..m -> Workers]
      BY <2>11, <2>20
    <2> QED
      BY <2>21, <2>22 DEF AnswersInv
  <1> QED
    BY <1>3, <1>7, <1>8 DEF WorkersInv

-----------------------------------------------------------------------------
(***************************************************************************)
(* The invariant.                                                          *)
(***************************************************************************)
LEMMA InitInv == Init => PoolInv
  <1> SUFFICES ASSUME Init PROVE PoolInv
    OBVIOUS
  <1>1. TypeOK
    BY InitTyped
  <1>2. ReaderInv
    BY DEF Init, ReaderInv
  <1>3. \A w \in Workers : Quiet(w) /\ ~InBlock(w)
    BY DEF Init, Quiet, InBlock
  <1>4. events = <<>> /\ acked = 0 /\ block = {}
    BY DEF Init
  <1>5. WorkersInv /\ AnswersInv
    BY <1>3, <1>4, QuietPool
  <1> QED
    BY <1>1, <1>2, <1>5 DEF PoolInv, WorkersInv

LEMMA ReaderStep ==
    ASSUME PoolInv, Reader
    PROVE  PoolInv'
  <1>0. TypeOK /\ ReaderInv /\ WorkersInv /\ AnswersInv /\ PoolTypes
    BY DEF PoolInv, WorkersInv, TypeOK
  <1>1. ReaderInv'
    BY <1>0, ReaderFollowsBrackets
  <1>2. CASE ReaderAlone
    <2>1. TypeOK'
      BY <1>0, <1>2, ReaderAloneTyped, ReaderAloneStands, PoolTypesStand DEF TypeOK
    <2> QED
      BY <1>0, <1>1, <1>2, <2>1, ReaderAloneKeeps DEF PoolInv, WorkersInv
  <1>3. CASE BroadcastOpen
    BY <1>0, <1>1, <1>3, BroadcastOpenTyped, BroadcastOpenKeeps DEF PoolInv, WorkersInv
  <1>4. CASE BroadcastClose
    BY <1>0, <1>1, <1>4, BroadcastCloseTyped, BroadcastCloseKeeps DEF PoolInv, WorkersInv
  <1>5. CASE CopyRows
    BY <1>0, <1>1, <1>5, CopyRowsTyped, CopyRowsKeeps DEF PoolInv, WorkersInv
  <1>6. CASE AwaitAck
    BY <1>0, <1>1, <1>6, AwaitAckTyped, AwaitAckKeeps DEF PoolInv, WorkersInv
  <1>7. CASE TakeCause
    <2>1. /\ events' = EventsLeft /\ UNCHANGED <<jobs, workerVars, generation, acked, block, jobOpen>>
          /\ rpc' = "shutdown"
      BY <1>7 DEF TakeCause, Return
    <2> QED
      BY <1>0, <1>1, <1>7, <2>1, TakeCauseTyped, TakeAndLeaveKeeps DEF PoolInv, WorkersInv
  <1> QED
    BY <1>2, <1>3, <1>4, <1>5, <1>6, <1>7 DEF Reader, ReaderAlone

LEMMA WorkerStep ==
    ASSUME PoolInv, NEW w \in Workers, Worker(w)
    PROVE  PoolInv'
  <1>0. TypeOK /\ ReaderInv /\ WorkersInv /\ AnswersInv
    BY DEF PoolInv, WorkersInv
  <1>1. TypeOK'
    BY <1>0, WorkerTyped
  <1>2. UNCHANGED readerVars /\ dump' = dump
    BY DEF Worker, WorkerRecv, WorkerOpen, WorkerRows, WorkerClose, WorkerSend, WorkerExit
  <1>3. ReaderInv'
    BY <1>0, <1>2 DEF ReaderInv, readerVars
  <1>4. WorkersInv' /\ AnswersInv'
    BY <1>0, WorkerRecvKeeps, WorkerOpenKeeps, WorkerRowsKeeps, WorkerCloseKeeps, WorkerSendKeeps,
       WorkerExitKeeps DEF Worker
  <1> QED
    BY <1>1, <1>3, <1>4 DEF PoolInv, WorkersInv

LEMMA TaskStep ==
    ASSUME PoolInv,
           \/ \E t \in Tables : PreloadDone(t)
           \/ \E i \in DOMAIN commits : Commit(i)
    PROVE  PoolInv'
  <1>0. TypeOK /\ ReaderInv /\ WorkersInv /\ AnswersInv /\ PoolTypes
    BY DEF PoolInv, WorkersInv, TypeOK
  <1>1. UNCHANGED poolVars /\ UNCHANGED readerVars /\ dump' = dump
    BY TasksStand DEF PreloadDone, Commit, CommitStart, CommitDone
  <1>2. TypeOK'
    BY <1>0, <1>1, TasksTyped, PoolTypesStand DEF TypeOK
  <1>3. ReaderInv'
    BY <1>0, <1>1 DEF ReaderInv, readerVars
  <1> QED
    BY <1>0, <1>2, <1>3, TasksKeep DEF PoolInv, WorkersInv

LEMMA StutterStep == PoolInv /\ UNCHANGED vars => PoolInv'
  <1> SUFFICES ASSUME PoolInv, UNCHANGED vars PROVE PoolInv'
    OBVIOUS
  <1>1. UNCHANGED poolVars /\ UNCHANGED readerVars /\ UNCHANGED <<dump, preload, commits>>
    BY DEF vars, poolVars, workerVars
  <1>2. TypeOK /\ ReaderInv /\ WorkersInv /\ AnswersInv /\ PoolTypes
    BY DEF PoolInv, WorkersInv, TypeOK
  <1>3. TypeOK'
    BY <1>1, <1>2, PoolTypesStand DEF TypeOK, ReaderTypes, readerVars
  <1>4. ReaderInv'
    BY <1>1, <1>2 DEF ReaderInv, readerVars
  <1>5. \A w \in Workers : /\ BeforeBlock(w)' => BeforeBlock(w)
                           /\ InBlock(w)' => InBlock(w)
                           /\ AfterBlock(w) => AfterBlock(w)'
    BY <1>1 DEF BeforeBlock, InBlock, AfterBlock, readerVars
  <1>6. acked \in Nat
    BY <1>2, PoolAssumption DEF TypeOK, ReaderTypes
  <1>7. UNCHANGED <<generation, acked, block, jobOpen, rpc>>
    BY <1>1 DEF readerVars
  <1>8. WorkersInv' /\ AnswersInv'
    BY <1>1, <1>2, <1>5, <1>6, <1>7, PoolStands
  <1> QED
    BY <1>3, <1>4, <1>8 DEF PoolInv, WorkersInv

(* In every reachable state of a load the reader follows the brackets of   *)
(* the dump, every worker is where the reader's broadcasts have put it,    *)
(* and every worker has sent at most one event for the block.              *)
THEOREM InductiveInvariant == Spec => []PoolInv
  <1>1. PoolInv /\ [Next]_vars => PoolInv'
    BY ReaderStep, WorkerStep, TaskStep, StutterStep DEF Next
  <1> QED
    BY InitInv, <1>1, PTL DEF Spec

(* Types, and the depth of the job queues. *)
THEOREM TypeCorrect == Spec => []TypeOK
  <1>1. PoolInv => TypeOK
    BY DEF PoolInv
  <1> QED
    BY <1>1, InductiveInvariant, PTL

(* The answers of the event channel are those of the block that is being   *)
(* closed, one per worker: the debug_assert of the barrier cannot fail.    *)
THEOREM AnswersMatch == Spec => []AnswersMatchBlock
  <1>1. PoolInv => AnswersMatchBlock
    <2> SUFFICES ASSUME PoolInv, NEW k \in DOMAIN events, events[k].type = "Closed"
                 PROVE  /\ events[k].gen = generation
                        /\ rpc \notin {"scan", "open", "commit"}
                        /\ \A f \in events[k].files : f.gen = generation /\ f \notin block
      BY DEF AnswersMatchBlock
    <2>1. PICK n \in 0..Threads : \E own \in [1..n -> Workers] : AnsweredBy(n, own)
      BY DEF PoolInv, AnswersInv
    <2>2. PICK own \in [1..n -> Workers] : AnsweredBy(n, own)
      BY <2>1
    <2>3. PICK l \in Nat : l = Len(events) /\ k \in 1..l
      BY DEF PoolInv, TypeOK, PoolTypes
    <2>4. acked \in Nat /\ n \in Nat /\ acked <= n - l
      BY <2>2, <2>3, PoolAssumption DEF AnsweredBy, PoolInv, TypeOK, ReaderTypes
    <2>5. n - l \in Nat
      BY <2>3, <2>4
    <2>6. PICK read \in Nat : read = n - l
      BY <2>5
    <2>7. read + k \in 1..n /\ ~(read + k <= read)
      BY <2>3, <2>4, <2>6
    <2>8. /\ events[k].gen = generation
          /\ Quiet(own[read + k]) \/ ~jobOpen
          /\ \A f \in events[k].files : f.gen = generation /\ f.worker = own[read + k]
      BY <2>2, <2>3, <2>6 DEF AnsweredBy
    <2>9. \A f \in block : \E i \in 1..n : i <= read /\ f.worker = own[i]
      BY <2>2, <2>3, <2>6 DEF AnsweredBy
    <2>10. \A i, j \in 1..n : own[i] = own[j] => i = j
      BY <2>2 DEF AnsweredBy
    <2>11. own[read + k] \in Workers /\ Spent(own[read + k])
      BY <2>2, <2>7 DEF AnsweredBy
    <2>12. rpc \notin {"scan", "open", "commit"}
      <3>1. CASE ~jobOpen
        BY <3>1 DEF PoolInv, ReaderInv
      <3>2. CASE Quiet(own[read + k])
        BY <2>11, <3>2 DEF Spent, Quiet, Gone, AfterBlock, Draining
      <3> QED
        BY <2>8, <3>1, <3>2
    <2>13. \A f \in events[k].files : f \notin block
      BY <2>7, <2>8, <2>9, <2>10
    <2> QED
      BY <2>8, <2>12, <2>13
  <1> QED
    BY <1>1, InductiveInvariant, PTL

(* A worker that takes up rows holds the context of their block. *)
THEOREM RowsFindBlock == Spec => []RowsFindTheirBlock
  <1>1. PoolInv => RowsFindTheirBlock
    <2> SUFFICES ASSUME PoolInv, NEW w \in Workers
                 PROVE  /\ wpc[w] = "work" /\ hand[w].type = "Rows" => ctxs[w] = {hand[w].gen}
                        /\ DOMAIN blocks[w] \subseteq ctxs[w]
      BY DEF RowsFindTheirBlock
    <2>1. PoolTypes /\ WorkerInv(w)
      BY DEF PoolInv, TypeOK
    <2> QED
      BY <2>1, BlocksTyped DEF WorkerInv, HandShape
  <1> QED
    BY <1>1, InductiveInvariant, PTL

(* Whatever fails, the event channel never holds more than one event of    *)
(* each worker, those about to be sent included: no worker ever waits for  *)
(* room in it, so the joins of execute() do not wait for a reader.         *)
THEOREM RoomForEvents == Spec => []EventRoom
  <1>1. PoolInv => EventRoom
    <2> SUFFICES ASSUME PoolInv PROVE EventRoom
      OBVIOUS
    <2>1. PICK n \in 0..Threads : \E own \in [1..n -> Workers] : AnsweredBy(n, own)
      BY DEF PoolInv, AnswersInv
    <2>2. PICK own \in [1..n -> Workers] : AnsweredBy(n, own)
      BY <2>1
    <2>3. PICK l \in Nat : l = Len(events)
      BY DEF PoolInv, TypeOK, PoolTypes
    <2>4. acked \in Nat /\ n \in Nat /\ acked <= n - l
      BY <2>2, <2>3, PoolAssumption DEF AnsweredBy, PoolInv, TypeOK, ReaderTypes
    <2>5. l <= n
      BY <2>3, <2>4
    <2> DEFINE S == {w \in Workers : wpc[w] \in {"send", "report"}}
               T == Workers \ S
    <2>6. IsFiniteSet(Workers) /\ Cardinality(Workers) = Threads
      BY FS_Interval, PoolAssumption DEF Workers
    <2>7. IsFiniteSet(S) /\ IsFiniteSet(T) /\ Cardinality(S) \in Nat /\ Cardinality(T) \in Nat
      BY <2>6, FS_Subset, FS_CardinalityType
    <2>8. Cardinality(Workers) = Cardinality(S) + Cardinality(T)
      <3>1. Workers = S \cup T /\ S \cap T = {}
        OBVIOUS
      <3>2. Cardinality(S \cup T) = Cardinality(S) + Cardinality(T) - Cardinality(S \cap T)
        BY <2>7, FS_Union
      <3>3. Cardinality(S \cap T) = 0
        BY <3>1, FS_EmptySet
      <3> HIDE DEF S, T
      <3>4. Cardinality(S \cup T) = Cardinality(S) + Cardinality(T)
        BY <2>7, <3>2, <3>3
      <3> QED
        BY <3>1, <3>4
    <2>9. \A i \in 1..n : own[i] \in T
      BY <2>2 DEF AnsweredBy, Spent, Gone, Quiet
    <2>10. own \in Injection(1..n, T)
      BY <2>2, <2>9 DEF AnsweredBy, Injection, IsInjective
    <2>11. n <= Cardinality(T)
      <3>1. Cardinality(1..n) = n
        BY <2>4, FS_Interval
      <3> QED
        BY <2>7, <2>10, <3>1, FS_Injection
    <2> HIDE DEF S, T
    <2>12. l + Cardinality(S) <= Threads
      BY <2>4, <2>5, <2>6, <2>7, <2>8, <2>11, PoolAssumption
    <2> QED
      BY <2>3, <2>12 DEF EventRoom, S
  <1> QED
    BY <1>1, InductiveInvariant, PTL
=============================================================================
