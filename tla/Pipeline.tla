------------------------------ MODULE Pipeline ------------------------------
(***************************************************************************)
(* One load (src/pipeline.rs): execute() spawns the decode pool, drive()   *)
(* is the reader on the calling thread, worker()/worker_loop() the pool.   *)
(*                                                                         *)
(* The reader walks the events of the scanner, hands the COPY payloads of  *)
(* a block round robin to the workers, closes the block with a barrier (a  *)
(* Close to every worker, a Closed from every worker), and commits the     *)
(* tables once the whole dump has been read.  Channels are used through    *)
(* the contract of BlockingChan: a send or a receive is one step, enabled  *)
(* when the call would return.                                             *)
(*                                                                         *)
(* A dump is the sequence of the scanner's events, with a "chunk" event    *)
(* where a chunk ends: there the progress callback runs and the next chunk *)
(* is read and scanned.  A payload is identified by its place in the dump. *)
(***************************************************************************)
EXTENDS Naturals, Sequences, FiniteSets, Functions, TLC

CONSTANTS Threads,             \* LoadConfig.threads, resolved
          QueueDepth,          \* QUEUE_DEPTH, jobs queued per worker
          CommitConcurrency,   \* LoadConfig.commit_concurrency, resolved
          Tables,
          Wanted,              \* tables the allow-list and the schema filter let through
          Reserved,            \* names the manifest reserves
          Dumps,               \* the dumps a load may be given
          NoTable

ASSUME PoolAssumption == /\ Threads \in Nat \ {0}
                         /\ QueueDepth \in Nat \ {0}
                         /\ CommitConcurrency \in Nat \ {0}

ASSUME TablesAssumption == Wanted \subseteq Tables /\ Reserved \subseteq Tables /\ NoTable \notin Tables

DumpEvents == [type : {"chunk"}] \cup [type : {"version"}, ok : BOOLEAN]
                \cup [type : {"table", "start", "end"}, table : Tables]
                \cup [type : {"rows"}, bad : BOOLEAN]

(* Event i of d lies in the COPY block that event j starts. *)
BlockStart(d, i, j) == /\ j \in 1..(i - 1)
                       /\ d[j].type = "start"
                       /\ \A k \in (j + 1)..(i - 1) : d[k].type \notin {"start", "end"}

Inside(d, i) == \E j \in 1..(i - 1) : BlockStart(d, i, j)

(***************************************************************************)
(* What the scanner guarantees of the events it returns (EventsAreBracketed *)
(* of DumpScan): rows and the end of a block come inside that block, and   *)
(* blocks are not nested.                                                  *)
(***************************************************************************)
ASSUME DumpsAssumption == \A d \in Dumps :
    /\ d \in Seq(DumpEvents)
    /\ \A i \in 1..Len(d) :
         /\ d[i].type \in {"rows", "end"} => Inside(d, i)
         /\ d[i].type = "start" => ~Inside(d, i)
         /\ d[i].type = "end" => \A j \in 1..(i - 1) : BlockStart(d, i, j) => d[j].table = d[i].table

VARIABLES
    dump,       \* the dump of this load
    rpc,        \* where the reader is
    pos,        \* the event the reader handles next
    version,    \* dumped_by is known
    defs,       \* table_defs
    preload,    \* preloads: the background table look-ups
    skipping,
    current,    \* the open block's table (OpenBlock.qualified), or NoTable
    generation,
    rr,         \* round_robin % threads
    widx,       \* the worker the current broadcast has reached
    acked,      \* workers that have closed the block
    block,      \* block_actions: files acknowledged so far
    staged,     \* staged actions per table
    opened,     \* open_tables
    commits,    \* the fate of each commit of phase two
    outcome,    \* what execute() will return
    jobOpen,    \* job_tx is not dropped yet
    jobs,       \* per worker: its job channel
    events,     \* the event channel
    wpc,        \* where each worker is
    hand,       \* the job or event a worker holds
    ctxs,       \* per worker: generations it has a BlockCtx for
    blocks,     \* per worker: WorkerBlock per generation, as the payloads in it
    visible     \* the committed contents of each table

readerVars == <<rpc, pos, version, defs, skipping, current, generation, rr, widx, acked,
                block, staged, opened, outcome, jobOpen>>
workerVars == <<wpc, hand, ctxs, blocks>>
vars == <<dump, readerVars, preload, commits, jobs, events, workerVars, visible>>

Workers == 1..Threads

EventCapacity == Threads * 2 + 4

Nothing == [type |-> "Nothing"]

-----------------------------------------------------------------------------
Init == /\ dump \in Dumps
        /\ rpc = "start"
        /\ pos = 1
        /\ version = FALSE
        /\ defs = {}
        /\ preload = [t \in Tables |-> "none"]
        /\ skipping = FALSE
        /\ current = NoTable
        /\ generation = 0
        /\ rr = 0
        /\ widx = 1
        /\ acked = 0
        /\ block = {}
        /\ staged = [t \in Tables |-> {}]
        /\ opened = <<>>
        /\ commits = <<>>
        /\ outcome = "running"
        /\ jobOpen = TRUE
        /\ jobs = [w \in Workers |-> <<>>]
        /\ events = <<>>
        /\ wpc = [w \in Workers |-> "recv"]
        /\ hand = [w \in Workers |-> Nothing]
        /\ ctxs = [w \in Workers |-> {}]
        /\ blocks = [w \in Workers |-> <<>>]
        /\ visible = [t \in Tables |-> [loaded |-> FALSE, files |-> {}]]

(***************************************************************************)
(* The two channels.  A job send succeeds while the worker's Receiver is   *)
(* alive and there is room, and fails once the Receiver is dropped.  An    *)
(* event receive returns None once every worker has dropped its Senders.   *)
(***************************************************************************)
AcceptsOneMore(w) == wpc[w] # "exit" /\ Len(jobs[w]) <= QueueDepth   \* mutant
Accepts(w) == wpc[w] # "exit" /\ Len(jobs[w]) < QueueDepth
Refuses(w) == wpc[w] = "exit"

EventReady == events # <<>> \/ \A w \in Workers : wpc[w] \in {"leaving", "exit"}
EventTaken == IF events = <<>> THEN [type |-> "None"] ELSE Head(events)
EventsLeft == IF events = <<>> THEN events ELSE Tail(events)

(* drive() returns: execute() goes on to shut the pool down. *)
Return(e) == outcome' = e /\ rpc' = "shutdown"

At(kind) == rpc = "scan" /\ pos <= Len(dump) /\ dump[pos].type = kind

-----------------------------------------------------------------------------
(* The source is opened, its compression detected, its first chunk read.   *)
OpenInput == /\ rpc = "start"
             /\ \/ rpc' = "scan" /\ UNCHANGED outcome
                \/ Return("OpenFailed")
             /\ UNCHANGED <<dump, pos, version, defs, preload, skipping, current, generation, rr,
                            widx, acked, block, staged, opened, commits, jobOpen, jobs, events,
                            workerVars, visible>>

(* A chunk ends: the caller may interrupt, the next read or scan may fail. *)
EndOfChunk == /\ At("chunk")
              /\ \/ pos' = pos + 1 /\ UNCHANGED <<rpc, outcome>>
                 \/ Return("Interrupted") /\ UNCHANGED pos
                 \/ Return("ReadFailed") /\ UNCHANGED pos
              /\ UNCHANGED <<dump, version, defs, preload, skipping, current, generation, rr,
                             widx, acked, block, staged, opened, commits, jobOpen, jobs, events,
                             workerVars, visible>>

DumpVersion == /\ At("version")
               /\ \/ dump[pos].ok /\ version' = TRUE /\ pos' = pos + 1 /\ UNCHANGED <<rpc, outcome>>
                  \/ ~dump[pos].ok /\ Return("UnsupportedDumpVersion") /\ UNCHANGED <<version, pos>>
               /\ UNCHANGED <<dump, defs, preload, skipping, current, generation, rr, widx, acked,
                              block, staged, opened, commits, jobOpen, jobs, events, workerVars,
                              visible>>

(* CREATE TABLE: a permit of the semaphore, then the look-up is spawned.   *)
Table == /\ At("table")
         /\ LET t == dump[pos].table IN
            /\ \/ /\ t \in Wanted
                  /\ Cardinality({x \in Tables : preload[x] = "running"}) < CommitConcurrency
                  /\ preload' = [preload EXCEPT ![t] = "running"]
               \/ t \notin Wanted /\ UNCHANGED preload
            /\ defs' = defs \cup {t}
         /\ pos' = pos + 1
         /\ UNCHANGED <<dump, rpc, version, skipping, current, generation, rr, widx, acked, block,
                        staged, opened, commits, outcome, jobOpen, jobs, events, workerVars,
                        visible>>

PreloadDone(t) == /\ preload[t] = "running"
                  /\ \E result \in {"loaded", "failed"} : preload' = [preload EXCEPT ![t] = result]
                  /\ UNCHANGED <<dump, readerVars, commits, jobs, events, workerVars, visible>>

(***************************************************************************)
(* CopyStart.  A reserved name and an unknown table fail; a table that is  *)
(* not wanted is skipped; otherwise the reader waits for the preload, and  *)
(* finishes the open, which may fail, before it broadcasts Open.           *)
(***************************************************************************)
CopyStart == /\ At("start")
             /\ LET t == dump[pos].table IN
                \/ /\ t \in Reserved
                   /\ Return("UnsafeTableName")
                   /\ UNCHANGED <<pos, preload, skipping, generation, widx, opened>>
                \/ /\ t \notin Reserved \cup Wanted
                   /\ skipping' = TRUE
                   /\ pos' = pos + 1
                   /\ UNCHANGED <<rpc, preload, generation, widx, opened, outcome>>
                \/ /\ t \in Wanted \ (Reserved \cup defs)
                   /\ Return("MalformedCreateTable")
                   /\ UNCHANGED <<pos, preload, skipping, generation, widx, opened>>
                \/ /\ t \in (Wanted \cap defs) \ Reserved
                   /\ preload[t] # "running"
                   /\ preload' = [preload EXCEPT ![t] = "none"]
                   /\ \/ /\ preload[t] # "failed"
                         /\ opened' = Append(opened, t)
                         /\ generation' = generation + 1
                         /\ widx' = 1
                         /\ rpc' = "open"
                         /\ UNCHANGED outcome
                      \/ /\ Return("TableOpenFailed")
                         /\ UNCHANGED <<opened, generation, widx>>
                   /\ UNCHANGED <<pos, skipping>>
             /\ UNCHANGED <<dump, version, defs, current, rr, acked, block, staged, commits,
                            jobOpen, jobs, events, workerVars, visible>>

(* dispatch() of one job of a broadcast to worker widx, then `done`.       *)
Broadcast(label, job, done) ==
    /\ rpc = label
    /\ \/ /\ Accepts(widx)
          /\ jobs' = [jobs EXCEPT ![widx] = Append(@, job)]
          /\ IF widx < Threads THEN widx' = widx + 1 /\ UNCHANGED rpc
                               ELSE widx' = 1 /\ rpc' = done
       \/ /\ Refuses(widx)
          /\ rpc' = "cause"
          /\ UNCHANGED <<jobs, widx>>

BroadcastOpen == /\ Broadcast("open", [type |-> "Open", gen |-> generation], "scan")
                 /\ IF rpc' = "scan" THEN /\ current' = dump[pos].table
                                          /\ rr' = 0
                                          /\ pos' = pos + 1
                                      ELSE UNCHANGED <<current, rr, pos>>
                 /\ UNCHANGED <<dump, version, defs, preload, skipping, generation, acked,
                                block, staged, opened, commits, outcome, jobOpen, events,
                                workerVars, visible>>

(* CopyRows: skipped, or dispatched to the next worker of the round robin. *)
CopyRows == /\ At("rows")
            /\ \/ /\ skipping
                  /\ pos' = pos + 1
                  /\ UNCHANGED <<rpc, rr, jobs>>
               \/ /\ ~skipping
                  /\ Accepts(rr + 1)
                  /\ jobs' = [jobs EXCEPT ![rr + 1] = Append(@,
                                [type |-> "Rows", gen |-> generation, id |-> pos, bad |-> dump[pos].bad])]
                  /\ rr' = (rr + 1) % Threads
                  /\ pos' = pos + 1
                  /\ UNCHANGED rpc
               \/ /\ ~skipping
                  /\ Refuses(rr + 1)
                  /\ rpc' = "cause"
                  /\ UNCHANGED <<pos, rr, jobs>>
            /\ UNCHANGED <<dump, version, defs, preload, skipping, current, generation, widx, acked,
                           block, staged, opened, commits, outcome, jobOpen, events, workerVars,
                           visible>>

(* CopyEnd: a skipped block just ends, an open one is closed everywhere.   *)
CopyEnd == /\ At("end")
           /\ \/ skipping /\ skipping' = FALSE /\ pos' = pos + 1 /\ UNCHANGED <<rpc, current, acked, block, widx>>
              \/ /\ ~skipping
                 /\ rpc' = "close"
                 /\ current' = NoTable
                 /\ widx' = 1
                 /\ acked' = 0
                 /\ block' = {}
                 /\ UNCHANGED <<skipping, pos>>
           /\ UNCHANGED <<dump, version, defs, preload, generation, rr, staged, opened, commits,
                           outcome, jobOpen, jobs, events, workerVars, visible>>

BroadcastClose == /\ Broadcast("close", [type |-> "Close", gen |-> generation], "acks")
                  /\ UNCHANGED <<dump, pos, version, defs, preload, skipping, current, generation,
                                 rr, acked, block, staged, opened, commits, outcome, jobOpen,
                                 events, workerVars, visible>>

(* Mutant: the barrier lets go one answer early. *)
AwaitAckEarly ==
    /\ rpc = "acks"
    /\ EventReady
    /\ events' = EventsLeft
    /\ LET e == EventTaken IN
       \/ /\ e.type # "Closed"
          /\ Return(IF e.type = "Failed" THEN e.cause ELSE "PoolStopped")
          /\ UNCHANGED <<acked, block, staged, pos>>
       \/ /\ e.type = "Closed"
          /\ acked + 2 < Threads
          /\ acked' = acked + 1
          /\ block' = block \cup e.files
          /\ UNCHANGED <<staged, pos, rpc, outcome>>
       \/ /\ e.type = "Closed"
          /\ acked + 2 = Threads
          /\ acked' = 0
          /\ block' = {}
          /\ staged' = [staged EXCEPT ![dump[pos].table] = @ \cup block \cup e.files]
          /\ pos' = pos + 1 /\ rpc' = "scan" /\ UNCHANGED outcome
    /\ UNCHANGED <<dump, version, defs, preload, skipping, current, generation, rr, widx, opened,
                   commits, jobOpen, jobs, workerVars, visible>>

(***************************************************************************)
(* The barrier: one event at a time until every worker has answered; then  *)
(* the files are staged and the progress callback may interrupt.           *)
(***************************************************************************)
AwaitAck == /\ rpc = "acks"
            /\ EventReady
            /\ events' = EventsLeft
            /\ LET e == EventTaken IN
               \/ /\ e.type # "Closed"
                  /\ Return(IF e.type = "Failed" THEN e.cause ELSE "PoolStopped")
                  /\ UNCHANGED <<acked, block, staged, pos>>
               \/ /\ e.type = "Closed"
                  /\ acked + 1 < Threads
                  /\ acked' = acked + 1
                  /\ block' = block \cup e.files
                  /\ UNCHANGED <<staged, pos, rpc, outcome>>
               \/ /\ e.type = "Closed"
                  /\ acked + 1 = Threads
                  /\ acked' = 0
                  /\ block' = {}
                  /\ staged' = [staged EXCEPT ![dump[pos].table] = @ \cup block \cup e.files]
                  /\ \/ pos' = pos + 1 /\ rpc' = "scan" /\ UNCHANGED outcome
                     \/ Return("Interrupted") /\ UNCHANGED pos
            /\ UNCHANGED <<dump, version, defs, preload, skipping, current, generation, rr, widx,
                           opened, commits, jobOpen, jobs, workerVars, visible>>

(* The error arm of dispatch(): whatever event comes next is the cause.    *)
TakeCause == /\ rpc = "cause"
             /\ EventReady
             /\ events' = EventsLeft
             /\ Return(IF EventTaken.type = "Failed" THEN EventTaken.cause ELSE "PoolStopped")
             /\ UNCHANGED <<dump, pos, version, defs, preload, skipping, current, generation, rr,
                            widx, acked, block, staged, opened, commits, jobOpen, jobs, workerVars,
                            visible>>

(* Mutant: Scanner::finish is not called. *)
EndOfDumpUnchecked ==
    /\ rpc = "scan"
    /\ pos > Len(dump)
    /\ preload' = [t \in Tables |-> "none"]
    /\ \/ /\ ~version
          /\ Return("MissingDumpVersion")
          /\ UNCHANGED commits
       \/ /\ version
          /\ rpc' = "commit"
          /\ commits' = [i \in DOMAIN opened |-> "todo"]
          /\ UNCHANGED outcome
    /\ UNCHANGED <<dump, pos, version, defs, skipping, current, generation, rr, widx, acked, block,
                   staged, opened, jobOpen, jobs, events, workerVars, visible>>

(***************************************************************************)
(* The stream is exhausted: left-over preloads are aborted, and a dump cut *)
(* inside a COPY block or without a version never reaches phase two.       *)
(***************************************************************************)
EndOfDump == /\ rpc = "scan"
             /\ pos > Len(dump)
             /\ preload' = [t \in Tables |-> "none"]
             /\ \/ /\ current # NoTable \/ skipping
                   /\ Return("UnterminatedCopy")
                   /\ UNCHANGED commits
                \/ /\ current = NoTable /\ ~skipping
                   /\ ~version
                   /\ Return("MissingDumpVersion")
                   /\ UNCHANGED commits
                \/ /\ current = NoTable /\ ~skipping
                   /\ version
                   /\ rpc' = "commit"
                   /\ commits' = [i \in DOMAIN opened |-> "todo"]
                   /\ UNCHANGED outcome
             /\ UNCHANGED <<dump, pos, version, defs, skipping, current, generation, rr, widx,
                            acked, block, staged, opened, jobOpen, jobs, events, workerVars,
                            visible>>

-----------------------------------------------------------------------------
(* Phase two: buffer_unordered starts the commits in order, at most        *)
(* CommitConcurrency at a time, and goes on after one has failed.          *)
CommitStart(i) == /\ rpc = "commit"
                  /\ commits[i] = "todo"
                  /\ \A j \in 1..(i - 1) : commits[j] # "todo"
                  /\ Cardinality({j \in DOMAIN commits : commits[j] = "running"}) < CommitConcurrency
                  /\ commits' = [commits EXCEPT ![i] = "running"]
                  /\ UNCHANGED <<dump, readerVars, preload, jobs, events, workerVars, visible>>

(* The hand-over of the staged actions as phase two begins: staged.remove() *)
(* gives those of a table to its first target, and a later target of the   *)
(* same table finds none left.  (staged does not change in phase two.)     *)
FirstTarget(i) == \A j \in 1..(i - 1) : opened[j] # opened[i]
Actions(i) == IF FirstTarget(i) THEN staged[opened[i]] ELSE {}

(* commit_table: the log entry lands or not; an entry that landed may still *)
(* be reported as an error, when the table cannot be reloaded after it.    *)
CommitDone(i) == /\ commits[i] = "running"
                 /\ \/ /\ visible' = [visible EXCEPT ![opened[i]] =
                                        [loaded |-> TRUE, files |-> @.files \cup Actions(i)]]
                       /\ \E result \in {"ok", "err"} : commits' = [commits EXCEPT ![i] = result]
                    \/ commits' = [commits EXCEPT ![i] = "err"] /\ UNCHANGED visible
                 /\ UNCHANGED <<dump, readerVars, preload, jobs, events, workerVars>>

(* Mutant: a failed commit is forgotten. *)
CommitsOverOptimistic ==
    /\ rpc = "commit"
    /\ \A i \in DOMAIN commits : commits[i] \in {"ok", "err"}
    /\ Return("ok")
    /\ UNCHANGED <<dump, pos, version, defs, preload, skipping, current, generation, rr, widx,
                   acked, block, staged, opened, commits, jobOpen, jobs, events, workerVars,
                   visible>>

(* Every commit is over: the first error is returned, or the history row   *)
(* of this load is appended, which may fail too.                           *)
CommitsOver == /\ rpc = "commit"
               /\ \A i \in DOMAIN commits : commits[i] \in {"ok", "err"}
               /\ \/ /\ \E i \in DOMAIN commits : commits[i] = "err"
                     /\ Return("CommitFailed")
                  \/ /\ \A i \in DOMAIN commits : commits[i] = "ok"
                     /\ Return("ok") \/ Return("ManifestFailed")
               /\ UNCHANGED <<dump, pos, version, defs, preload, skipping, current, generation,
                              rr, widx, acked, block, staged, opened, commits, jobOpen, jobs,
                              events, workerVars, visible>>

(* execute() drops every job Sender, then joins every worker.              *)
Shutdown == /\ rpc = "shutdown"
            /\ jobOpen' = FALSE
            /\ rpc' = "join"
            /\ UNCHANGED <<dump, pos, version, defs, preload, skipping, current, generation, rr,
                           widx, acked, block, staged, opened, commits, outcome, jobs, events,
                           workerVars, visible>>

Join == /\ rpc = "join"
        /\ \A w \in Workers : wpc[w] = "exit"
        /\ rpc' = "done"
        /\ preload' = [t \in Tables |-> "none"]
        /\ UNCHANGED <<dump, pos, version, defs, skipping, current, generation, rr, widx, acked,
                       block, staged, opened, commits, outcome, jobOpen, jobs, events, workerVars,
                       visible>>

-----------------------------------------------------------------------------
(***************************************************************************)
(* A worker: "recv" waits for a job, "work" handles it, "send" answers a   *)
(* Close, "report" sends the failure, then "leaving" has dropped its event *)
(* Senders and "exit" its job Receiver too.                                *)
(***************************************************************************)
WorkerRecv(w) == /\ wpc[w] = "recv"
                 /\ \/ /\ jobs[w] # <<>>
                       /\ hand' = [hand EXCEPT ![w] = Head(jobs[w])]
                       /\ jobs' = [jobs EXCEPT ![w] = Tail(@)]
                       /\ wpc' = [wpc EXCEPT ![w] = "work"]
                    \/ /\ jobs[w] = <<>>
                       /\ ~jobOpen
                       /\ wpc' = [wpc EXCEPT ![w] = "leaving"]
                       /\ UNCHANGED <<hand, jobs>>
                 /\ UNCHANGED <<dump, readerVars, preload, commits, events, ctxs, blocks, visible>>

WorkerOpen(w) == /\ wpc[w] = "work"
                 /\ hand[w].type = "Open"
                 /\ ctxs' = [ctxs EXCEPT ![w] = @ \cup {hand[w].gen}]
                 /\ hand' = [hand EXCEPT ![w] = Nothing]
                 /\ wpc' = [wpc EXCEPT ![w] = "recv"]
                 /\ UNCHANGED <<dump, readerVars, preload, commits, jobs, events, blocks, visible>>

(* Mutant: a worker that fails says nothing. *)
WorkerFailsSilently(w, cause) == /\ hand' = [hand EXCEPT ![w] = Nothing]
                                 /\ wpc' = [wpc EXCEPT ![w] = "leaving"]
                                 /\ ctxs' = [ctxs EXCEPT ![w] = {}]
                                 /\ blocks' = [blocks EXCEPT ![w] = <<>>]

(* The worker fails: a row does not decode, storage fails, or it panics.   *)
WorkerFails(w, cause) == /\ hand' = [hand EXCEPT ![w] = [type |-> "Failed", cause |-> cause]]
                         /\ wpc' = [wpc EXCEPT ![w] = "report"]
                         /\ ctxs' = [ctxs EXCEPT ![w] = {}]
                         /\ blocks' = [blocks EXCEPT ![w] = <<>>]

PayloadsOf(w, g) == IF g \in DOMAIN blocks[w] THEN blocks[w][g] ELSE <<>>

(* The blocks of w once payload i has gone to its WorkerBlock of g. *)
BlocksWith(w, g, i) == [x \in (DOMAIN blocks[w]) \cup {g} |->
                          IF x = g THEN Append(PayloadsOf(w, g), i) ELSE blocks[w][x]]

(* Mutant: a second payload starts the WorkerBlock anew. *)
WorkerRowsReplaces(w) ==
    /\ wpc[w] = "work"
    /\ hand[w].type = "Rows"
    /\ LET g == hand[w].gen IN
       \/ /\ ~hand[w].bad
          /\ blocks' = [blocks EXCEPT ![w] = (g :> <<hand[w].id>>) @@ @]
          /\ hand' = [hand EXCEPT ![w] = Nothing]
          /\ wpc' = [wpc EXCEPT ![w] = "recv"]
          /\ UNCHANGED ctxs
       \/ hand[w].bad /\ WorkerFails(w, "BadRow")
    /\ UNCHANGED <<dump, readerVars, preload, commits, jobs, events, visible>>

WorkerRows(w) == /\ wpc[w] = "work"
                 /\ hand[w].type = "Rows"
                 /\ LET g == hand[w].gen
                        known == g \in ctxs[w] IN
                    \/ /\ known /\ ~hand[w].bad
                       /\ blocks' = [blocks EXCEPT ![w] = BlocksWith(w, g, hand[w].id)]
                       /\ hand' = [hand EXCEPT ![w] = Nothing]
                       /\ wpc' = [wpc EXCEPT ![w] = "recv"]
                       /\ UNCHANGED ctxs
                    \/ (~known \/ hand[w].bad) /\ WorkerFails(w, IF known THEN "BadRow" ELSE "PoolStopped")
                    \/ known /\ WorkerFails(w, "StorageFailed")
                 /\ UNCHANGED <<dump, readerVars, preload, commits, jobs, events, visible>>

(* Mutant: the context of a closed block is kept. *)
WorkerCloseKeepsCtx(w) ==
    /\ wpc[w] = "work"
    /\ hand[w].type = "Close"
    /\ LET g == hand[w].gen IN
       /\ hand' = [hand EXCEPT ![w] =
                     [type |-> "Closed", gen |-> g,
                      files |-> IF g \notin DOMAIN blocks[w] THEN {}
                                ELSE {[gen |-> g, worker |-> w, rows |-> blocks[w][g]]}]]
       /\ blocks' = [blocks EXCEPT ![w] = Restrict(@, DOMAIN @ \ {g})]
       /\ wpc' = [wpc EXCEPT ![w] = "send"]
    /\ UNCHANGED <<dump, readerVars, preload, commits, jobs, events, ctxs, visible>>

(* Close: what is left is flushed and staged, as one file per worker here; *)
(* a worker that got no payload of the block answers with no file.         *)
WorkerClose(w) == /\ wpc[w] = "work"
                  /\ hand[w].type = "Close"
                  /\ LET g == hand[w].gen IN
                        \/ /\ ctxs' = [ctxs EXCEPT ![w] = @ \ {g}]
                           /\ hand' = [hand EXCEPT ![w] =
                                         [type |-> "Closed", gen |-> g,
                                          files |-> IF g \notin DOMAIN blocks[w] THEN {}
                                                    ELSE {[gen |-> g, worker |-> w, rows |-> blocks[w][g]]}]]
                           /\ blocks' = [blocks EXCEPT ![w] = Restrict(@, DOMAIN @ \ {g})]
                           /\ wpc' = [wpc EXCEPT ![w] = "send"]
                        \/ g \in DOMAIN blocks[w] /\ WorkerFails(w, "StorageFailed")
                  /\ UNCHANGED <<dump, readerVars, preload, commits, jobs, events, visible>>

(* Mutant: a worker that has failed goes on. *)
WorkerSendGoesOn(w) == /\ wpc[w] \in {"send", "report"}
                       /\ Len(events) < EventCapacity
                       /\ events' = Append(events, hand[w])
                       /\ hand' = [hand EXCEPT ![w] = Nothing]
                       /\ wpc' = [wpc EXCEPT ![w] = "recv"]
                       /\ UNCHANGED <<dump, readerVars, preload, commits, jobs, ctxs, blocks, visible>>

(* A send to the event channel, whose Receiver outlives every worker.      *)
WorkerSend(w) == /\ wpc[w] \in {"send", "report"}
                 /\ Len(events) < EventCapacity
                 /\ events' = Append(events, hand[w])
                 /\ hand' = [hand EXCEPT ![w] = Nothing]
                 /\ wpc' = [wpc EXCEPT ![w] = IF @ = "send" THEN "recv" ELSE "leaving"]
                 /\ UNCHANGED <<dump, readerVars, preload, commits, jobs, ctxs, blocks, visible>>

WorkerExit(w) == /\ wpc[w] = "leaving"
                 /\ wpc' = [wpc EXCEPT ![w] = "exit"]
                 /\ ctxs' = [ctxs EXCEPT ![w] = {}]
                 /\ blocks' = [blocks EXCEPT ![w] = <<>>]
                 /\ UNCHANGED <<dump, readerVars, preload, commits, jobs, events, hand, visible>>

-----------------------------------------------------------------------------
Reader == \/ OpenInput \/ EndOfChunk \/ DumpVersion \/ Table \/ CopyStart \/ BroadcastOpen
          \/ CopyRows \/ CopyEnd \/ BroadcastClose \/ AwaitAck \/ TakeCause \/ EndOfDump
          \/ CommitsOver \/ Shutdown \/ Join

Worker(w) == \/ WorkerRecv(w) \/ WorkerOpen(w) \/ WorkerRows(w) \/ WorkerClose(w)
             \/ WorkerSend(w) \/ WorkerExit(w)

Commit(i) == CommitStart(i) \/ CommitDone(i)

Next == \/ Reader
        \/ \E w \in Workers : Worker(w)
        \/ \E t \in Tables : PreloadDone(t)
        \/ \E i \in DOMAIN commits : Commit(i)

(***************************************************************************)
(* Every thread and task that can go on does.  The calls that may fail     *)
(* (reads, storage, the callback) return one way or the other.             *)
(***************************************************************************)
Fairness == /\ WF_vars(Reader)
            /\ \A w \in Workers : WF_vars(Worker(w))
            /\ \A t \in Tables : WF_vars(PreloadDone(t))
            /\ WF_vars(\E i \in DOMAIN commits : Commit(i))

Spec == Init /\ [][Next]_vars /\ Fairness

-----------------------------------------------------------------------------
(***************************************************************************)
(* Properties                                                              *)
(***************************************************************************)

Jobs == [type : {"Open", "Close"}, gen : Nat]
          \cup [type : {"Rows"}, gen : Nat, id : Nat, bad : BOOLEAN]

Files == [gen : Nat, worker : Workers, rows : Seq(Nat)]

Causes == {"BadRow", "StorageFailed", "PoolStopped"}

Messages == [type : {"Failed"}, cause : Causes] \cup [type : {"Closed"}, gen : Nat, files : SUBSET Files]

ReaderTypes ==
    /\ dump \in Dumps
    /\ rpc \in {"start", "scan", "open", "close", "acks", "cause", "commit", "shutdown", "join", "done"}
    /\ pos \in 1..(Len(dump) + 1)
    /\ defs \subseteq Tables
    /\ preload \in [Tables -> {"none", "running", "loaded", "failed"}]
    /\ current \in Tables \cup {NoTable}
    /\ generation \in Nat /\ rr \in 0..(Threads - 1) /\ widx \in Workers
    /\ acked \in 0..(Threads - 1)
    /\ block \in SUBSET Files
    /\ staged \in [Tables -> SUBSET Files]
    /\ opened \in Seq(Tables)
    /\ commits \in Seq({"todo", "running", "ok", "err"})

PoolTypes ==
    /\ jobs \in [Workers -> Seq(Jobs)]
    /\ \A w \in Workers : Len(jobs[w]) <= QueueDepth
    /\ events \in Seq(Messages)
    /\ wpc \in [Workers -> {"recv", "work", "send", "report", "leaving", "exit"}]
    /\ hand \in [Workers -> Jobs \cup Messages \cup {Nothing}]
    /\ \A w \in Workers : /\ wpc[w] = "work" => hand[w] \in Jobs
                          /\ wpc[w] \in {"send", "report"} => hand[w] \in Messages
    /\ ctxs \in [Workers -> SUBSET Nat]
    /\ DOMAIN blocks = Workers
    /\ \A w \in Workers : \E D \in SUBSET ctxs[w] : blocks[w] \in [D -> Seq(Nat)]

(* Types, the depth of the job queues, and the range of the barrier's count. *)
TypeOK == ReaderTypes /\ PoolTypes

(* A worker never blocks on the event channel, so the join at the end of   *)
(* execute() cannot hang on one ("the event channel has room for a final   *)
(* event from each"): with nobody reading any more, the events of a block  *)
(* and the failures together are at most one per worker.                   *)
EventRoom == Len(events) + Cardinality({w \in Workers : wpc[w] \in {"send", "report"}}) <= Threads

(* The debug_assert of the barrier, for every answer under way: a Closed   *)
(* answers the Close of the block that the reader is closing, never that   *)
(* of an earlier one, a worker answers once, and none is left unread when  *)
(* the reader goes on to the next event.                                   *)
AnswersMatchBlock ==
    \A k \in DOMAIN events : events[k].type = "Closed" =>
        /\ events[k].gen = generation
        /\ rpc \notin {"scan", "open", "commit"}
        /\ \A f \in events[k].files : f.gen = generation /\ f \notin block

(* ctxs.get(&generation) never misses in worker_loop: when a worker takes  *)
(* up rows it holds the context of their block, and of no other block.     *)
RowsFindTheirBlock ==
    \A w \in Workers : /\ wpc[w] = "work" /\ hand[w].type = "Rows" => ctxs[w] = {hand[w].gen}
                       /\ DOMAIN blocks[w] \subseteq ctxs[w]

(* The load has failed or is over: the reader only waits for the pool. *)
Draining == {"cause", "shutdown", "join", "done"}

(***************************************************************************)
(* The inductive invariant.  First, where the reader is with worker w: it  *)
(* has not sent w the Open of a block, has sent it but no Close, or will   *)
(* send it nothing more before the barrier.                                *)
(***************************************************************************)
BeforeBlock(w) == \/ rpc \in {"start", "commit"}
                  \/ rpc = "scan" /\ current = NoTable
                  \/ rpc = "open" /\ widx <= w

InBlock(w) == \/ rpc = "scan" /\ current # NoTable
              \/ rpc = "open" /\ w < widx
              \/ rpc = "close" /\ widx <= w

AfterBlock(w) == \/ rpc \in Draining \cup {"acks"}
                 \/ rpc = "close" /\ w < widx

Live(w) == wpc[w] \in {"recv", "work", "send"}
Gone(w) == wpc[w] \in {"leaving", "exit"}

(* The worker has nothing to do and remembers no block. *)
Quiet(w) == wpc[w] = "recv" /\ jobs[w] = <<>> /\ ctxs[w] = {}

(* The worker has the context of the block, or finds its Open next. *)
Entered(w) == \/ ctxs[w] = {generation}
              \/ wpc[w] = "work" /\ hand[w].type = "Open"
              \/ wpc[w] = "recv" /\ jobs[w] # <<>> /\ jobs[w][1].type = "Open"

(* What is queued for a worker is Open, Rows.. and Close of this block, in *)
(* this order, less what the worker has taken.                             *)
QueueShape(w) ==
    \A k \in DOMAIN jobs[w] :
        /\ jobs[w][k].gen = generation
        /\ jobs[w][k].type = "Open" => k = 1 /\ wpc[w] = "recv" /\ ctxs[w] = {}
        /\ jobs[w][k].type # "Open" => Entered(w)
        /\ jobs[w][k].type = "Close" => k = Len(jobs[w]) /\ AfterBlock(w)

HandShape(w) ==
    /\ wpc[w] = "work" =>
         /\ hand[w].gen = generation
         /\ hand[w].type = "Open" => ctxs[w] = {}
         /\ hand[w].type # "Open" => ctxs[w] = {generation}
         /\ hand[w].type = "Close" => jobs[w] = <<>> /\ AfterBlock(w)
    /\ wpc[w] = "send" =>
         /\ jobs[w] = <<>> /\ ctxs[w] = {} /\ AfterBlock(w)
         /\ hand[w].type = "Closed" /\ hand[w].gen = generation
         /\ \A f \in hand[w].files : f.gen = generation /\ f.worker = w
    /\ wpc[w] = "report" => hand[w].type = "Failed"

WorkerInv(w) == /\ ctxs[w] \subseteq {generation}
                /\ BeforeBlock(w) => Quiet(w)
                /\ InBlock(w) /\ Live(w) => Entered(w)
                /\ Live(w) => QueueShape(w)
                /\ HandShape(w)

(* Events carry no worker: own names, in the order of their events, the    *)
(* workers that have sent one for this block, so that each has sent only   *)
(* one; the last of them are the owners of the unread events.              *)
Spent(w) == Gone(w) \/ (Quiet(w) /\ AfterBlock(w))

AnsweredBy(n, own) ==
    LET read == n - Len(events) IN
    /\ acked <= read
    /\ \A i, j \in 1..n : own[i] = own[j] => i = j
    /\ \A i \in 1..n : Spent(own[i])
    /\ rpc \notin Draining => \A i \in 1..n : i <= read => Quiet(own[i])
    /\ \A k \in 1..Len(events) :
         \/ events[k].type = "Failed" /\ Gone(own[read + k])
         \/ /\ events[k].type = "Closed" /\ events[k].gen = generation
            /\ Quiet(own[read + k]) \/ ~jobOpen
            /\ \A f \in events[k].files : f.gen = generation /\ f.worker = own[read + k]
    /\ \A f \in block : \E i \in 1..n : i <= read /\ f.worker = own[i]

AnswersInv == \E n \in 0..Threads : \E own \in [1..n -> Workers] : AnsweredBy(n, own)

(* The reader follows the brackets of the dump. *)
ReaderInv ==
    /\ rpc = "start" => pos = 1 /\ ~skipping /\ current = NoTable
    /\ rpc = "scan" => /\ Inside(dump, pos) <=> skipping \/ current # NoTable
                       /\ ~skipping \/ current = NoTable
    /\ rpc \in {"open", "close", "acks"} => pos <= Len(dump) /\ ~skipping /\ current = NoTable
    /\ rpc = "open" => dump[pos].type = "start"
    /\ rpc \in {"close", "acks"} => dump[pos].type = "end"
    /\ ~jobOpen => rpc \in {"join", "done"}

(* The part about the protocol, which every step preserves. *)
PoolInv == /\ TypeOK
           /\ ReaderInv
           /\ \A w \in Workers : WorkerInv(w)
           /\ AnswersInv

TableOf(i) == dump[CHOOSE j \in 1..i : /\ dump[j].type = "start"
                                       /\ \A k \in (j + 1)..i : dump[k].type # "start"].table

PayloadsFor(t) == {i \in DOMAIN dump : dump[i].type = "rows" /\ TableOf(i) = t}

RowsIn(tag, F, i) == UNION {{<<tag, f, k>> : k \in {j \in DOMAIN f.rows : f.rows[j] = i}} : f \in F}

(* Everywhere payload i can be: queued, in a worker's hand, in its block,  *)
(* in a Closed that is under way, acknowledged, staged.                    *)
Loose(i) ==
    (UNION {{<<"queued", w, k>> : k \in {j \in DOMAIN jobs[w] : jobs[w][j].type = "Rows" /\ jobs[w][j].id = i}}
              : w \in Workers})
    \cup {<<"hand", w>> : w \in {x \in Workers : hand[x].type = "Rows" /\ hand[x].id = i}}
    \cup (UNION {UNION {{<<"block", w, g, k>> : k \in {j \in DOMAIN blocks[w][g] : blocks[w][g][j] = i}}
                        : g \in DOMAIN blocks[w]} : w \in Workers})

Filed(i) ==
    (UNION {RowsIn("closed", hand[w].files, i) : w \in {x \in Workers : hand[x].type = "Closed"}})
    \cup (UNION {RowsIn("event", events[k].files, i) : k \in {j \in DOMAIN events : events[j].type = "Closed"}})
    \cup RowsIn("acked", block, i)
    \cup (UNION {RowsIn("staged", staged[t], i) : t \in Tables})

Places(i) == Loose(i) \cup Filed(i)

NoFailure == /\ outcome \in {"running", "ok"}
             /\ \A w \in Workers : wpc[w] \in {"recv", "work", "send"} \/ ~jobOpen
             /\ \A k \in DOMAIN events : events[k].type = "Closed"

(* While nothing has failed, every payload the reader has passed is in     *)
(* exactly one place of the pool if its table is wanted, and in none if    *)
(* not: no interleaving of reader and workers drops or doubles rows.       *)
RowsConserved ==
    NoFailure => \A i \in 1..(pos - 1) :
        Cardinality(Places(i)) = IF dump[i].type = "rows" /\ TableOf(i) \in Wanted THEN 1 ELSE 0

(* Every payload of the COPY blocks of t is in the table exactly once,     *)
(* nothing else is, and none that did not decode.                          *)
WholeTable(t) ==
    /\ \A i \in DOMAIN dump :
         Cardinality(RowsIn("file", visible[t].files, i)) = IF i \in PayloadsFor(t) THEN 1 ELSE 0
    /\ \A i \in PayloadsFor(t) : ~dump[i].bad

(* The dump has one COPY block for t, as a dump of pg_dump has.            *)
Starts(i, t) == dump[i].type = "start" /\ dump[i].table = t
FedOnce(t) == \E i \in DOMAIN dump : \A j \in DOMAIN dump : Starts(j, t) <=> j = i

(* A committed table is never short ("a short table is the worst outcome   *)
(* this library has").  A table fed by one COPY block is whole as soon as  *)
(* its commit has landed.  For a table fed by several, phase two has a     *)
(* commit per block, the first with every file and the others with none,   *)
(* in any order: until the first lands nothing of the load is in the table, *)
(* never a part; and a load that succeeds leaves it whole too.             *)
CommittedIsWhole ==
    \A t \in Tables : visible[t].loaded =>
        \/ WholeTable(t)
        \/ ~FedOnce(t) /\ visible[t].files = {} /\ outcome # "ok"

(***************************************************************************)
(* The part of the inductive invariant about the payloads.  Those a worker *)
(* has not answered with yet, and the files that answer: on their way to   *)
(* the reader, and staged.                                                 *)
(***************************************************************************)
Queued(w) == {jobs[w][k].id : k \in {x \in DOMAIN jobs[w] : jobs[w][x].type = "Rows"}}
InHand(w) == IF hand[w].type = "Rows" THEN {hand[w].id} ELSE {}
Decoded(w) == UNION {Range(blocks[w][g]) : g \in DOMAIN blocks[w]}
Held(w) == Queued(w) \cup InHand(w) \cup Decoded(w)

Flying == (UNION {hand[w].files : w \in {x \in Workers : hand[x].type = "Closed"}})
            \cup (UNION {events[k].files : k \in {x \in DOMAIN events : events[x].type = "Closed"}})
            \cup block
Kept == UNION {staged[t] : t \in Tables}

Increasing(s) == \A j, k \in DOMAIN s : j < k => s[j] < s[k]

(* Payload i has been dispatched. *)
Passed(i) == i \in 1..(pos - 1) /\ dump[i].type = "rows" /\ TableOf(i) \in Wanted

(* A worker's payloads keep the order of the dump. *)
RowsInOrder(w) ==
    /\ \A k, l \in DOMAIN jobs[w] :
         k < l /\ jobs[w][k].type = "Rows" /\ jobs[w][l].type = "Rows" => jobs[w][k].id < jobs[w][l].id
    /\ \A i \in InHand(w) \cup Decoded(w) : \A j \in Queued(w) : i < j
    /\ \A i \in Decoded(w) : \A j \in InHand(w) : i < j
    /\ \A g \in DOMAIN blocks[w] : blocks[w][g] # <<>> /\ Increasing(blocks[w][g])

(* Only what decodes goes into a block. *)
RowsAreGood(w) ==
    /\ \A k \in DOMAIN jobs[w] : jobs[w][k].type = "Rows" => jobs[w][k].bad = dump[jobs[w][k].id].bad
    /\ hand[w].type = "Rows" => hand[w].bad = dump[hand[w].id].bad
    /\ \A i \in Decoded(w) : ~dump[i].bad

IdleHands == \A w \in Workers : wpc[w] \notin {"work", "send", "report"} => hand[w] = Nothing

HeldApart == \A w \in Workers : /\ \A i \in Held(w) : Passed(i)
                                /\ \A v \in Workers \ {w} : Held(v) \cap Held(w) = {}
                                /\ \A f \in Flying \cup Kept : Range(f.rows) \cap Held(w) = {}

FilesApart == \A f \in Flying \cup Kept :
                 /\ f.rows # <<>> /\ Increasing(f.rows)
                 /\ \A i \in Range(f.rows) : Passed(i) /\ ~dump[i].bad
                 /\ \A g \in (Flying \cup Kept) \ {f} : Range(f.rows) \cap Range(g.rows) = {}

(* The block under way: its table, and where the reader is in it. *)
OpenTable == IF rpc = "scan" THEN current ELSE dump[pos].table

NoRows == (\A w \in Workers : Held(w) = {}) /\ Flying = {}

BlockInv ==
    /\ rpc = "open" => NoRows
    /\ rpc \in {"scan", "close", "acks"} =>
         /\ \A w \in Workers : \A i \in Held(w) : TableOf(i) = OpenTable
         /\ \A f \in Flying : \A i \in Range(f.rows) : TableOf(i) = OpenTable
    /\ \A f \in Flying : f.gen = generation
    /\ rpc = "scan" =>
         \A j \in 1..(pos - 1) : BlockStart(dump, pos, j) =>
            IF skipping THEN dump[j].table \notin Wanted
                        ELSE current = dump[j].table /\ current \in Wanted

BlockOver == rpc \in {"commit"} \cup Draining \/ (rpc = "scan" /\ current = NoTable)

StagedInv ==
    \A t \in Tables : \A f \in staged[t] :
        /\ f.gen <= generation
        /\ f.gen = generation => BlockOver
        /\ \A i \in Range(f.rows) : TableOf(i) = t

(* Nothing is under way any more. *)
PoolIdle == /\ events = <<>> /\ block = {}
            /\ \A w \in Workers : wpc[w] \in {"recv", "leaving", "exit"} /\ jobs[w] = <<>> /\ ctxs[w] = {}

OutcomeInv ==
    /\ outcome = "running" <=> rpc \notin {"shutdown", "join", "done"}
    /\ rpc = "cause" => \E w \in Workers : wpc[w] = "exit"
    /\ outcome = "ok" => PoolIdle

NothingLost ==
    NoFailure => \A i \in 1..(pos - 1) : Passed(i) =>
        (\E w \in Workers : i \in Held(w)) \/ (\E f \in Flying \cup Kept : i \in Range(f.rows))

(* A table shows all that is staged for it, or nothing of it: before phase *)
(* two, or while only a later target of a table fed twice has landed.      *)
Published(t) == \/ ~visible[t].loaded /\ visible[t].files = {}
                \/ /\ visible[t].loaded /\ commits # <<>>
                   /\ visible[t].files = staged[t] \/ (visible[t].files = {} /\ ~FedOnce(t))

(* Phase two: everything is staged, and the commits have published it.     *)
CommitInv ==
    /\ rpc = "commit" \/ commits # <<>> \/ outcome = "ok" =>
         /\ rpc \in {"commit", "shutdown", "join", "done"}
         /\ pos > Len(dump)
         /\ \A i \in DOMAIN dump : Passed(i) => \E f \in staged[TableOf(i)] : i \in Range(f.rows)
    /\ commits # <<>> => DOMAIN commits = DOMAIN opened
    /\ \A k \in DOMAIN commits :
         /\ commits[k] \in {"todo", "running"} => rpc = "commit"
         /\ outcome = "ok" => commits[k] = "ok"
         /\ commits[k] = "ok" => visible[opened[k]].loaded
         /\ commits[k] = "ok" /\ FirstTarget(k) => visible[opened[k]].files = staged[opened[k]]
    /\ rpc = "commit" \/ outcome = "ok" => DOMAIN commits = DOMAIN opened
    /\ \A t \in Tables : Published(t)
    /\ DOMAIN visible = Tables

(* A target is a wanted table whose COPY the reader has met: one of them   *)
(* is the table's first, and all others come of further COPY blocks.       *)
TargetInv(k) ==
    /\ opened[k] \in Wanted
    /\ \E j \in DOMAIN dump : Starts(j, opened[k]) /\ j <= pos /\ (rpc \in {"start", "scan"} => j < pos)
    /\ \E j \in DOMAIN opened : opened[j] = opened[k] /\ FirstTarget(j)
    /\ FedOnce(opened[k]) => FirstTarget(k)

(* open_tables are the wanted tables whose COPY the reader has met. *)
OpenedInv ==
    /\ \A k \in DOMAIN opened : TargetInv(k)
    /\ \A j \in 1..(pos - 1) : dump[j].type = "start" /\ dump[j].table \in Wanted => \E k \in DOMAIN opened : opened[k] = dump[j].table
    /\ rpc = "open" => \E k \in DOMAIN opened : opened[k] = dump[pos].table
    /\ \A t \in Tables : visible[t].loaded => \E k \in DOMAIN opened : opened[k] = t

RowsInv == /\ \A w \in Workers : RowsInOrder(w) /\ RowsAreGood(w)
           /\ IdleHands
           /\ HeldApart /\ FilesApart
           /\ BlockInv /\ StagedInv
           /\ OutcomeInv /\ NothingLost /\ CommitInv /\ OpenedInv

(* The inductive invariant: the protocol, and the payloads it carries. *)
IInv == PoolInv /\ RowsInv

(* The comment on dispatch(): when a send to a worker fails, "the real     *)
(* cause is waiting on event_rx", so a load never ends with the bare       *)
(* "decode pool stopped unexpectedly".                                     *)
RealCause == outcome # "PoolStopped"

(***************************************************************************)
(* Whatever the pool does, the readers of the tables see AllOrNothing, as  *)
(* far as the tables fed by one COPY block go.  A table fed by several is  *)
(* no part of the mapping: a later target of it can land first and leave   *)
(* it, under overwrite, without rows (CommittedIsWhole says what holds).   *)
(***************************************************************************)
Contract == INSTANCE AllOrNothing WITH
    target   <- {t \in Wanted : FedOnce(t)},
    phase    <- CASE outcome = "ok" -> "ok"
                  [] outcome = "running" /\ rpc = "commit" -> "publishing"
                  [] outcome = "running" /\ rpc # "commit" -> "reading"
                  [] OTHER -> "failed",
    contents <- [t \in Tables |-> CASE ~visible[t].loaded \/ ~FedOnce(t) -> "old"
                                    [] visible[t].loaded /\ FedOnce(t) /\ WholeTable(t) -> "new"
                                    [] OTHER -> "short"]

(* A load implements the all-or-nothing contract of run(), its return      *)
(* included, for the tables fed by one block: nothing of them is visible   *)
(* before the whole dump is read without an error, none is ever short, and *)
(* success means every one of them.                                        *)
ImplementsAllOrNothing == Contract!Spec

(* execute() always returns, with every worker joined, however and         *)
(* wherever the reader or a worker fails.                                  *)
AlwaysReturns == <>(rpc = "done" /\ \A w \in Workers : wpc[w] = "exit")
=============================================================================
