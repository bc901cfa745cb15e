-------------------------------- MODULE Chan --------------------------------
(***************************************************************************)
(* The bounded multi-producer, multi-consumer channel of src/chan.rs: a    *)
(* VecDeque and two handle counts behind one Mutex, a not_empty and a      *)
(* not_full Condvar.                                                       *)
(*                                                                         *)
(* Every thread owns at most one handle.  A step is one critical section   *)
(* of the mutex, or one notification: both notify_one and notify_all are   *)
(* called after the lock is released, so any number of other critical      *)
(* sections may come between a push and its notification.                  *)
(*                                                                         *)
(* pc[t]:  "none"     t has no handle yet                                  *)
(*         "idle"     t holds a handle and is outside send/recv            *)
(*         "try"      t is about to run the body of the loop under the lock*)
(*         "wait"     t is parked on its condition variable                *)
(*         "notify"   t has pushed or popped, its notify_one is pending    *)
(*         "closing"  t dropped the last handle of its side, its           *)
(*                    notify_all is pending                                *)
(*         "gone"     t's handle is dropped                                *)
(***************************************************************************)
EXTENDS Naturals, Sequences, FiniteSets

CONSTANTS SendThreads, RecvThreads,
          Requested,              \* the capacity given to bounded()
          Values, NoValue, Closed

ASSUME ThreadsAssumption == /\ IsFiniteSet(SendThreads)
                            /\ IsFiniteSet(RecvThreads)
                            /\ SendThreads \cap RecvThreads = {}

ASSUME RequestedAssumption == Requested \in Nat

ASSUME ValuesAssumption == NoValue \notin Values /\ Closed \notin Values \cup {NoValue}

VARIABLES items,      \* State.items
          senders,    \* State.senders
          receivers,  \* State.receivers
          pc,
          slot        \* the value in a sender's hand, a receiver's last answer

vars == <<items, senders, receivers, pc, slot>>

Threads == SendThreads \cup RecvThreads

Capacity == IF Requested > 1 THEN Requested ELSE 1

At(T, label) == {t \in T : pc[t] = label}

Live(T) == {t \in T : pc[t] \in {"idle", "try", "wait", "notify"}}

(* Types, and the bound of chan.rs: the queue never outgrows its capacity.  *)
TypeOK == /\ items \in Seq(Values)
          /\ Len(items) <= Capacity
          /\ senders \in Nat
          /\ receivers \in Nat
          /\ pc \in [Threads -> {"none", "idle", "try", "wait", "notify", "closing", "gone"}]
          /\ slot \in [Threads -> Values \cup {NoValue, Closed}]

(* bounded(): an empty queue, one Sender and one Receiver. *)
Init == /\ items = <<>>
        /\ senders = 1
        /\ receivers = 1
        /\ slot = [t \in Threads |-> NoValue]
        /\ \E s \in SendThreads, r \in RecvThreads :
             pc = [t \in Threads |-> IF t \in {s, r} THEN "idle" ELSE "none"]

-----------------------------------------------------------------------------
(* Sender::send *)

SendStart(s, v) == /\ pc[s] = "idle"
                   /\ pc' = [pc EXCEPT ![s] = "try"]
                   /\ slot' = [slot EXCEPT ![s] = v]
                   /\ UNCHANGED <<items, senders, receivers>>

(* Every Receiver is dropped: the value is handed back. *)
SendRefused(s) == /\ pc[s] = "try"
                  /\ receivers = 0
                  /\ pc' = [pc EXCEPT ![s] = "idle"]
                  /\ UNCHANGED <<items, senders, receivers, slot>>

(* Mutant: a wake-up only for the first item. *)
SendPushNotifiesFirst(s) == /\ pc[s] = "try"
                            /\ receivers # 0
                            /\ Len(items) < Capacity
                            /\ items' = Append(items, slot[s])
                            /\ pc' = [pc EXCEPT ![s] = IF items = <<>> THEN "notify" ELSE "idle"]
                            /\ slot' = [slot EXCEPT ![s] = NoValue]
                            /\ UNCHANGED <<senders, receivers>>

SendPush(s) == /\ pc[s] = "try"
               /\ receivers # 0
               /\ Len(items) < Capacity
               /\ items' = Append(items, slot[s])
               /\ pc' = [pc EXCEPT ![s] = "notify"]
               /\ slot' = [slot EXCEPT ![s] = NoValue]
               /\ UNCHANGED <<senders, receivers>>

SendWait(s) == /\ pc[s] = "try"
               /\ receivers # 0
               /\ Len(items) >= Capacity
               /\ pc' = [pc EXCEPT ![s] = "wait"]
               /\ UNCHANGED <<items, senders, receivers, slot>>

(* Condvar::notify_one: some parked thread of T, if there is one, wakes. *)
NotifyOne(t, T) == \/ /\ At(T, "wait") = {}
                      /\ pc' = [pc EXCEPT ![t] = "idle"]
                   \/ \E w \in At(T, "wait") :
                        pc' = [pc EXCEPT ![t] = "idle", ![w] = "try"]

SendNotify(s) == /\ pc[s] = "notify"
                 /\ NotifyOne(s, RecvThreads)
                 /\ UNCHANGED <<items, senders, receivers, slot>>

-----------------------------------------------------------------------------
(* Receiver::recv *)

RecvStart(r) == /\ pc[r] = "idle"
                /\ pc' = [pc EXCEPT ![r] = "try"]
                /\ slot' = [slot EXCEPT ![r] = NoValue]
                /\ UNCHANGED <<items, senders, receivers>>

(* Mutant: a wake-up only when the queue was full. *)
RecvPopNotifiesFull(r) == /\ pc[r] = "try"
                          /\ items # <<>>
                          /\ items' = Tail(items)
                          /\ pc' = [pc EXCEPT ![r] = IF Len(items) = Requested THEN "notify" ELSE "idle"]
                          /\ slot' = [slot EXCEPT ![r] = Head(items)]
                          /\ UNCHANGED <<senders, receivers>>

RecvPop(r) == /\ pc[r] = "try"
              /\ items # <<>>
              /\ items' = Tail(items)
              /\ pc' = [pc EXCEPT ![r] = "notify"]
              /\ slot' = [slot EXCEPT ![r] = Head(items)]
              /\ UNCHANGED <<senders, receivers>>

RecvClosed(r) == /\ pc[r] = "try"
                 /\ items = <<>>
                 /\ senders = 0
                 /\ pc' = [pc EXCEPT ![r] = "idle"]
                 /\ slot' = [slot EXCEPT ![r] = Closed]
                 /\ UNCHANGED <<items, senders, receivers>>

RecvWait(r) == /\ pc[r] = "try"
               /\ items = <<>>
               /\ senders # 0
               /\ pc' = [pc EXCEPT ![r] = "wait"]
               /\ UNCHANGED <<items, senders, receivers, slot>>

RecvNotify(r) == /\ pc[r] = "notify"
                 /\ NotifyOne(r, SendThreads)
                 /\ UNCHANGED <<items, senders, receivers, slot>>

-----------------------------------------------------------------------------
(* Clone and Drop of the two ends, and the wake-ups of the platform *)

(* Mutants: a clone that is not counted. *)
CloneSenderUncounted(s, u) == /\ pc[s] = "idle"
                              /\ pc[u] = "none"
                              /\ pc' = [pc EXCEPT ![u] = "idle"]
                              /\ UNCHANGED <<items, senders, receivers, slot>>

CloneReceiverUncounted(r, u) == /\ pc[r] = "idle"
                                /\ pc[u] = "none"
                                /\ pc' = [pc EXCEPT ![u] = "idle"]
                                /\ UNCHANGED <<items, senders, receivers, slot>>

CloneSender(s, u) == /\ pc[s] = "idle"
                     /\ pc[u] = "none"
                     /\ senders' = senders + 1
                     /\ pc' = [pc EXCEPT ![u] = "idle"]
                     /\ UNCHANGED <<items, receivers, slot>>

CloneReceiver(r, u) == /\ pc[r] = "idle"
                       /\ pc[u] = "none"
                       /\ receivers' = receivers + 1
                       /\ pc' = [pc EXCEPT ![u] = "idle"]
                       /\ UNCHANGED <<items, senders, slot>>

(* Mutant: the last sender leaves without a word. *)
DropSenderQuietly(s) == /\ pc[s] = "idle"
                        /\ senders' = senders - 1
                        /\ pc' = [pc EXCEPT ![s] = "gone"]
                        /\ UNCHANGED <<items, receivers, slot>>

DropSender(s) == /\ pc[s] = "idle"
                 /\ senders' = senders - 1
                 /\ pc' = [pc EXCEPT ![s] = IF senders' = 0 THEN "closing" ELSE "gone"]
                 /\ UNCHANGED <<items, receivers, slot>>

DropReceiver(r) == /\ pc[r] = "idle"
                   /\ receivers' = receivers - 1
                   /\ pc' = [pc EXCEPT ![r] = IF receivers' = 0 THEN "closing" ELSE "gone"]
                   /\ UNCHANGED <<items, senders, slot>>

(* Condvar::notify_all: every parked thread of T wakes. *)
NotifyAll(t, T) == pc' = [x \in Threads |->
                            CASE x = t -> "gone"
                              [] x \in At(T, "wait") -> "try"
                              [] OTHER -> pc[x]]

(* Mutant: notify_one where notify_all is needed. *)
DropSenderNotifiesOne(s) == /\ pc[s] = "closing"
                            /\ \/ /\ At(RecvThreads, "wait") = {}
                                  /\ pc' = [pc EXCEPT ![s] = "gone"]
                               \/ \E w \in At(RecvThreads, "wait") :
                                    pc' = [pc EXCEPT ![s] = "gone", ![w] = "try"]
                            /\ UNCHANGED <<items, senders, receivers, slot>>

DropSenderNotify(s) == /\ pc[s] = "closing"
                       /\ NotifyAll(s, RecvThreads)
                       /\ UNCHANGED <<items, senders, receivers, slot>>

DropReceiverNotify(r) == /\ pc[r] = "closing"
                         /\ NotifyAll(r, SendThreads)
                         /\ UNCHANGED <<items, senders, receivers, slot>>

(* Condvar::wait may return with no notification; the loop re-checks. *)
SpuriousWakeup(t) == /\ pc[t] = "wait"
                     /\ pc' = [pc EXCEPT ![t] = "try"]
                     /\ UNCHANGED <<items, senders, receivers, slot>>

-----------------------------------------------------------------------------
SendStep(s) == SendRefused(s) \/ SendPush(s) \/ SendWait(s) \/ SendNotify(s) \/ DropSenderNotify(s)

RecvStep(r) == RecvPop(r) \/ RecvClosed(r) \/ RecvWait(r) \/ RecvNotify(r) \/ DropReceiverNotify(r)

Next == \/ \E s \in SendThreads : \/ SendStep(s) \/ DropSender(s)
                                  \/ \E v \in Values : SendStart(s, v)
                                  \/ \E u \in SendThreads : CloneSender(s, u)
        \/ \E r \in RecvThreads : \/ RecvStep(r) \/ DropReceiver(r) \/ RecvStart(r)
                                  \/ \E u \in RecvThreads : CloneReceiver(r, u)
        \/ \E t \in Threads : SpuriousWakeup(t)

(***************************************************************************)
(* A thread inside send, recv or drop is scheduled and gets the mutex      *)
(* sooner or later.  Nothing makes a thread start, clone or drop, and no   *)
(* spurious wake-up ever has to come.                                      *)
(***************************************************************************)
Fairness == /\ \A s \in SendThreads : WF_vars(SendStep(s))
            /\ \A r \in RecvThreads : WF_vars(RecvStep(r))

SafeSpec == Init /\ [][Next]_vars

Spec == SafeSpec /\ Fairness

-----------------------------------------------------------------------------
(***************************************************************************)
(* Properties                                                              *)
(***************************************************************************)

(* No lost wake-up, receiver side (chan.rs recv, notify after unlock in    *)
(* send and in Drop for Sender): while a receiver is parked although an    *)
(* item is queued or the last sender is gone, a notification is still      *)
(* pending or another receiver is already on its way to the queue.         *)
NoStrandedReceiver ==
    At(RecvThreads, "wait") # {} /\ (items # <<>> \/ Live(SendThreads) = {})
      => At(SendThreads, "notify") \cup At(SendThreads, "closing")
           \cup At(RecvThreads, "try") # {}

(* No lost wake-up, sender side (chan.rs send, notify after unlock in recv *)
(* and in Drop for Receiver): while a sender is parked although there is   *)
(* room or the last receiver is gone, a notification is pending or another *)
(* sender is already on its way to the queue.                              *)
NoStrandedSender ==
    At(SendThreads, "wait") # {} /\ (Len(items) < Capacity \/ Live(RecvThreads) = {})
      => At(RecvThreads, "notify") \cup At(RecvThreads, "closing")
           \cup At(SendThreads, "try") # {}

(* The two sides never wait for each other: when a sender is parked because *)
(* the queue is full and a receiver because it is empty, somebody is on the *)
(* way to the queue or to a notification, whatever capacity was asked for   *)
(* (bounded() makes a queue of one of a capacity of zero).                  *)
NeverBothParked ==
    At(SendThreads, "wait") # {} /\ At(RecvThreads, "wait") # {}
      => \E t \in Threads : pc[t] \in {"try", "notify", "closing"}

(* The channel reports closed only when it is (recv's None, send's Err):   *)
(* once some recv returned None the queue is empty and no Sender is left,  *)
(* so nobody can ever be handed an item again; a value is handed back to a *)
(* sender only when no Receiver is left.                                   *)
ClosedIsFinal ==
    /\ (\E r \in RecvThreads : slot[r] = Closed) => items = <<>> /\ Live(SendThreads) = {}
    /\ (\E s \in SendThreads : slot[s] # NoValue /\ pc[s] \in {"idle", "closing", "gone"})
         => Live(RecvThreads) = {}

(***************************************************************************)
(* The inductive invariant behind these four.  The two counters are the    *)
(* numbers of live handles, and there are at least as many wake-ups under  *)
(* way as there are items (free slots) a parked thread could take.         *)
(***************************************************************************)
CountsAgree == /\ senders = Cardinality(Live(SendThreads))
               /\ receivers = Cardinality(Live(RecvThreads))

WakeupsCoverItems ==
    At(RecvThreads, "wait") # {} =>
      Len(items) <= Cardinality(At(SendThreads, "notify")) + Cardinality(At(RecvThreads, "try"))

WakeupsCoverRoom ==
    At(SendThreads, "wait") # {} /\ Live(RecvThreads) # {} =>
      Capacity <= Len(items) + Cardinality(At(RecvThreads, "notify")) + Cardinality(At(SendThreads, "try"))

CloseIsAnnounced ==
    /\ At(RecvThreads, "wait") # {} /\ Live(SendThreads) = {} => At(SendThreads, "closing") # {}
    /\ At(SendThreads, "wait") # {} /\ Live(RecvThreads) = {} => At(RecvThreads, "closing") # {}

HandsAgree == \A s \in SendThreads : /\ pc[s] \in {"try", "wait"} => slot[s] \in Values
                                     /\ pc[s] \in {"none", "notify"} => slot[s] = NoValue

(* The inductive invariant: the two counts of State are the numbers of     *)
(* live handles, enough wake-ups are under way for every queued item and   *)
(* every free slot, and a close is announced to those it leaves parked.    *)
IInv == /\ TypeOK
        /\ CountsAgree
        /\ WakeupsCoverItems
        /\ WakeupsCoverRoom
        /\ CloseIsAnnounced
        /\ HandsAgree
        /\ ClosedIsFinal

(***************************************************************************)
(* The channel implements its contract: a call has taken effect once its   *)
(* critical section is over, its pending notification is not observable.   *)
(***************************************************************************)
Contract == INSTANCE BlockingChan WITH
    op <- [t \in Threads |->
             CASE pc[t] \in {"try", "wait"}      -> "busy"
               [] pc[t] \in {"idle", "notify"}   -> "idle"
               [] pc[t] \in {"closing", "gone"}  -> "gone"
               [] OTHER                          -> "none"]

(* The Mutex-and-Condvar channel of chan.rs implements the blocking queue  *)
(* it documents, its progress included: a receiver is served while items   *)
(* are queued, a sender while there is room, and a close reaches everyone. *)
ImplementsContract == Contract!Spec
=============================================================================
