---------------------------- MODULE BlockingChan ----------------------------
(***************************************************************************)
(* What the bounded channel of src/chan.rs promises its users, with no     *)
(* lock, no condition variable and no counter: a send or a receive begins, *)
(* and completes in one atomic step as soon as the queue and the set of    *)
(* live handles allow it.  Chan is shown to implement this module.         *)
(***************************************************************************)
EXTENDS Naturals, Sequences

CONSTANTS SendThreads,   \* threads that may own a Sender
          RecvThreads,   \* threads that may own a Receiver
          Capacity,      \* items the queue holds
          Values,        \* what is sent
          NoValue,       \* an empty hand
          Closed         \* what recv returns as None

VARIABLES items,   \* the queue, oldest first
          op,      \* per thread: "none" | "idle" | "busy" | "gone"
          slot     \* per thread: the value in its hand, or its last answer

vars == <<items, op, slot>>

Threads == SendThreads \cup RecvThreads

Live(T) == {t \in T : op[t] \in {"idle", "busy"}}

Init == /\ items = <<>>
        /\ slot = [t \in Threads |-> NoValue]
        /\ \E s \in SendThreads, r \in RecvThreads :
             op = [t \in Threads |-> IF t \in {s, r} THEN "idle" ELSE "none"]

Clone(t, u) == /\ op[t] = "idle"
               /\ op[u] = "none"
               /\ op' = [op EXCEPT ![u] = "idle"]
               /\ UNCHANGED <<items, slot>>

Drop(t) == /\ op[t] = "idle"
           /\ op' = [op EXCEPT ![t] = "gone"]
           /\ UNCHANGED <<items, slot>>

Begin(t, v) == /\ op[t] = "idle"
               /\ op' = [op EXCEPT ![t] = "busy"]
               /\ slot' = [slot EXCEPT ![t] = v]
               /\ UNCHANGED items

(***************************************************************************)
(* A send takes effect when there is room and somebody left to read it,    *)
(* and hands its value back when nobody is left.                           *)
(***************************************************************************)
SendOk(s) == /\ op[s] = "busy"
             /\ Live(RecvThreads) # {}
             /\ Len(items) < Capacity
             /\ items' = Append(items, slot[s])
             /\ op' = [op EXCEPT ![s] = "idle"]
             /\ slot' = [slot EXCEPT ![s] = NoValue]

SendErr(s) == /\ op[s] = "busy"
              /\ Live(RecvThreads) = {}
              /\ op' = [op EXCEPT ![s] = "idle"]
              /\ UNCHANGED <<items, slot>>

(***************************************************************************)
(* A receive takes the oldest item, and says None only when the queue is   *)
(* drained and nobody is left to refill it.                                *)
(***************************************************************************)
RecvSome(r) == /\ op[r] = "busy"
               /\ items # <<>>
               /\ items' = Tail(items)
               /\ op' = [op EXCEPT ![r] = "idle"]
               /\ slot' = [slot EXCEPT ![r] = Head(items)]

RecvNone(r) == /\ op[r] = "busy"
               /\ items = <<>>
               /\ Live(SendThreads) = {}
               /\ op' = [op EXCEPT ![r] = "idle"]
               /\ slot' = [slot EXCEPT ![r] = Closed]
               /\ UNCHANGED items

Next == \/ \E s, u \in SendThreads : Clone(s, u)
        \/ \E r, u \in RecvThreads : Clone(r, u)
        \/ \E t \in Threads : Drop(t)
        \/ \E s \in SendThreads : SendOk(s) \/ SendErr(s) \/ \E v \in Values : Begin(s, v)
        \/ \E r \in RecvThreads : RecvSome(r) \/ RecvNone(r) \/ Begin(r, NoValue)

(***************************************************************************)
(* The channel makes progress.  Which of several blocked threads is served *)
(* is not promised (a condition variable is not fair), that one of them is *)
(* served is; once the channel is closed every blocked thread gets out.    *)
(***************************************************************************)
Fairness == /\ WF_vars(\E s \in SendThreads : SendOk(s))
            /\ WF_vars(\E r \in RecvThreads : RecvSome(r))
            /\ \A s \in SendThreads : WF_vars(SendErr(s))
            /\ \A r \in RecvThreads : WF_vars(RecvNone(r))

SafeSpec == Init /\ [][Next]_vars

Spec == SafeSpec /\ Fairness
=============================================================================
