---------------------------- MODULE AllOrNothing ----------------------------
(***************************************************************************)
(* What a load promises the readers of its tables (the doc comment of run  *)
(* in src/pipeline.rs): while the dump is read no table changes; then the  *)
(* tables go, one at a time, from their old contents to the complete new   *)
(* ones, never to a part of them.  A load that fails while reading has     *)
(* changed nothing; one that fails while publishing may have published     *)
(* some; one that succeeds has published all.  And the load returns.       *)
(***************************************************************************)
CONSTANT Tables

VARIABLES target,     \* the tables this load replaces
          phase,      \* "reading" | "publishing" | "ok" | "failed"
          contents    \* per table: "old" | "new"

vars == <<target, phase, contents>>

Init == /\ target \in SUBSET Tables
        /\ phase = "reading"
        /\ contents = [t \in Tables |-> "old"]

StartPublishing == /\ phase = "reading"
                   /\ phase' = "publishing"
                   /\ UNCHANGED <<target, contents>>

Publish(t) == /\ phase = "publishing"
              /\ contents[t] = "old"
              /\ contents' = [contents EXCEPT ![t] = "new"]
              /\ UNCHANGED <<target, phase>>

Succeed == /\ phase = "publishing"
           /\ \A t \in target : contents[t] = "new"
           /\ phase' = "ok"
           /\ UNCHANGED <<target, contents>>

Fail == /\ phase \in {"reading", "publishing"}
        /\ phase' = "failed"
        /\ UNCHANGED <<target, contents>>

Next == StartPublishing \/ Succeed \/ Fail \/ \E t \in target : Publish(t)

Spec == Init /\ [][Next]_vars /\ WF_vars(Next)
=============================================================================
