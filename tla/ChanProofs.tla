----------------------------- MODULE ChanProofs -----------------------------
(***************************************************************************)
(* Proofs about Chan, for any finite sets of threads, any capacity and any *)
(* values.  The argument counts: every parked receiver is covered by as    *)
(* many pending notifications and awake receivers as there are items, and  *)
(* dually for parked senders and free slots.  The lemmas say how the sizes *)
(* of the sets of threads at a label change when one thread moves.         *)
(***************************************************************************)
EXTENDS Chan, FiniteSetTheorems, TLAPS

(* The effect on the threads of T at label l of one of them going from a   *)
(* to b.                                                                   *)
Effect(T, l, a, b) ==
    /\ (a = l <=> b = l) => At(T, l)' = At(T, l)
    /\ a # l /\ b = l => Cardinality(At(T, l)') = Cardinality(At(T, l)) + 1
    /\ a = l /\ b # l => Cardinality(At(T, l)') = Cardinality(At(T, l)) - 1

(* One thread of a finite set moves to label b: the number of threads at a *)
(* label (the waiters of a Condvar, the pending notifications) changes by  *)
(* at most one.                                                            *)
LEMMA MovedOne ==
  ASSUME NEW T, IsFiniteSet(T), NEW x \in T, NEW b,
         \A y \in T : pc'[y] = IF y = x THEN b ELSE pc[y],
         NEW l
  PROVE  Effect(T, l, pc[x], b)
<1>1. IsFiniteSet(At(T, l))
  BY FS_Subset DEF At
<1>2. CASE pc[x] = l <=> b = l
  <2>1. At(T, l)' = At(T, l)
    BY <1>2 DEF At
  <2> QED BY <1>2, <2>1 DEF Effect
<1>3. CASE pc[x] # l /\ b = l
  <2>1. At(T, l)' = At(T, l) \cup {x} /\ x \notin At(T, l)
    BY <1>3 DEF At
  <2>2. Cardinality(At(T, l) \cup {x}) = Cardinality(At(T, l)) + 1
    BY <1>1, <2>1, FS_AddElement
  <2> QED BY <1>3, <2>1, <2>2 DEF Effect
<1>4. CASE pc[x] = l /\ b # l
  <2>1. At(T, l)' = At(T, l) \ {x} /\ x \in At(T, l)
    BY <1>4 DEF At
  <2>2. Cardinality(At(T, l) \ {x}) = Cardinality(At(T, l)) - 1
    BY <1>1, <2>1, FS_RemoveElement
  <2> QED BY <1>4, <2>1, <2>2 DEF Effect
<1> QED BY <1>2, <1>3, <1>4

(* What a move does to the labels that the invariant counts.               *)
LEMMA Moved ==
  ASSUME NEW T, IsFiniteSet(T), NEW x \in T, NEW b,
         \A y \in T : pc'[y] = IF y = x THEN b ELSE pc[y]
  PROVE  /\ Effect(T, "try", pc[x], b)
         /\ Effect(T, "wait", pc[x], b)
         /\ Effect(T, "notify", pc[x], b)
         /\ Effect(T, "closing", pc[x], b)
BY MovedOne

(* No thread of T moves: nothing about T changes.                          *)
LEMMA Unmoved ==
  ASSUME NEW T, \A y \in T : pc'[y] = pc[y]
  PROVE  Live(T)' = Live(T) /\ \A l : At(T, l)' = At(T, l)
BY DEF Live, At

(* The same for the set of live handles, which State.senders and           *)
(* State.receivers count.                                                  *)
LEMMA LiveMoved ==
  ASSUME NEW T, IsFiniteSet(T), NEW x \in T, NEW b,
         \A y \in T : pc'[y] = IF y = x THEN b ELSE pc[y]
  PROVE  LET L == {"idle", "try", "wait", "notify"} IN
         /\ (pc[x] \in L <=> b \in L) => Live(T)' = Live(T)
         /\ pc[x] \notin L /\ b \in L => Cardinality(Live(T)') = Cardinality(Live(T)) + 1
         /\ pc[x] \in L /\ b \notin L => Cardinality(Live(T)') = Cardinality(Live(T)) - 1
<1> DEFINE L == {"idle", "try", "wait", "notify"}
<1>1. IsFiniteSet(Live(T))
  BY FS_Subset DEF Live
<1>2. CASE pc[x] \in L <=> b \in L
  <2>1. Live(T)' = Live(T)
    BY <1>2 DEF Live
  <2> QED BY <1>2, <2>1
<1>3. CASE pc[x] \notin L /\ b \in L
  <2>1. Live(T)' = Live(T) \cup {x} /\ x \notin Live(T)
    BY <1>3 DEF Live
  <2>2. Cardinality(Live(T) \cup {x}) = Cardinality(Live(T)) + 1
    BY <1>1, <2>1, FS_AddElement
  <2> QED BY <1>3, <2>1, <2>2
<1>4. CASE pc[x] \in L /\ b \notin L
  <2>1. Live(T)' = Live(T) \ {x} /\ x \in Live(T)
    BY <1>4 DEF Live
  <2>2. Cardinality(Live(T) \ {x}) = Cardinality(Live(T)) - 1
    BY <1>1, <2>1, FS_RemoveElement
  <2> QED BY <1>4, <2>1, <2>2
<1> QED BY <1>2, <1>3, <1>4

(* A thread that stays inside its call, or between calls, stays live.       *)
LEMMA LiveSame ==
  ASSUME NEW T, NEW x \in T, NEW b,
         \A y \in T : pc'[y] = IF y = x THEN b ELSE pc[y],
         pc[x] \in {"idle", "try", "wait", "notify"},
         b \in {"idle", "try", "wait", "notify"}
  PROVE  Live(T)' = Live(T)
BY DEF Live

(* Sizes of sets of threads are natural numbers, and zero means none: what *)
(* the code reads off a counter is a fact about handles.                   *)
LEMMA Sizes ==
  ASSUME NEW T, IsFiniteSet(T)
  PROVE  /\ Cardinality(Live(T)) \in Nat
         /\ Cardinality(Live(T)) = 0 <=> Live(T) = {}
         /\ \A l : /\ Cardinality(At(T, l)) \in Nat
                   /\ Cardinality(At(T, l)) = 0 <=> At(T, l) = {}
<1>1. IsFiniteSet(Live(T)) /\ \A l : IsFiniteSet(At(T, l))
  BY FS_Subset DEF Live, At
<1>2. \A S : IsFiniteSet(S) => Cardinality(S) \in Nat /\ (Cardinality(S) = 0 <=> S = {})
  BY FS_CardinalityType, FS_EmptySet
<1> QED BY <1>1, <1>2
(* The same after a step.                                                  *)
LEMMA SizesNext ==
  ASSUME NEW T, IsFiniteSet(T)
  PROVE  \A l : Cardinality(At(T, l)') \in Nat
<1>1. \A l : IsFiniteSet(At(T, l)')
  BY FS_Subset DEF At
<1> QED BY <1>1, FS_CardinalityType

(* bounded() clamps the capacity it is given up to one.                    *)
LEMMA CapacityPositive == Capacity \in Nat /\ Capacity >= 1
BY RequestedAssumption DEF Capacity

(* Sender::send is called: no set that matters loses a thread.               *)
LEMMA SendStartInv ==
  ASSUME IInv, NEW s \in SendThreads, NEW v \in Values, SendStart(s, v)
  PROVE  IInv'
<1> USE ThreadsAssumption DEF IInv, TypeOK, Threads
<1>1. /\ \A y \in SendThreads : pc'[y] = IF y = s THEN "try" ELSE pc[y]
      /\ \A y \in RecvThreads : pc'[y] = pc[y]
  BY DEF SendStart
<1>2. /\ Live(RecvThreads)' = Live(RecvThreads)
      /\ \A l : At(RecvThreads, l)' = At(RecvThreads, l)
  BY <1>1, Unmoved
<1>3. Live(SendThreads)' = Live(SendThreads)
  BY <1>1, LiveSame DEF SendStart
<1>4. /\ Cardinality(At(SendThreads, "try")') = Cardinality(At(SendThreads, "try")) + 1
      /\ At(SendThreads, "wait")' = At(SendThreads, "wait")
      /\ At(SendThreads, "notify")' = At(SendThreads, "notify")
      /\ At(SendThreads, "closing")' = At(SendThreads, "closing")
  <2>1. /\ Effect(SendThreads, "try", pc[s], "try")
        /\ Effect(SendThreads, "wait", pc[s], "try")
        /\ Effect(SendThreads, "notify", pc[s], "try")
        /\ Effect(SendThreads, "closing", pc[s], "try")
    BY <1>1, Moved
  <2> QED BY <2>1 DEF SendStart, Effect
<1>5. TypeOK'
  BY RequestedAssumption DEF SendStart, Capacity
<1>6. CountsAgree'
  BY <1>2, <1>3, <1>4, Sizes DEF SendStart, CountsAgree
<1>7. WakeupsCoverItems'
  BY <1>2, <1>3, <1>4, Sizes DEF SendStart, WakeupsCoverItems
<1>8. WakeupsCoverRoom'
  BY <1>2, <1>3, <1>4, Sizes, CapacityPositive DEF SendStart, WakeupsCoverRoom
<1>9. CloseIsAnnounced'
  BY <1>2, <1>3, <1>4 DEF SendStart, CloseIsAnnounced
<1>10. HandsAgree'
  BY DEF SendStart, HandsAgree
<1>11. ClosedIsFinal'
  BY <1>2, <1>3, <1>4 DEF SendStart, ClosedIsFinal, HandsAgree
<1> QED BY <1>5, <1>6, <1>7, <1>8, <1>9, <1>10, <1>11

(* Sender::send hands its value back: with no receiver left no sender needs  *)
(* the wake-up this one had taken.                                           *)
LEMMA SendRefusedInv ==
  ASSUME IInv, NEW s \in SendThreads, SendRefused(s)
  PROVE  IInv'
<1> USE ThreadsAssumption DEF IInv, TypeOK, Threads
<1>1. /\ \A y \in SendThreads : pc'[y] = IF y = s THEN "idle" ELSE pc[y]
      /\ \A y \in RecvThreads : pc'[y] = pc[y]
  BY DEF SendRefused
<1>2. /\ Live(RecvThreads)' = Live(RecvThreads)
      /\ \A l : At(RecvThreads, l)' = At(RecvThreads, l)
  BY <1>1, Unmoved
<1>3. Live(SendThreads)' = Live(SendThreads)
  BY <1>1, LiveSame DEF SendRefused
<1>4. /\ Cardinality(At(SendThreads, "try")') = Cardinality(At(SendThreads, "try")) - 1
      /\ At(SendThreads, "wait")' = At(SendThreads, "wait")
      /\ At(SendThreads, "notify")' = At(SendThreads, "notify")
      /\ At(SendThreads, "closing")' = At(SendThreads, "closing")
  <2>1. /\ Effect(SendThreads, "try", pc[s], "idle")
        /\ Effect(SendThreads, "wait", pc[s], "idle")
        /\ Effect(SendThreads, "notify", pc[s], "idle")
        /\ Effect(SendThreads, "closing", pc[s], "idle")
    BY <1>1, Moved
  <2> QED BY <2>1 DEF SendRefused, Effect
<1>5. Live(RecvThreads) = {}
  BY Sizes DEF SendRefused, CountsAgree
<1>6. TypeOK'
  BY <1>5, RequestedAssumption DEF SendRefused, Capacity
<1>7. CountsAgree'
  BY <1>2, <1>3, <1>4, <1>5, Sizes DEF SendRefused, CountsAgree
<1>8. WakeupsCoverItems'
  BY <1>2, <1>3, <1>4, <1>5, Sizes DEF SendRefused, WakeupsCoverItems
<1>9. WakeupsCoverRoom'
  BY <1>2, <1>3, <1>4, <1>5, Sizes DEF SendRefused, WakeupsCoverRoom
<1>10. CloseIsAnnounced'
  BY <1>2, <1>3, <1>4, <1>5 DEF SendRefused, CloseIsAnnounced
<1>11. HandsAgree'
  BY DEF SendRefused, HandsAgree
<1>12. ClosedIsFinal'
  BY <1>2, <1>3, <1>4, <1>5 DEF SendRefused, ClosedIsFinal, HandsAgree
<1> QED BY <1>6, <1>7, <1>8, <1>9, <1>10, <1>11, <1>12

(* Sender::send appends its value: one more item, and one more pending       *)
(* notification to go with it.                                               *)
LEMMA SendPushInv ==
  ASSUME IInv, NEW s \in SendThreads, SendPush(s)
  PROVE  IInv'
<1> USE ThreadsAssumption DEF IInv, TypeOK, Threads
<1>1. /\ \A y \in SendThreads : pc'[y] = IF y = s THEN "notify" ELSE pc[y]
      /\ \A y \in RecvThreads : pc'[y] = pc[y]
  BY DEF SendPush
<1>2. /\ Live(RecvThreads)' = Live(RecvThreads)
      /\ \A l : At(RecvThreads, l)' = At(RecvThreads, l)
  BY <1>1, Unmoved
<1>3. Live(SendThreads)' = Live(SendThreads)
  BY <1>1, LiveSame DEF SendPush
<1>4. /\ Cardinality(At(SendThreads, "try")') = Cardinality(At(SendThreads, "try")) - 1
      /\ At(SendThreads, "wait")' = At(SendThreads, "wait")
      /\ Cardinality(At(SendThreads, "notify")') = Cardinality(At(SendThreads, "notify")) + 1
      /\ At(SendThreads, "closing")' = At(SendThreads, "closing")
  <2>1. /\ Effect(SendThreads, "try", pc[s], "notify")
        /\ Effect(SendThreads, "wait", pc[s], "notify")
        /\ Effect(SendThreads, "notify", pc[s], "notify")
        /\ Effect(SendThreads, "closing", pc[s], "notify")
    BY <1>1, Moved
  <2> QED BY <2>1 DEF SendPush, Effect
<1>5. /\ slot[s] \in Values
      /\ Len(items') = Len(items) + 1
      /\ items' \in Seq(Values)
  BY DEF SendPush, HandsAgree
<1>6. TypeOK'
  BY <1>5, RequestedAssumption DEF SendPush, Capacity
<1>7. CountsAgree'
  BY <1>2, <1>3, <1>4, <1>5, Sizes DEF SendPush, CountsAgree
<1>8. WakeupsCoverItems'
  BY <1>2, <1>3, <1>4, <1>5, Sizes DEF SendPush, WakeupsCoverItems
<1>9. WakeupsCoverRoom'
  BY <1>2, <1>3, <1>4, <1>5, Sizes DEF SendPush, WakeupsCoverRoom
<1>10. CloseIsAnnounced'
  BY <1>2, <1>3, <1>4, <1>5 DEF SendPush, CloseIsAnnounced
<1>11. HandsAgree'
  BY DEF SendPush, HandsAgree
<1>12. ClosedIsFinal'
  <2>1. Live(RecvThreads) # {} /\ Live(SendThreads) # {}
    BY Sizes DEF SendPush, CountsAgree, Live
  <2> QED BY <1>2, <1>3, <2>1 DEF SendPush, ClosedIsFinal
<1> QED BY <1>6, <1>7, <1>8, <1>9, <1>10, <1>11, <1>12

(* Sender::send parks: the queue is full, so no free slot needs a wake-up.   *)
LEMMA SendWaitInv ==
  ASSUME IInv, NEW s \in SendThreads, SendWait(s)
  PROVE  IInv'
<1> USE ThreadsAssumption DEF IInv, TypeOK, Threads
<1>1. /\ \A y \in SendThreads : pc'[y] = IF y = s THEN "wait" ELSE pc[y]
      /\ \A y \in RecvThreads : pc'[y] = pc[y]
  BY DEF SendWait
<1>2. /\ Live(RecvThreads)' = Live(RecvThreads)
      /\ \A l : At(RecvThreads, l)' = At(RecvThreads, l)
  BY <1>1, Unmoved
<1>3. Live(SendThreads)' = Live(SendThreads)
  BY <1>1, LiveSame DEF SendWait
<1>4. /\ Cardinality(At(SendThreads, "try")') = Cardinality(At(SendThreads, "try")) - 1
      /\ Cardinality(At(SendThreads, "wait")') = Cardinality(At(SendThreads, "wait")) + 1
      /\ At(SendThreads, "notify")' = At(SendThreads, "notify")
      /\ At(SendThreads, "closing")' = At(SendThreads, "closing")
  <2>1. /\ Effect(SendThreads, "try", pc[s], "wait")
        /\ Effect(SendThreads, "wait", pc[s], "wait")
        /\ Effect(SendThreads, "notify", pc[s], "wait")
        /\ Effect(SendThreads, "closing", pc[s], "wait")
    BY <1>1, Moved
  <2> QED BY <2>1 DEF SendWait, Effect
<1>5. Live(RecvThreads) # {}
  BY Sizes DEF SendWait, CountsAgree
<1>6. TypeOK'
  BY <1>5, RequestedAssumption DEF SendWait, Capacity
<1>7. CountsAgree'
  BY <1>2, <1>3, <1>4, <1>5, Sizes DEF SendWait, CountsAgree
<1>8. WakeupsCoverItems'
  BY <1>2, <1>3, <1>4, <1>5, Sizes DEF SendWait, WakeupsCoverItems
<1>9. WakeupsCoverRoom'
  BY <1>2, <1>3, <1>4, <1>5, SizesNext, CapacityPositive DEF SendWait, WakeupsCoverRoom
<1>10. CloseIsAnnounced'
  BY <1>2, <1>3, <1>4, <1>5 DEF SendWait, CloseIsAnnounced
<1>11. HandsAgree'
  BY DEF SendWait, HandsAgree
<1>12. ClosedIsFinal'
  BY <1>2, <1>3, <1>4, <1>5 DEF SendWait, ClosedIsFinal, HandsAgree
<1> QED BY <1>6, <1>7, <1>8, <1>9, <1>10, <1>11, <1>12

(* Receiver::recv is called.                                                *)
LEMMA RecvStartInv ==
  ASSUME IInv, NEW r \in RecvThreads, RecvStart(r)
  PROVE  IInv'
<1> USE ThreadsAssumption DEF IInv, TypeOK, Threads
<1>1. /\ \A y \in RecvThreads : pc'[y] = IF y = r THEN "try" ELSE pc[y]
      /\ \A y \in SendThreads : pc'[y] = pc[y]
  BY DEF RecvStart
<1>2. /\ Live(SendThreads)' = Live(SendThreads)
      /\ \A l : At(SendThreads, l)' = At(SendThreads, l)
  BY <1>1, Unmoved
<1>3. Live(RecvThreads)' = Live(RecvThreads)
  BY <1>1, LiveSame DEF RecvStart
<1>4. /\ Cardinality(At(RecvThreads, "try")') = Cardinality(At(RecvThreads, "try")) + 1
      /\ At(RecvThreads, "wait")' = At(RecvThreads, "wait")
      /\ At(RecvThreads, "notify")' = At(RecvThreads, "notify")
      /\ At(RecvThreads, "closing")' = At(RecvThreads, "closing")
  <2>1. /\ Effect(RecvThreads, "try", pc[r], "try")
        /\ Effect(RecvThreads, "wait", pc[r], "try")
        /\ Effect(RecvThreads, "notify", pc[r], "try")
        /\ Effect(RecvThreads, "closing", pc[r], "try")
    BY <1>1, Moved
  <2> QED BY <2>1 DEF RecvStart, Effect
<1>5. TypeOK'
  BY RequestedAssumption DEF RecvStart, Capacity
<1>6. CountsAgree'
  BY <1>2, <1>3, <1>4, Sizes DEF RecvStart, CountsAgree
<1>7. WakeupsCoverItems'
  BY <1>2, <1>3, <1>4, Sizes DEF RecvStart, WakeupsCoverItems
<1>8. WakeupsCoverRoom'
  BY <1>2, <1>3, <1>4, Sizes DEF RecvStart, WakeupsCoverRoom
<1>9. CloseIsAnnounced'
  BY <1>2, <1>3, <1>4 DEF RecvStart, CloseIsAnnounced
<1>10. HandsAgree'
  BY DEF RecvStart, HandsAgree
<1>11. ClosedIsFinal'
  BY <1>2, <1>3, <1>4, ValuesAssumption DEF RecvStart, ClosedIsFinal
<1> QED BY <1>5, <1>6, <1>7, <1>8, <1>9, <1>10, <1>11

(* Receiver::recv takes the oldest item: one item less, one free slot and    *)
(* one pending notification more.                                            *)
LEMMA RecvPopInv ==
  ASSUME IInv, NEW r \in RecvThreads, RecvPop(r)
  PROVE  IInv'
<1> USE ThreadsAssumption DEF IInv, TypeOK, Threads
<1>1. /\ \A y \in RecvThreads : pc'[y] = IF y = r THEN "notify" ELSE pc[y]
      /\ \A y \in SendThreads : pc'[y] = pc[y]
  BY DEF RecvPop
<1>2. /\ Live(SendThreads)' = Live(SendThreads)
      /\ \A l : At(SendThreads, l)' = At(SendThreads, l)
  BY <1>1, Unmoved
<1>3. Live(RecvThreads)' = Live(RecvThreads)
  BY <1>1, LiveSame DEF RecvPop
<1>4. /\ Cardinality(At(RecvThreads, "try")') = Cardinality(At(RecvThreads, "try")) - 1
      /\ At(RecvThreads, "wait")' = At(RecvThreads, "wait")
      /\ Cardinality(At(RecvThreads, "notify")') = Cardinality(At(RecvThreads, "notify")) + 1
      /\ At(RecvThreads, "closing")' = At(RecvThreads, "closing")
  <2>1. /\ Effect(RecvThreads, "try", pc[r], "notify")
        /\ Effect(RecvThreads, "wait", pc[r], "notify")
        /\ Effect(RecvThreads, "notify", pc[r], "notify")
        /\ Effect(RecvThreads, "closing", pc[r], "notify")
    BY <1>1, Moved
  <2> QED BY <2>1 DEF RecvPop, Effect
<1>5. /\ Head(items) \in Values
      /\ Len(items') = Len(items) - 1
      /\ items' \in Seq(Values)
  BY DEF RecvPop
<1>6. TypeOK'
  BY <1>5, RequestedAssumption DEF RecvPop, Capacity
<1>7. CountsAgree'
  BY <1>2, <1>3, <1>4, <1>5, Sizes DEF RecvPop, CountsAgree
<1>8. WakeupsCoverItems'
  BY <1>2, <1>3, <1>4, <1>5, Sizes DEF RecvPop, WakeupsCoverItems
<1>9. WakeupsCoverRoom'
  BY <1>2, <1>3, <1>4, <1>5, Sizes DEF RecvPop, WakeupsCoverRoom
<1>10. CloseIsAnnounced'
  BY <1>2, <1>3, <1>4, <1>5 DEF RecvPop, CloseIsAnnounced
<1>11. HandsAgree'
  BY DEF RecvPop, HandsAgree
<1>12. ClosedIsFinal'
  BY <1>2, <1>3, <1>4, <1>5, ValuesAssumption DEF RecvPop, ClosedIsFinal
<1> QED BY <1>6, <1>7, <1>8, <1>9, <1>10, <1>11, <1>12

(* Receiver::recv returns None: the count it read is the number of live      *)
(* senders, so there are none.                                               *)
LEMMA RecvClosedInv ==
  ASSUME IInv, NEW r \in RecvThreads, RecvClosed(r)
  PROVE  IInv'
<1> USE ThreadsAssumption DEF IInv, TypeOK, Threads
<1>1. /\ \A y \in RecvThreads : pc'[y] = IF y = r THEN "idle" ELSE pc[y]
      /\ \A y \in SendThreads : pc'[y] = pc[y]
  BY DEF RecvClosed
<1>2. /\ Live(SendThreads)' = Live(SendThreads)
      /\ \A l : At(SendThreads, l)' = At(SendThreads, l)
  BY <1>1, Unmoved
<1>3. Live(RecvThreads)' = Live(RecvThreads)
  BY <1>1, LiveSame DEF RecvClosed
<1>4. /\ Cardinality(At(RecvThreads, "try")') = Cardinality(At(RecvThreads, "try")) - 1
      /\ At(RecvThreads, "wait")' = At(RecvThreads, "wait")
      /\ At(RecvThreads, "notify")' = At(RecvThreads, "notify")
      /\ At(RecvThreads, "closing")' = At(RecvThreads, "closing")
  <2>1. /\ Effect(RecvThreads, "try", pc[r], "idle")
        /\ Effect(RecvThreads, "wait", pc[r], "idle")
        /\ Effect(RecvThreads, "notify", pc[r], "idle")
        /\ Effect(RecvThreads, "closing", pc[r], "idle")
    BY <1>1, Moved
  <2> QED BY <2>1 DEF RecvClosed, Effect
<1>5. Live(SendThreads) = {} /\ Len(items) = 0
  BY Sizes DEF RecvClosed, CountsAgree
<1>6. TypeOK'
  BY <1>5, RequestedAssumption DEF RecvClosed, Capacity
<1>7. CountsAgree'
  BY <1>2, <1>3, <1>4, <1>5, Sizes DEF RecvClosed, CountsAgree
<1>8. WakeupsCoverItems'
  BY <1>2, <1>3, <1>4, <1>5, SizesNext DEF RecvClosed, WakeupsCoverItems
<1>9. WakeupsCoverRoom'
  BY <1>2, <1>3, <1>4, <1>5, Sizes DEF RecvClosed, WakeupsCoverRoom
<1>10. CloseIsAnnounced'
  BY <1>2, <1>3, <1>4, <1>5 DEF RecvClosed, CloseIsAnnounced
<1>11. HandsAgree'
  BY DEF RecvClosed, HandsAgree
<1>12. ClosedIsFinal'
  BY <1>2, <1>3, <1>4, <1>5 DEF RecvClosed, ClosedIsFinal, HandsAgree
<1> QED BY <1>6, <1>7, <1>8, <1>9, <1>10, <1>11, <1>12

(* Receiver::recv parks: the queue is empty and a sender is still there.     *)
LEMMA RecvWaitInv ==
  ASSUME IInv, NEW r \in RecvThreads, RecvWait(r)
  PROVE  IInv'
<1> USE ThreadsAssumption DEF IInv, TypeOK, Threads
<1>1. /\ \A y \in RecvThreads : pc'[y] = IF y = r THEN "wait" ELSE pc[y]
      /\ \A y \in SendThreads : pc'[y] = pc[y]
  BY DEF RecvWait
<1>2. /\ Live(SendThreads)' = Live(SendThreads)
      /\ \A l : At(SendThreads, l)' = At(SendThreads, l)
  BY <1>1, Unmoved
<1>3. Live(RecvThreads)' = Live(RecvThreads)
  BY <1>1, LiveSame DEF RecvWait
<1>4. /\ Cardinality(At(RecvThreads, "try")') = Cardinality(At(RecvThreads, "try")) - 1
      /\ Cardinality(At(RecvThreads, "wait")') = Cardinality(At(RecvThreads, "wait")) + 1
      /\ At(RecvThreads, "notify")' = At(RecvThreads, "notify")
      /\ At(RecvThreads, "closing")' = At(RecvThreads, "closing")
  <2>1. /\ Effect(RecvThreads, "try", pc[r], "wait")
        /\ Effect(RecvThreads, "wait", pc[r], "wait")
        /\ Effect(RecvThreads, "notify", pc[r], "wait")
        /\ Effect(RecvThreads, "closing", pc[r], "wait")
    BY <1>1, Moved
  <2> QED BY <2>1 DEF RecvWait, Effect
<1>5. Live(SendThreads) # {} /\ Len(items) = 0
  BY Sizes DEF RecvWait, CountsAgree
<1>6. TypeOK'
  BY <1>5, RequestedAssumption DEF RecvWait, Capacity
<1>7. CountsAgree'
  BY <1>2, <1>3, <1>4, <1>5, Sizes DEF RecvWait, CountsAgree
<1>8. WakeupsCoverItems'
  BY <1>2, <1>3, <1>4, <1>5, SizesNext DEF RecvWait, WakeupsCoverItems
<1>9. WakeupsCoverRoom'
  BY <1>2, <1>3, <1>4, <1>5, Sizes DEF RecvWait, WakeupsCoverRoom
<1>10. CloseIsAnnounced'
  BY <1>2, <1>3, <1>4, <1>5 DEF RecvWait, CloseIsAnnounced
<1>11. HandsAgree'
  BY DEF RecvWait, HandsAgree
<1>12. ClosedIsFinal'
  BY <1>2, <1>3, <1>4, <1>5 DEF RecvWait, ClosedIsFinal, HandsAgree
<1> QED BY <1>6, <1>7, <1>8, <1>9, <1>10, <1>11, <1>12

(* Clone for Sender: one more live handle and one more in the count.        *)
LEMMA CloneSenderInv ==
  ASSUME IInv, NEW s \in SendThreads, NEW u \in SendThreads, CloneSender(s, u)
  PROVE  IInv'
<1> USE ThreadsAssumption DEF IInv, TypeOK, Threads
<1>1. /\ \A y \in SendThreads : pc'[y] = IF y = u THEN "idle" ELSE pc[y]
      /\ \A y \in RecvThreads : pc'[y] = pc[y]
  BY DEF CloneSender
<1>2. /\ Live(RecvThreads)' = Live(RecvThreads)
      /\ \A l : At(RecvThreads, l)' = At(RecvThreads, l)
  BY <1>1, Unmoved
<1>3. /\ Cardinality(Live(SendThreads)') = Cardinality(Live(SendThreads)) + 1
      /\ Live(SendThreads) # {}
      /\ Live(SendThreads)' # {}
  <2>1. Cardinality(Live(SendThreads)') = Cardinality(Live(SendThreads)) + 1
    BY <1>1, LiveMoved DEF CloneSender
  <2> QED BY <1>1, <2>1 DEF CloneSender, Live
<1>4. /\ At(SendThreads, "try")' = At(SendThreads, "try")
      /\ At(SendThreads, "wait")' = At(SendThreads, "wait")
      /\ At(SendThreads, "notify")' = At(SendThreads, "notify")
      /\ At(SendThreads, "closing")' = At(SendThreads, "closing")
  <2>1. /\ Effect(SendThreads, "try", pc[u], "idle")
        /\ Effect(SendThreads, "wait", pc[u], "idle")
        /\ Effect(SendThreads, "notify", pc[u], "idle")
        /\ Effect(SendThreads, "closing", pc[u], "idle")
    BY <1>1, Moved
  <2> QED BY <2>1 DEF CloneSender, Effect
<1>5. TypeOK'
  BY RequestedAssumption DEF CloneSender, Capacity
<1>6. CountsAgree'
  BY <1>2, <1>3 DEF CloneSender, CountsAgree
<1>7. WakeupsCoverItems'
  BY <1>2, <1>4 DEF CloneSender, WakeupsCoverItems
<1>8. WakeupsCoverRoom'
  BY <1>2, <1>3, <1>4 DEF CloneSender, WakeupsCoverRoom
<1>9. CloseIsAnnounced'
  BY <1>2, <1>3, <1>4 DEF CloneSender, CloseIsAnnounced
<1>10. HandsAgree'
  BY DEF CloneSender, HandsAgree
<1>11. ClosedIsFinal'
  BY <1>2, <1>3 DEF CloneSender, ClosedIsFinal, HandsAgree
<1> QED BY <1>5, <1>6, <1>7, <1>8, <1>9, <1>10, <1>11

(* Clone for Receiver: one more live handle and one more in the count.        *)
LEMMA CloneReceiverInv ==
  ASSUME IInv, NEW r \in RecvThreads, NEW u \in RecvThreads, CloneReceiver(r, u)
  PROVE  IInv'
<1> USE ThreadsAssumption DEF IInv, TypeOK, Threads
<1>1. /\ \A y \in RecvThreads : pc'[y] = IF y = u THEN "idle" ELSE pc[y]
      /\ \A y \in SendThreads : pc'[y] = pc[y]
  BY DEF CloneReceiver
<1>2. /\ Live(SendThreads)' = Live(SendThreads)
      /\ \A l : At(SendThreads, l)' = At(SendThreads, l)
  BY <1>1, Unmoved
<1>3. /\ Cardinality(Live(RecvThreads)') = Cardinality(Live(RecvThreads)) + 1
      /\ Live(RecvThreads) # {}
      /\ Live(RecvThreads)' # {}
  <2>1. Cardinality(Live(RecvThreads)') = Cardinality(Live(RecvThreads)) + 1
    BY <1>1, LiveMoved DEF CloneReceiver
  <2> QED BY <1>1, <2>1 DEF CloneReceiver, Live
<1>4. /\ At(RecvThreads, "try")' = At(RecvThreads, "try")
      /\ At(RecvThreads, "wait")' = At(RecvThreads, "wait")
      /\ At(RecvThreads, "notify")' = At(RecvThreads, "notify")
      /\ At(RecvThreads, "closing")' = At(RecvThreads, "closing")
  <2>1. /\ Effect(RecvThreads, "try", pc[u], "idle")
        /\ Effect(RecvThreads, "wait", pc[u], "idle")
        /\ Effect(RecvThreads, "notify", pc[u], "idle")
        /\ Effect(RecvThreads, "closing", pc[u], "idle")
    BY <1>1, Moved
  <2> QED BY <2>1 DEF CloneReceiver, Effect
<1>5. TypeOK'
  BY RequestedAssumption DEF CloneReceiver, Capacity
<1>6. CountsAgree'
  BY <1>2, <1>3 DEF CloneReceiver, CountsAgree
<1>7. WakeupsCoverRoom'
  BY <1>2, <1>3, <1>4 DEF CloneReceiver, WakeupsCoverRoom
<1>8. WakeupsCoverItems'
  BY <1>2, <1>3, <1>4 DEF CloneReceiver, WakeupsCoverItems
<1>9. CloseIsAnnounced'
  BY <1>2, <1>3, <1>4 DEF CloneReceiver, CloseIsAnnounced
<1>10. HandsAgree'
  BY DEF CloneReceiver, HandsAgree
<1>11. ClosedIsFinal'
  BY <1>2, <1>3 DEF CloneReceiver, ClosedIsFinal, HandsAgree
<1> QED BY <1>5, <1>6, <1>7, <1>8, <1>9, <1>10, <1>11

(* Drop for Sender: one live handle less; the last one leaves its            *)
(* notification pending.                                                     *)
LEMMA DropSenderInv ==
  ASSUME IInv, NEW s \in SendThreads, DropSender(s)
  PROVE  IInv'
<1> USE ThreadsAssumption DEF IInv, TypeOK, Threads
<1> DEFINE b == IF senders' = 0 THEN "closing" ELSE "gone"
<1>1. /\ \A y \in SendThreads : pc'[y] = IF y = s THEN b ELSE pc[y]
      /\ \A y \in RecvThreads : pc'[y] = pc[y]
      /\ b = "closing" <=> senders' = 0
      /\ b \in {"closing", "gone"}
  BY DEF DropSender
<1> HIDE DEF b
<1>2. /\ Live(RecvThreads)' = Live(RecvThreads)
      /\ \A l : At(RecvThreads, l)' = At(RecvThreads, l)
  BY <1>1, Unmoved
<1>3. /\ Cardinality(Live(SendThreads)') = Cardinality(Live(SendThreads)) - 1
      /\ Live(SendThreads)' \subseteq Live(SendThreads)
      /\ Live(SendThreads) # {}
  <2>1. Cardinality(Live(SendThreads)') = Cardinality(Live(SendThreads)) - 1
    BY <1>1, LiveMoved DEF DropSender
  <2> QED BY <1>1, <2>1 DEF DropSender, Live
<1>4. /\ At(SendThreads, "try")' = At(SendThreads, "try")
      /\ At(SendThreads, "wait")' = At(SendThreads, "wait")
      /\ At(SendThreads, "notify")' = At(SendThreads, "notify")
  <2>1. /\ Effect(SendThreads, "try", pc[s], b)
        /\ Effect(SendThreads, "wait", pc[s], b)
        /\ Effect(SendThreads, "notify", pc[s], b)
    BY <1>1, Moved
  <2> QED BY <1>1, <2>1 DEF DropSender, Effect
<1>5. /\ senders' \in Nat
      /\ senders' = Cardinality(Live(SendThreads)')
  BY <1>3, Sizes DEF DropSender, CountsAgree
<1>6. Live(SendThreads)' = {} => At(SendThreads, "closing")' # {}
  <2>1. Live(SendThreads)' = {} => senders' = 0
    BY <1>5, FS_EmptySet
  <2> QED BY <1>1, <2>1 DEF At
<1>7. TypeOK'
  BY <1>5, RequestedAssumption DEF DropSender, Capacity
<1>8. CountsAgree'
  BY <1>2, <1>5 DEF DropSender, CountsAgree
<1>9. WakeupsCoverItems'
  BY <1>2, <1>4 DEF DropSender, WakeupsCoverItems
<1>10. WakeupsCoverRoom'
  BY <1>2, <1>3, <1>4 DEF DropSender, WakeupsCoverRoom
<1>11. CloseIsAnnounced'
  BY <1>2, <1>3, <1>4, <1>6 DEF DropSender, CloseIsAnnounced
<1>12. HandsAgree'
  BY <1>1 DEF DropSender, HandsAgree
<1>13. ClosedIsFinal'
  BY <1>1, <1>2, <1>3 DEF DropSender, ClosedIsFinal
<1> QED BY <1>7, <1>8, <1>9, <1>10, <1>11, <1>12, <1>13

(* Drop for Receiver: one live handle less; the last one leaves its            *)
(* notification pending.                                                     *)
LEMMA DropReceiverInv ==
  ASSUME IInv, NEW r \in RecvThreads, DropReceiver(r)
  PROVE  IInv'
<1> USE ThreadsAssumption DEF IInv, TypeOK, Threads
<1> DEFINE b == IF receivers' = 0 THEN "closing" ELSE "gone"
<1>1. /\ \A y \in RecvThreads : pc'[y] = IF y = r THEN b ELSE pc[y]
      /\ \A y \in SendThreads : pc'[y] = pc[y]
      /\ b = "closing" <=> receivers' = 0
      /\ b \in {"closing", "gone"}
  BY DEF DropReceiver
<1> HIDE DEF b
<1>2. /\ Live(SendThreads)' = Live(SendThreads)
      /\ \A l : At(SendThreads, l)' = At(SendThreads, l)
  BY <1>1, Unmoved
<1>3. /\ Cardinality(Live(RecvThreads)') = Cardinality(Live(RecvThreads)) - 1
      /\ Live(RecvThreads)' \subseteq Live(RecvThreads)
      /\ Live(RecvThreads) # {}
  <2>1. Cardinality(Live(RecvThreads)') = Cardinality(Live(RecvThreads)) - 1
    BY <1>1, LiveMoved DEF DropReceiver
  <2> QED BY <1>1, <2>1 DEF DropReceiver, Live
<1>4. /\ At(RecvThreads, "try")' = At(RecvThreads, "try")
      /\ At(RecvThreads, "wait")' = At(RecvThreads, "wait")
      /\ At(RecvThreads, "notify")' = At(RecvThreads, "notify")
  <2>1. /\ Effect(RecvThreads, "try", pc[r], b)
        /\ Effect(RecvThreads, "wait", pc[r], b)
        /\ Effect(RecvThreads, "notify", pc[r], b)
    BY <1>1, Moved
  <2> QED BY <1>1, <2>1 DEF DropReceiver, Effect
<1>5. /\ receivers' \in Nat
      /\ receivers' = Cardinality(Live(RecvThreads)')
  BY <1>3, Sizes DEF DropReceiver, CountsAgree
<1>6. Live(RecvThreads)' = {} => At(RecvThreads, "closing")' # {}
  <2>1. Live(RecvThreads)' = {} => receivers' = 0
    BY <1>5, FS_EmptySet
  <2> QED BY <1>1, <2>1 DEF At
<1>7. TypeOK'
  BY <1>5, RequestedAssumption DEF DropReceiver, Capacity
<1>8. CountsAgree'
  BY <1>2, <1>5 DEF DropReceiver, CountsAgree
<1>9. WakeupsCoverRoom'
  BY <1>2, <1>3, <1>4 DEF DropReceiver, WakeupsCoverRoom
<1>10. WakeupsCoverItems'
  BY <1>2, <1>3, <1>4 DEF DropReceiver, WakeupsCoverItems
<1>11. CloseIsAnnounced'
  BY <1>2, <1>3, <1>4, <1>6 DEF DropReceiver, CloseIsAnnounced
<1>12. HandsAgree'
  BY <1>1 DEF DropReceiver, HandsAgree
<1>13. ClosedIsFinal'
  BY <1>1, <1>2, <1>3 DEF DropReceiver, ClosedIsFinal
<1> QED BY <1>7, <1>8, <1>9, <1>10, <1>11, <1>12, <1>13

(* The notify_one of send: the pending wake-up becomes an awake receiver, or *)
(* there is nobody to wake.                                                  *)
LEMMA SendNotifyInv ==
  ASSUME IInv, NEW s \in SendThreads, SendNotify(s)
  PROVE  IInv'
<1> USE ThreadsAssumption DEF IInv, TypeOK, Threads
<1>1. /\ pc[s] = "notify"
      /\ \A y \in SendThreads : pc'[y] = IF y = s THEN "idle" ELSE pc[y]
      /\ \A y \in RecvThreads : pc'[y] = pc[y] \/ pc'[y] = "try"
  BY DEF SendNotify, NotifyOne, At
<1>2. Live(SendThreads)' = Live(SendThreads)
  BY <1>1, LiveSame
<1>3. /\ At(SendThreads, "try")' = At(SendThreads, "try")
      /\ At(SendThreads, "wait")' = At(SendThreads, "wait")
      /\ Cardinality(At(SendThreads, "notify")') = Cardinality(At(SendThreads, "notify")) - 1
      /\ At(SendThreads, "closing")' = At(SendThreads, "closing")
  <2>1. /\ Effect(SendThreads, "try", pc[s], "idle")
        /\ Effect(SendThreads, "wait", pc[s], "idle")
        /\ Effect(SendThreads, "notify", pc[s], "idle")
        /\ Effect(SendThreads, "closing", pc[s], "idle")
    BY <1>1, Moved
  <2> QED BY <2>1 DEF SendNotify, Effect
<1>4. /\ Live(RecvThreads)' = Live(RecvThreads)
      /\ At(RecvThreads, "notify")' = At(RecvThreads, "notify")
      /\ At(RecvThreads, "closing")' = At(RecvThreads, "closing")
      /\ \/ At(RecvThreads, "wait") = {} /\ At(RecvThreads, "wait")' = {}
         \/ /\ At(RecvThreads, "wait") # {}
            /\ Cardinality(At(RecvThreads, "try")') = Cardinality(At(RecvThreads, "try")) + 1
  <2>1. CASE /\ At(RecvThreads, "wait") = {}
             /\ pc' = [pc EXCEPT ![s] = "idle"]
    <3>1. \A y \in RecvThreads : pc'[y] = pc[y]
      BY <2>1
    <3> QED BY <2>1, <3>1, Unmoved
  <2>2. CASE \E w \in At(RecvThreads, "wait") : pc' = [pc EXCEPT ![s] = "idle", ![w] = "try"]
    <3>1. PICK w \in At(RecvThreads, "wait") : pc' = [pc EXCEPT ![s] = "idle", ![w] = "try"]
      BY <2>2
    <3>2. w \in RecvThreads /\ pc[w] = "wait"
      BY DEF At
    <3>3. \A y \in RecvThreads : pc'[y] = IF y = w THEN "try" ELSE pc[y]
      BY <3>1, <3>2
    <3>4. /\ Effect(RecvThreads, "try", pc[w], "try")
          /\ Effect(RecvThreads, "notify", pc[w], "try")
          /\ Effect(RecvThreads, "closing", pc[w], "try")
      BY <3>2, <3>3, Moved
    <3>5. Live(RecvThreads)' = Live(RecvThreads)
      BY <3>2, <3>3, LiveSame
    <3> QED BY <3>2, <3>4, <3>5 DEF Effect
  <2> QED BY <2>1, <2>2 DEF SendNotify, NotifyOne
<1>5. At(RecvThreads, "wait")' \subseteq At(RecvThreads, "wait")
  BY DEF SendNotify, NotifyOne, At
<1>6. TypeOK'
  BY RequestedAssumption DEF SendNotify, NotifyOne, At, Capacity
<1>7. CountsAgree'
  BY <1>2, <1>4 DEF SendNotify, CountsAgree
<1>8. WakeupsCoverItems'
  BY <1>3, <1>4, <1>5, Sizes DEF SendNotify, WakeupsCoverItems
<1>9. WakeupsCoverRoom'
  BY <1>2, <1>3, <1>4 DEF SendNotify, WakeupsCoverRoom
<1>10. CloseIsAnnounced'
  BY <1>2, <1>3, <1>4, <1>5 DEF SendNotify, CloseIsAnnounced
<1>11. HandsAgree'
  BY DEF SendNotify, NotifyOne, HandsAgree, At
<1>12. ClosedIsFinal'
  BY <1>1, <1>2, <1>4 DEF SendNotify, ClosedIsFinal, HandsAgree
<1> QED BY <1>6, <1>7, <1>8, <1>9, <1>10, <1>11, <1>12

(* The notify_one of recv: the pending wake-up becomes an awake sender, or *)
(* there is nobody to wake.                                                  *)
LEMMA RecvNotifyInv ==
  ASSUME IInv, NEW r \in RecvThreads, RecvNotify(r)
  PROVE  IInv'
<1> USE ThreadsAssumption DEF IInv, TypeOK, Threads
<1>1. /\ pc[r] = "notify"
      /\ \A y \in RecvThreads : pc'[y] = IF y = r THEN "idle" ELSE pc[y]
      /\ \A y \in SendThreads : pc'[y] = pc[y] \/ pc'[y] = "try"
  BY DEF RecvNotify, NotifyOne, At
<1>2. Live(RecvThreads)' = Live(RecvThreads)
  BY <1>1, LiveSame
<1>3. /\ At(RecvThreads, "try")' = At(RecvThreads, "try")
      /\ At(RecvThreads, "wait")' = At(RecvThreads, "wait")
      /\ Cardinality(At(RecvThreads, "notify")') = Cardinality(At(RecvThreads, "notify")) - 1
      /\ At(RecvThreads, "closing")' = At(RecvThreads, "closing")
  <2>1. /\ Effect(RecvThreads, "try", pc[r], "idle")
        /\ Effect(RecvThreads, "wait", pc[r], "idle")
        /\ Effect(RecvThreads, "notify", pc[r], "idle")
        /\ Effect(RecvThreads, "closing", pc[r], "idle")
    BY <1>1, Moved
  <2> QED BY <2>1 DEF RecvNotify, Effect
<1>4. /\ Live(SendThreads)' = Live(SendThreads)
      /\ At(SendThreads, "notify")' = At(SendThreads, "notify")
      /\ At(SendThreads, "closing")' = At(SendThreads, "closing")
      /\ \/ At(SendThreads, "wait") = {} /\ At(SendThreads, "wait")' = {}
         \/ /\ At(SendThreads, "wait") # {}
            /\ Cardinality(At(SendThreads, "try")') = Cardinality(At(SendThreads, "try")) + 1
  <2>1. CASE /\ At(SendThreads, "wait") = {}
             /\ pc' = [pc EXCEPT ![r] = "idle"]
    <3>1. \A y \in SendThreads : pc'[y] = pc[y]
      BY <2>1
    <3> QED BY <2>1, <3>1, Unmoved
  <2>2. CASE \E w \in At(SendThreads, "wait") : pc' = [pc EXCEPT ![r] = "idle", ![w] = "try"]
    <3>1. PICK w \in At(SendThreads, "wait") : pc' = [pc EXCEPT ![r] = "idle", ![w] = "try"]
      BY <2>2
    <3>2. w \in SendThreads /\ pc[w] = "wait"
      BY DEF At
    <3>3. \A y \in SendThreads : pc'[y] = IF y = w THEN "try" ELSE pc[y]
      BY <3>1, <3>2
    <3>4. /\ Effect(SendThreads, "try", pc[w], "try")
          /\ Effect(SendThreads, "notify", pc[w], "try")
          /\ Effect(SendThreads, "closing", pc[w], "try")
      BY <3>2, <3>3, Moved
    <3>5. Live(SendThreads)' = Live(SendThreads)
      BY <3>2, <3>3, LiveSame
    <3> QED BY <3>2, <3>4, <3>5 DEF Effect
  <2> QED BY <2>1, <2>2 DEF RecvNotify, NotifyOne
<1>5. At(SendThreads, "wait")' \subseteq At(SendThreads, "wait")
  BY DEF RecvNotify, NotifyOne, At
<1>6. TypeOK'
  BY RequestedAssumption DEF RecvNotify, NotifyOne, At, Capacity
<1>7. CountsAgree'
  BY <1>2, <1>4 DEF RecvNotify, CountsAgree
<1>8. WakeupsCoverRoom'
  BY <1>2, <1>3, <1>4, <1>5, Sizes, CapacityPositive DEF RecvNotify, WakeupsCoverRoom
<1>9. WakeupsCoverItems'
  BY <1>2, <1>3, <1>4 DEF RecvNotify, WakeupsCoverItems
<1>10. CloseIsAnnounced'
  BY <1>2, <1>3, <1>4, <1>5 DEF RecvNotify, CloseIsAnnounced
<1>11. HandsAgree'
  BY DEF RecvNotify, NotifyOne, HandsAgree, At
<1>12. ClosedIsFinal'
  BY <1>1, <1>2, <1>4 DEF RecvNotify, ClosedIsFinal, HandsAgree
<1> QED BY <1>6, <1>7, <1>8, <1>9, <1>10, <1>11, <1>12

(* The notify_all of Drop for Sender: nobody is left parked.                 *)
LEMMA DropSenderNotifyInv ==
  ASSUME IInv, NEW s \in SendThreads, DropSenderNotify(s)
  PROVE  IInv'
<1> USE ThreadsAssumption DEF IInv, TypeOK, Threads
<1>1. \A y \in SendThreads : pc'[y] = IF y = s THEN "gone" ELSE pc[y]
  BY DEF DropSenderNotify, NotifyAll, At
<1>2. \A y \in RecvThreads : pc'[y] = IF pc[y] = "wait" THEN "try" ELSE pc[y]
  BY DEF DropSenderNotify, NotifyAll, At
<1>3. /\ At(SendThreads, "try")' = At(SendThreads, "try")
      /\ At(SendThreads, "wait")' = At(SendThreads, "wait")
      /\ At(SendThreads, "notify")' = At(SendThreads, "notify")
  <2>1. /\ Effect(SendThreads, "try", pc[s], "gone")
        /\ Effect(SendThreads, "wait", pc[s], "gone")
        /\ Effect(SendThreads, "notify", pc[s], "gone")
    BY <1>1, Moved
  <2> QED BY <2>1 DEF DropSenderNotify, Effect
<1>4. /\ At(RecvThreads, "wait")' = {}
      /\ At(RecvThreads, "notify")' = At(RecvThreads, "notify")
      /\ At(RecvThreads, "closing")' = At(RecvThreads, "closing")
  BY <1>2 DEF At
<1>5. Live(RecvThreads)' = Live(RecvThreads)
  BY <1>2 DEF Live
<1>6. Live(SendThreads)' = Live(SendThreads)
  BY <1>1, LiveMoved DEF DropSenderNotify
<1>7. TypeOK'
  BY RequestedAssumption DEF DropSenderNotify, NotifyAll, Capacity
<1>8. CountsAgree'
  BY <1>5, <1>6 DEF DropSenderNotify, CountsAgree
<1>9. WakeupsCoverItems'
  BY <1>3, <1>4 DEF DropSenderNotify, WakeupsCoverItems
<1>10. WakeupsCoverRoom'
  BY <1>3, <1>4, <1>5 DEF DropSenderNotify, WakeupsCoverRoom
<1>11. CloseIsAnnounced'
  BY <1>3, <1>4, <1>5 DEF DropSenderNotify, CloseIsAnnounced
<1>12. HandsAgree'
  BY <1>1 DEF DropSenderNotify, HandsAgree
<1>13. ClosedIsFinal'
  BY <1>1, <1>5, <1>6 DEF DropSenderNotify, ClosedIsFinal
<1> QED BY <1>7, <1>8, <1>9, <1>10, <1>11, <1>12, <1>13

(* The notify_all of Drop for Receiver: nobody is left parked.                 *)
LEMMA DropReceiverNotifyInv ==
  ASSUME IInv, NEW r \in RecvThreads, DropReceiverNotify(r)
  PROVE  IInv'
<1> USE ThreadsAssumption DEF IInv, TypeOK, Threads
<1>1. \A y \in RecvThreads : pc'[y] = IF y = r THEN "gone" ELSE pc[y]
  BY DEF DropReceiverNotify, NotifyAll, At
<1>2. \A y \in SendThreads : pc'[y] = IF pc[y] = "wait" THEN "try" ELSE pc[y]
  BY DEF DropReceiverNotify, NotifyAll, At
<1>3. /\ At(RecvThreads, "try")' = At(RecvThreads, "try")
      /\ At(RecvThreads, "wait")' = At(RecvThreads, "wait")
      /\ At(RecvThreads, "notify")' = At(RecvThreads, "notify")
  <2>1. /\ Effect(RecvThreads, "try", pc[r], "gone")
        /\ Effect(RecvThreads, "wait", pc[r], "gone")
        /\ Effect(RecvThreads, "notify", pc[r], "gone")
    BY <1>1, Moved
  <2> QED BY <2>1 DEF DropReceiverNotify, Effect
<1>4. /\ At(SendThreads, "wait")' = {}
      /\ At(SendThreads, "notify")' = At(SendThreads, "notify")
      /\ At(SendThreads, "closing")' = At(SendThreads, "closing")
  BY <1>2 DEF At
<1>5. Live(SendThreads)' = Live(SendThreads)
  BY <1>2 DEF Live
<1>6. Live(RecvThreads)' = Live(RecvThreads)
  BY <1>1, LiveMoved DEF DropReceiverNotify
<1>7. TypeOK'
  BY RequestedAssumption DEF DropReceiverNotify, NotifyAll, Capacity
<1>8. CountsAgree'
  BY <1>5, <1>6 DEF DropReceiverNotify, CountsAgree
<1>9. WakeupsCoverRoom'
  BY <1>3, <1>4 DEF DropReceiverNotify, WakeupsCoverRoom
<1>10. WakeupsCoverItems'
  BY <1>3, <1>4, <1>5 DEF DropReceiverNotify, WakeupsCoverItems
<1>11. CloseIsAnnounced'
  BY <1>3, <1>4, <1>5 DEF DropReceiverNotify, CloseIsAnnounced
<1>12. HandsAgree'
  BY <1>2 DEF DropReceiverNotify, HandsAgree
<1>13. ClosedIsFinal'
  BY <1>2, <1>5, <1>6 DEF DropReceiverNotify, ClosedIsFinal
<1> QED BY <1>7, <1>8, <1>9, <1>10, <1>11, <1>12, <1>13

(* A spurious wake-up only adds an awake thread.                            *)
LEMMA SpuriousWakeupInv ==
  ASSUME IInv, NEW t \in Threads, SpuriousWakeup(t)
  PROVE  IInv'
<1> USE ThreadsAssumption DEF IInv, TypeOK, Threads
<1>1. TypeOK'
  BY RequestedAssumption DEF SpuriousWakeup, Capacity
<1>2. HandsAgree'
  BY DEF SpuriousWakeup, HandsAgree
<1>3. CASE t \in SendThreads
  <2>1. /\ \A y \in SendThreads : pc'[y] = IF y = t THEN "try" ELSE pc[y]
        /\ \A y \in RecvThreads : pc'[y] = pc[y]
    BY <1>3 DEF SpuriousWakeup
  <2>2. /\ Live(RecvThreads)' = Live(RecvThreads)
        /\ \A l : At(RecvThreads, l)' = At(RecvThreads, l)
    BY <2>1, Unmoved
  <2>3. Live(SendThreads)' = Live(SendThreads)
    BY <1>3, <2>1, LiveSame DEF SpuriousWakeup
  <2>4. /\ Cardinality(At(SendThreads, "try")') = Cardinality(At(SendThreads, "try")) + 1
        /\ At(SendThreads, "notify")' = At(SendThreads, "notify")
        /\ At(SendThreads, "closing")' = At(SendThreads, "closing")
        /\ At(SendThreads, "wait") # {}
    <3>1. /\ Effect(SendThreads, "try", pc[t], "try")
          /\ Effect(SendThreads, "notify", pc[t], "try")
          /\ Effect(SendThreads, "closing", pc[t], "try")
      BY <1>3, <2>1, Moved
    <3> QED BY <1>3, <3>1 DEF SpuriousWakeup, Effect, At
  <2>5. CountsAgree' /\ CloseIsAnnounced'
    BY <2>2, <2>3, <2>4 DEF SpuriousWakeup, CountsAgree, CloseIsAnnounced
  <2>6. WakeupsCoverItems'
    BY <2>2, <2>4 DEF SpuriousWakeup, WakeupsCoverItems
  <2>7. WakeupsCoverRoom'
    BY <2>2, <2>4, Sizes, CapacityPositive DEF SpuriousWakeup, WakeupsCoverRoom
  <2>8. ClosedIsFinal'
    BY <2>1, <2>2, <2>3 DEF SpuriousWakeup, ClosedIsFinal
  <2> QED BY <1>1, <1>2, <2>5, <2>6, <2>7, <2>8
<1>4. CASE t \in RecvThreads
  <2>1. /\ \A y \in RecvThreads : pc'[y] = IF y = t THEN "try" ELSE pc[y]
        /\ \A y \in SendThreads : pc'[y] = pc[y]
    BY <1>4 DEF SpuriousWakeup
  <2>2. /\ Live(SendThreads)' = Live(SendThreads)
        /\ \A l : At(SendThreads, l)' = At(SendThreads, l)
    BY <2>1, Unmoved
  <2>3. Live(RecvThreads)' = Live(RecvThreads)
    BY <1>4, <2>1, LiveSame DEF SpuriousWakeup
  <2>4. /\ Cardinality(At(RecvThreads, "try")') = Cardinality(At(RecvThreads, "try")) + 1
        /\ At(RecvThreads, "notify")' = At(RecvThreads, "notify")
        /\ At(RecvThreads, "closing")' = At(RecvThreads, "closing")
        /\ At(RecvThreads, "wait") # {}
    <3>1. /\ Effect(RecvThreads, "try", pc[t], "try")
          /\ Effect(RecvThreads, "notify", pc[t], "try")
          /\ Effect(RecvThreads, "closing", pc[t], "try")
      BY <1>4, <2>1, Moved
    <3> QED BY <1>4, <3>1 DEF SpuriousWakeup, Effect, At
  <2>5. CountsAgree' /\ CloseIsAnnounced'
    BY <2>2, <2>3, <2>4 DEF SpuriousWakeup, CountsAgree, CloseIsAnnounced
  <2>6. WakeupsCoverRoom'
    BY <2>2, <2>3, <2>4 DEF SpuriousWakeup, WakeupsCoverRoom
  <2>7. WakeupsCoverItems'
    BY <2>2, <2>4, Sizes, CapacityPositive DEF SpuriousWakeup, WakeupsCoverItems
  <2>8. ClosedIsFinal'
    BY <2>1, <2>2, <2>3 DEF SpuriousWakeup, ClosedIsFinal
  <2> QED BY <1>1, <1>2, <2>5, <2>6, <2>7, <2>8
<1> QED BY <1>3, <1>4

(* Every step of the channel preserves the invariant.                      *)
LEMMA Inductive ==
  ASSUME IInv, [Next]_vars
  PROVE  IInv'
<1>1. CASE UNCHANGED vars
  BY <1>1 DEF vars, IInv, TypeOK, CountsAgree, WakeupsCoverItems, WakeupsCoverRoom,
     CloseIsAnnounced, HandsAgree, ClosedIsFinal, At, Live
<1>2. CASE \E s \in SendThreads :
             \/ SendStep(s) \/ DropSender(s)
             \/ \E v \in Values : SendStart(s, v)
             \/ \E u \in SendThreads : CloneSender(s, u)
  BY <1>2, SendStartInv, SendRefusedInv, SendPushInv, SendWaitInv, SendNotifyInv,
     DropSenderInv, DropSenderNotifyInv, CloneSenderInv DEF SendStep
<1>3. CASE \E r \in RecvThreads :
             \/ RecvStep(r) \/ DropReceiver(r) \/ RecvStart(r)
             \/ \E u \in RecvThreads : CloneReceiver(r, u)
  BY <1>3, RecvStartInv, RecvPopInv, RecvClosedInv, RecvWaitInv, RecvNotifyInv,
     DropReceiverInv, DropReceiverNotifyInv, CloneReceiverInv DEF RecvStep
<1>4. CASE \E t \in Threads : SpuriousWakeup(t)
  BY <1>4, SpuriousWakeupInv
<1> QED BY <1>1, <1>2, <1>3, <1>4 DEF Next

(* bounded() starts with one live handle on each side and nobody waiting.   *)
LEMMA Initial ==
  ASSUME Init
  PROVE  IInv
<1> USE ThreadsAssumption DEF Init, Threads
<1>1. PICK s \in SendThreads, r \in RecvThreads :
         pc = [t \in Threads |-> IF t \in {s, r} THEN "idle" ELSE "none"]
  OBVIOUS
<1>2. Live(SendThreads) = {s} /\ Live(RecvThreads) = {r}
  BY <1>1 DEF Live
<1>3. CountsAgree
  BY <1>2, FS_Singleton DEF CountsAgree
<1>4. TypeOK
  BY <1>1, CapacityPositive DEF TypeOK
<1>5. WakeupsCoverItems /\ WakeupsCoverRoom /\ CloseIsAnnounced
  BY <1>1 DEF WakeupsCoverItems, WakeupsCoverRoom, CloseIsAnnounced, At
<1>6. HandsAgree /\ ClosedIsFinal
  BY <1>1, ValuesAssumption DEF HandsAgree, ClosedIsFinal
<1> QED BY <1>3, <1>4, <1>5, <1>6 DEF IInv

(* The inductive invariant holds of every behaviour of chan.rs.             *)
THEOREM Invariance == Spec => []IInv
<1>1. Init => IInv
  BY Initial
<1>2. IInv /\ [Next]_vars => IInv'
  BY Inductive
<1> QED BY <1>1, <1>2, PTL DEF Spec, SafeSpec

(* The queue never outgrows its clamped capacity and the counters never     *)
(* underflow, for any number of threads and any capacity.                   *)
THEOREM TypeCorrect == Spec => []TypeOK
<1>1. IInv => TypeOK
  BY DEF IInv
<1> QED BY <1>1, Invariance, PTL

(* recv never loses a wake-up, although send and Drop for Sender notify      *)
(* after they have released the lock: for any number of senders and          *)
(* receivers and any capacity.                                               *)
THEOREM NoReceiverStranded == Spec => []NoStrandedReceiver
<1>1. IInv => NoStrandedReceiver
  <2> SUFFICES ASSUME IInv, At(RecvThreads, "wait") # {},
                      items # <<>> \/ Live(SendThreads) = {}
               PROVE  At(SendThreads, "notify") \cup At(SendThreads, "closing")
                        \cup At(RecvThreads, "try") # {}
    BY DEF NoStrandedReceiver
  <2>1. CASE Live(SendThreads) = {}
    BY <2>1 DEF IInv, CloseIsAnnounced
  <2>2. CASE items # <<>>
    <3>1. Len(items) \in Nat /\ Len(items) # 0
      BY <2>2 DEF IInv, TypeOK
    <3>2. Cardinality(At(SendThreads, "notify")) + Cardinality(At(RecvThreads, "try")) # 0
      BY <3>1, Sizes, ThreadsAssumption DEF IInv, WakeupsCoverItems
    <3>3. At(SendThreads, "notify") # {} \/ At(RecvThreads, "try") # {}
      BY <3>2, Sizes, ThreadsAssumption
    <3> QED BY <3>3
  <2> QED BY <2>1, <2>2
<1> QED BY <1>1, Invariance, PTL

(* send never loses a wake-up, although recv and Drop for Receiver notify    *)
(* after they have released the lock.                                        *)
THEOREM NoSenderStranded == Spec => []NoStrandedSender
<1>1. IInv => NoStrandedSender
  <2> SUFFICES ASSUME IInv, At(SendThreads, "wait") # {},
                      Len(items) < Capacity \/ Live(RecvThreads) = {}
               PROVE  At(RecvThreads, "notify") \cup At(RecvThreads, "closing")
                        \cup At(SendThreads, "try") # {}
    BY DEF NoStrandedSender
  <2>1. CASE Live(RecvThreads) = {}
    BY <2>1 DEF IInv, CloseIsAnnounced
  <2>2. CASE Len(items) < Capacity /\ Live(RecvThreads) # {}
    <3>1. Len(items) \in Nat
      BY DEF IInv, TypeOK
    <3>2. Cardinality(At(RecvThreads, "notify")) + Cardinality(At(SendThreads, "try")) # 0
      BY <2>2, <3>1, Sizes, ThreadsAssumption, CapacityPositive DEF IInv, WakeupsCoverRoom
    <3>3. At(RecvThreads, "notify") # {} \/ At(SendThreads, "try") # {}
      BY <3>2, Sizes, ThreadsAssumption
    <3> QED BY <3>3
  <2> QED BY <2>1, <2>2
<1> QED BY <1>1, Invariance, PTL

(* Sender and receiver never wait for each other, whatever capacity bounded() *)
(* was given: zero becomes one, so a queue is never empty and full at once.   *)
THEOREM NoMutualWait == Spec => []NeverBothParked
<1>1. TypeOK /\ NoStrandedReceiver /\ NoStrandedSender => NeverBothParked
  <2> SUFFICES ASSUME TypeOK, NoStrandedReceiver, NoStrandedSender,
                      At(SendThreads, "wait") # {}, At(RecvThreads, "wait") # {}
               PROVE  \E t \in Threads : pc[t] \in {"try", "notify", "closing"}
    BY DEF NeverBothParked
  <2>1. items # <<>> \/ Len(items) < Capacity
    BY CapacityPositive DEF TypeOK
  <2>2. CASE items # <<>>
    BY <2>2 DEF NoStrandedReceiver, At, Threads
  <2>3. CASE Len(items) < Capacity
    BY <2>3 DEF NoStrandedSender, At, Threads
  <2> QED BY <2>1, <2>2, <2>3
<1> QED BY <1>1, TypeCorrect, NoReceiverStranded, NoSenderStranded, PTL

(* recv says None, and send hands its value back, only when the other side   *)
(* is really gone for good, whatever the order of clones and drops.          *)
THEOREM ClosingIsFinal == Spec => []ClosedIsFinal
<1>1. IInv => ClosedIsFinal
  BY DEF IInv
<1> QED BY <1>1, Invariance, PTL

-----------------------------------------------------------------------------
(***************************************************************************)
(* The channel implements the contract of BlockingChan, step by step.      *)
(***************************************************************************)

(* What the users of the channel see of a thread at a label. *)
Seen(label) == CASE label \in {"try", "wait"}      -> "busy"
                 [] label \in {"idle", "notify"}   -> "idle"
                 [] label \in {"closing", "gone"}  -> "gone"
                 [] OTHER                          -> "none"

Op == [t \in Threads |-> CASE pc[t] \in {"try", "wait"}      -> "busy"
                           [] pc[t] \in {"idle", "notify"}   -> "idle"
                           [] pc[t] \in {"closing", "gone"}  -> "gone"
                           [] OTHER                          -> "none"]

LEMMA OpIsSeen ==
    /\ Op = [t \in Threads |-> Seen(pc[t])]
    /\ Op' = [t \in Threads |-> Seen(pc'[t])]
  BY DEF Op, Seen

LEMMA SeenIs ==
    /\ Seen("try") = "busy" /\ Seen("wait") = "busy" /\ Seen("idle") = "idle" /\ Seen("notify") = "idle"
    /\ Seen("closing") = "gone" /\ Seen("gone") = "gone" /\ Seen("none") = "none"
  BY DEF Seen

LEMMA OpMoves ==
    ASSUME TypeOK, NEW t \in Threads
    PROVE  /\ pc' = [pc EXCEPT ![t] = "try"] => Op' = [Op EXCEPT ![t] = "busy"]
           /\ pc' = [pc EXCEPT ![t] = "idle"] => Op' = [Op EXCEPT ![t] = "idle"]
           /\ pc' = [pc EXCEPT ![t] = "notify"] => Op' = [Op EXCEPT ![t] = "idle"]
           /\ pc' = [pc EXCEPT ![t] = "closing"] => Op' = [Op EXCEPT ![t] = "gone"]
           /\ pc' = [pc EXCEPT ![t] = "gone"] => Op' = [Op EXCEPT ![t] = "gone"]
  <1>1. ASSUME NEW label, pc' = [pc EXCEPT ![t] = label]
        PROVE  Op' = [Op EXCEPT ![t] = Seen(label)]
    BY <1>1, OpIsSeen DEF TypeOK
  <1>2. /\ pc' = [pc EXCEPT ![t] = "try"] => Op' = [Op EXCEPT ![t] = Seen("try")]
        /\ pc' = [pc EXCEPT ![t] = "idle"] => Op' = [Op EXCEPT ![t] = Seen("idle")]
        /\ pc' = [pc EXCEPT ![t] = "notify"] => Op' = [Op EXCEPT ![t] = Seen("notify")]
        /\ pc' = [pc EXCEPT ![t] = "closing"] => Op' = [Op EXCEPT ![t] = Seen("closing")]
        /\ pc' = [pc EXCEPT ![t] = "gone"] => Op' = [Op EXCEPT ![t] = Seen("gone")]
    BY <1>1
  <1> QED
    BY <1>2, SeenIs

LEMMA LiveIsSeen ==
    ASSUME TypeOK, NEW T \in SUBSET Threads
    PROVE  Contract!Live(T) = Live(T)
  <1>1. ASSUME NEW t \in T
        PROVE  Op[t] \in {"idle", "busy"} <=> pc[t] \in {"idle", "try", "wait", "notify"}
    <2>1. Op[t] = Seen(pc[t])
      BY OpIsSeen
    <2>2. pc[t] \in {"none", "idle", "try", "wait", "notify", "closing", "gone"}
      BY DEF TypeOK
    <2> QED
      BY <2>1, <2>2, SeenIs
  <1>2. Contract!Live(T) = {t \in T : Op[t] \in {"idle", "busy"}}
    BY DEF Contract!Live, Op, Contract!Threads, Threads
  <1> QED
    BY <1>1, <1>2 DEF Live

(* A step whose effect the users of the channel do not see. *)
LEMMA Unseen ==
    ASSUME Op' = Op, UNCHANGED <<items, slot>>
    PROVE  UNCHANGED Contract!vars
  BY DEF Contract!vars, Op

LEMMA SeenSame ==
    ASSUME \A t \in Threads : Seen(pc'[t]) = Seen(pc[t])
    PROVE  Op' = Op
  BY OpIsSeen

LEMMA SenderRefines ==
    ASSUME IInv, NEW s \in SendThreads,
           \/ SendStep(s) \/ DropSender(s)
           \/ \E v \in Values : SendStart(s, v)
           \/ \E u \in SendThreads : CloneSender(s, u)
    PROVE  [Contract!Next]_(Contract!vars)
  <1>0. TypeOK /\ s \in Threads /\ SendThreads \in SUBSET Threads /\ RecvThreads \in SUBSET Threads
    BY DEF IInv, Threads
  <1>1. \A t \in Threads : Op[t] = Seen(pc[t])
    BY OpIsSeen
  <1>2. ASSUME NEW v \in Values, SendStart(s, v)
        PROVE  Contract!Next
    <2>1. /\ Op[s] = "idle" /\ Op' = [Op EXCEPT ![s] = "busy"]
          /\ slot' = [slot EXCEPT ![s] = v] /\ items' = items
      BY <1>0, <1>1, <1>2, OpMoves, SeenIs DEF SendStart
    <2>2. Contract!Begin(s, v)
      BY <2>1 DEF Contract!Begin, Op
    <2> QED
      BY <2>2 DEF Contract!Next
  <1>3. CASE SendRefused(s)
    <2>1. /\ Op[s] = "busy" /\ Op' = [Op EXCEPT ![s] = "idle"]
          /\ UNCHANGED <<items, slot>> /\ receivers = 0
      BY <1>0, <1>1, <1>3, OpMoves, SeenIs DEF SendRefused
    <2>2. Contract!Live(RecvThreads) = {}
      <3>1. receivers = Cardinality(Live(RecvThreads)) /\ IsFiniteSet(Live(RecvThreads))
        BY Sizes, FS_Subset, ThreadsAssumption DEF IInv, CountsAgree, Live
      <3>2. Live(RecvThreads) = {}
        BY <2>1, <3>1, FS_EmptySet
      <3> QED
        BY <1>0, <3>2, LiveIsSeen
    <2>3. Contract!SendErr(s)
      BY <2>1, <2>2 DEF Contract!SendErr, Op
    <2> QED
      BY <2>3 DEF Contract!Next
  <1>4. CASE SendPush(s)
    <2>1. /\ Op[s] = "busy" /\ Op' = [Op EXCEPT ![s] = "idle"] /\ receivers # 0
          /\ Len(items) < Capacity /\ items' = Append(items, slot[s]) /\ slot' = [slot EXCEPT ![s] = NoValue]
      BY <1>0, <1>1, <1>4, OpMoves, SeenIs DEF SendPush
    <2>2. Contract!Live(RecvThreads) # {}
      <3>1. receivers = Cardinality(Live(RecvThreads))
        BY DEF IInv, CountsAgree
      <3>2. Live(RecvThreads) # {}
        BY <2>1, <3>1, FS_EmptySet
      <3> QED
        BY <1>0, <3>2, LiveIsSeen
    <2>3. Contract!SendOk(s)
      BY <2>1, <2>2 DEF Contract!SendOk, Op
    <2> QED
      BY <2>3 DEF Contract!Next
  <1>5. CASE SendWait(s)
    <2>1. pc[s] = "try" /\ pc' = [pc EXCEPT ![s] = "wait"] /\ UNCHANGED <<items, slot>>
      BY <1>5 DEF SendWait
    <2>2. \A t \in Threads : Seen(pc'[t]) = Seen(pc[t])
      BY <1>0, <2>1, SeenIs DEF TypeOK
    <2> QED
      BY <2>1, <2>2, SeenSame, Unseen
  <1>6. CASE SendNotify(s)
    <2>1. pc[s] = "notify" /\ NotifyOne(s, RecvThreads) /\ UNCHANGED <<items, slot>>
      BY <1>6 DEF SendNotify
    <2>2. \A t \in Threads : pc'[t] = pc[t] \/ (pc[t] = "notify" /\ pc'[t] = "idle") \/ (pc[t] = "wait" /\ pc'[t] = "try")
      BY <1>0, <2>1 DEF NotifyOne, At, TypeOK
    <2>3. \A t \in Threads : Seen(pc'[t]) = Seen(pc[t])
      BY <2>2, SeenIs
    <2> QED
      BY <2>1, <2>3, SeenSame, Unseen
  <1>7. CASE DropSenderNotify(s)
    <2>1. pc[s] = "closing" /\ NotifyAll(s, RecvThreads) /\ UNCHANGED <<items, slot>>
      BY <1>7 DEF DropSenderNotify
    <2>2. \A t \in Threads : pc'[t] = pc[t] \/ (pc[t] = "closing" /\ pc'[t] = "gone") \/ (pc[t] = "wait" /\ pc'[t] = "try")
      BY <1>0, <2>1 DEF NotifyAll, At, TypeOK
    <2>3. \A t \in Threads : Seen(pc'[t]) = Seen(pc[t])
      BY <2>2, SeenIs
    <2> QED
      BY <2>1, <2>3, SeenSame, Unseen
  <1>8. CASE DropSender(s)
    <2>1. PICK label \in {"closing", "gone"} : pc[s] = "idle" /\ pc' = [pc EXCEPT ![s] = label] /\ UNCHANGED <<items, slot>>
      BY <1>8 DEF DropSender
    <2>2. Op[s] = "idle" /\ Op' = [Op EXCEPT ![s] = "gone"]
      BY <1>0, <1>1, <2>1, OpMoves, SeenIs
    <2>3. Contract!Drop(s)
      BY <2>1, <2>2 DEF Contract!Drop, Op
    <2> QED
      BY <1>0, <2>3 DEF Contract!Next, Contract!Threads, Threads
  <1>9. ASSUME NEW u \in SendThreads, CloneSender(s, u)
        PROVE  Contract!Next
    <2>0. /\ pc[s] = "idle" /\ pc[u] = "none" /\ u \in Threads /\ pc' = [pc EXCEPT ![u] = "idle"]
          /\ UNCHANGED <<items, slot>>
      BY <1>0, <1>9 DEF CloneSender
    <2>1. Op[s] = "idle" /\ Op[u] = "none" /\ Op' = [Op EXCEPT ![u] = "idle"]
      BY <1>0, <1>1, <2>0, OpMoves, SeenIs
    <2>2. Contract!Clone(s, u)
      BY <2>0, <2>1 DEF Contract!Clone, Op
    <2> QED
      BY <2>2 DEF Contract!Next
  <1> QED
    BY <1>2, <1>3, <1>4, <1>5, <1>6, <1>7, <1>8, <1>9 DEF SendStep

LEMMA ReceiverRefines ==
    ASSUME IInv, NEW r \in RecvThreads,
           \/ RecvStep(r) \/ DropReceiver(r) \/ RecvStart(r)
           \/ \E u \in RecvThreads : CloneReceiver(r, u)
    PROVE  [Contract!Next]_(Contract!vars)
  <1>0. TypeOK /\ r \in Threads /\ SendThreads \in SUBSET Threads /\ RecvThreads \in SUBSET Threads
    BY DEF IInv, Threads
  <1>1. \A t \in Threads : Op[t] = Seen(pc[t])
    BY OpIsSeen
  <1>2. CASE RecvStart(r)
    <2>1. /\ Op[r] = "idle" /\ Op' = [Op EXCEPT ![r] = "busy"]
          /\ slot' = [slot EXCEPT ![r] = NoValue] /\ items' = items
      BY <1>0, <1>1, <1>2, OpMoves, SeenIs DEF RecvStart
    <2>2. Contract!Begin(r, NoValue)
      BY <2>1 DEF Contract!Begin, Op
    <2> QED
      BY <2>2 DEF Contract!Next
  <1>3. CASE RecvPop(r)
    <2>1. /\ Op[r] = "busy" /\ Op' = [Op EXCEPT ![r] = "idle"]
          /\ items # <<>> /\ items' = Tail(items) /\ slot' = [slot EXCEPT ![r] = Head(items)]
      BY <1>0, <1>1, <1>3, OpMoves, SeenIs DEF RecvPop
    <2>2. Contract!RecvSome(r)
      BY <2>1 DEF Contract!RecvSome, Op
    <2> QED
      BY <2>2 DEF Contract!Next
  <1>4. CASE RecvClosed(r)
    <2>1. /\ Op[r] = "busy" /\ Op' = [Op EXCEPT ![r] = "idle"]
          /\ items = <<>> /\ items' = items /\ senders = 0 /\ slot' = [slot EXCEPT ![r] = Closed]
      BY <1>0, <1>1, <1>4, OpMoves, SeenIs DEF RecvClosed
    <2>2. Contract!Live(SendThreads) = {}
      <3>1. senders = Cardinality(Live(SendThreads)) /\ IsFiniteSet(Live(SendThreads))
        BY Sizes, FS_Subset, ThreadsAssumption DEF IInv, CountsAgree, Live
      <3>2. Live(SendThreads) = {}
        BY <2>1, <3>1, FS_EmptySet
      <3> QED
        BY <1>0, <3>2, LiveIsSeen
    <2>3. Contract!RecvNone(r)
      BY <2>1, <2>2 DEF Contract!RecvNone, Op
    <2> QED
      BY <2>3 DEF Contract!Next
  <1>5. CASE RecvWait(r)
    <2>1. pc[r] = "try" /\ pc' = [pc EXCEPT ![r] = "wait"] /\ UNCHANGED <<items, slot>>
      BY <1>5 DEF RecvWait
    <2>2. \A t \in Threads : Seen(pc'[t]) = Seen(pc[t])
      BY <1>0, <2>1, SeenIs DEF TypeOK
    <2> QED
      BY <2>1, <2>2, SeenSame, Unseen
  <1>6. CASE RecvNotify(r)
    <2>1. pc[r] = "notify" /\ NotifyOne(r, SendThreads) /\ UNCHANGED <<items, slot>>
      BY <1>6 DEF RecvNotify
    <2>2. \A t \in Threads : pc'[t] = pc[t] \/ (pc[t] = "notify" /\ pc'[t] = "idle") \/ (pc[t] = "wait" /\ pc'[t] = "try")
      BY <1>0, <2>1 DEF NotifyOne, At, TypeOK
    <2>3. \A t \in Threads : Seen(pc'[t]) = Seen(pc[t])
      BY <2>2, SeenIs
    <2> QED
      BY <2>1, <2>3, SeenSame, Unseen
  <1>7. CASE DropReceiverNotify(r)
    <2>1. pc[r] = "closing" /\ NotifyAll(r, SendThreads) /\ UNCHANGED <<items, slot>>
      BY <1>7 DEF DropReceiverNotify
    <2>2. \A t \in Threads : pc'[t] = pc[t] \/ (pc[t] = "closing" /\ pc'[t] = "gone") \/ (pc[t] = "wait" /\ pc'[t] = "try")
      BY <1>0, <2>1 DEF NotifyAll, At, TypeOK
    <2>3. \A t \in Threads : Seen(pc'[t]) = Seen(pc[t])
      BY <2>2, SeenIs
    <2> QED
      BY <2>1, <2>3, SeenSame, Unseen
  <1>8. CASE DropReceiver(r)
    <2>1. PICK label \in {"closing", "gone"} : pc[r] = "idle" /\ pc' = [pc EXCEPT ![r] = label] /\ UNCHANGED <<items, slot>>
      BY <1>8 DEF DropReceiver
    <2>2. Op[r] = "idle" /\ Op' = [Op EXCEPT ![r] = "gone"]
      BY <1>0, <1>1, <2>1, OpMoves, SeenIs
    <2>3. Contract!Drop(r)
      BY <2>1, <2>2 DEF Contract!Drop, Op
    <2> QED
      BY <1>0, <2>3 DEF Contract!Next, Contract!Threads, Threads
  <1>9. ASSUME NEW u \in RecvThreads, CloneReceiver(r, u)
        PROVE  Contract!Next
    <2>0. /\ pc[r] = "idle" /\ pc[u] = "none" /\ u \in Threads /\ pc' = [pc EXCEPT ![u] = "idle"]
          /\ UNCHANGED <<items, slot>>
      BY <1>0, <1>9 DEF CloneReceiver
    <2>1. Op[r] = "idle" /\ Op[u] = "none" /\ Op' = [Op EXCEPT ![u] = "idle"]
      BY <1>0, <1>1, <2>0, OpMoves, SeenIs
    <2>2. Contract!Clone(r, u)
      BY <2>0, <2>1 DEF Contract!Clone, Op
    <2> QED
      BY <2>2 DEF Contract!Next
  <1> QED
    BY <1>2, <1>3, <1>4, <1>5, <1>6, <1>7, <1>8, <1>9 DEF RecvStep

(* The mutex, the two counters and the two condition variables implement   *)
(* the blocking queue without a lock: every critical section is one call   *)
(* of the contract, begun, refused or done, and no notification is seen.   *)
THEOREM ImplementsSafely == Spec => Contract!SafeSpec
  <1>1. Init => Contract!Init
    <2> SUFFICES ASSUME Init PROVE Contract!Init
      OBVIOUS
    <2>1. PICK s \in SendThreads, r \in RecvThreads : pc = [t \in Threads |-> IF t \in {s, r} THEN "idle" ELSE "none"]
      BY DEF Init
    <2>2. Op = [t \in Threads |-> IF t \in {s, r} THEN "idle" ELSE "none"]
      BY <2>1, OpIsSeen, SeenIs
    <2>3. items = <<>> /\ slot = [t \in Threads |-> NoValue]
      BY DEF Init
    <2> QED
      BY <2>2, <2>3 DEF Contract!Init, Op, Contract!Threads, Threads
  <1>2. IInv /\ [Next]_vars => [Contract!Next]_(Contract!vars)
    <2> SUFFICES ASSUME IInv, [Next]_vars PROVE [Contract!Next]_(Contract!vars)
      OBVIOUS
    <2>1. ASSUME NEW t \in Threads, SpuriousWakeup(t)
          PROVE  UNCHANGED Contract!vars
      <3>1. pc[t] = "wait" /\ pc' = [pc EXCEPT ![t] = "try"] /\ UNCHANGED <<items, slot>>
        BY <2>1 DEF SpuriousWakeup
      <3>2. \A x \in Threads : Seen(pc'[x]) = Seen(pc[x])
        BY <3>1, SeenIs DEF IInv, TypeOK
      <3> QED
        BY <3>1, <3>2, SeenSame, Unseen
    <2>2. CASE UNCHANGED vars
      <3>1. UNCHANGED <<pc, items, slot>>
        BY <2>2 DEF vars
      <3> QED
        BY <3>1, SeenSame, Unseen
    <2> QED
      BY <2>1, <2>2, SenderRefines, ReceiverRefines DEF Next
  <1> QED
    BY <1>1, <1>2, Invariance, PTL DEF Spec, SafeSpec, Contract!SafeSpec
=============================================================================
