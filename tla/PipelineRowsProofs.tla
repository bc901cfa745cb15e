------------------------- MODULE PipelineRowsProofs -------------------------
(***************************************************************************)
(* Proofs about the payloads of Pipeline: none is lost or doubled on its   *)
(* way from the reader to the committed tables, which are never short.     *)
(* They rest on the protocol part of the invariant, PoolInv.               *)
(***************************************************************************)
EXTENDS PipelineProofs

AllFiles == Flying \cup Kept

Somewhere(i) == (\E w \in Workers : i \in Held(w)) \/ (\E f \in AllFiles : i \in Range(f.rows))

(* The table of a row event is that of the block it lies in. *)
LEMMA TableOfRow ==
    ASSUME dump \in Dumps, NEW i \in 1..Len(dump), dump[i].type = "rows",
           NEW j \in 1..(i - 1), BlockStart(dump, i, j)
    PROVE  TableOf(i) = dump[j].table
  <1>0. Len(dump) \in Nat
    BY DumpFacts
  <1> DEFINE P(x) == dump[x].type = "start" /\ \A k \in (x + 1)..i : dump[k].type # "start"
  <1>1. j \in 1..i /\ P(j)
    BY <1>0 DEF BlockStart
  <1>2. \A x \in 1..i : P(x) => x = j
    BY <1>0, <1>1
  <1>3. (CHOOSE x \in 1..i : P(x)) = j
    BY <1>1, <1>2
  <1> QED
    BY <1>3 DEF TableOf

LEMMA FlyingMeans ==
    \A f : f \in Flying <=> \/ \E w \in Workers : hand[w].type = "Closed" /\ f \in hand[w].files
                            \/ \E k \in DOMAIN events : events[k].type = "Closed" /\ f \in events[k].files
                            \/ f \in block
  <1> DEFINE H == {hand[w].files : w \in {x \in Workers : hand[x].type = "Closed"}}
             E == {events[k].files : k \in {x \in DOMAIN events : events[x].type = "Closed"}}
  <1>1. \A f : f \in UNION H <=> \E w \in Workers : hand[w].type = "Closed" /\ f \in hand[w].files
    BY Zenon
  <1>2. \A f : f \in UNION E <=> \E k \in DOMAIN events : events[k].type = "Closed" /\ f \in events[k].files
    BY Zenon
  <1>3. Flying = (UNION H) \cup (UNION E) \cup block
    BY DEF Flying
  <1> HIDE DEF H, E
  <1> QED
    BY <1>1, <1>2, <1>3

LEMMA FlyingMeansNext ==
    \A f : f \in Flying' <=> \/ \E w \in Workers : hand'[w].type = "Closed" /\ f \in hand'[w].files
                             \/ \E k \in DOMAIN events' : events'[k].type = "Closed" /\ f \in events'[k].files
                             \/ f \in block'
  <1> DEFINE H == {hand'[w].files : w \in {x \in Workers : hand'[x].type = "Closed"}}
             E == {events'[k].files : k \in {x \in DOMAIN events' : events'[x].type = "Closed"}}
  <1>1. \A f : f \in UNION H <=> \E w \in Workers : hand'[w].type = "Closed" /\ f \in hand'[w].files
    BY Zenon
  <1>2. \A f : f \in UNION E <=> \E k \in DOMAIN events' : events'[k].type = "Closed" /\ f \in events'[k].files
    BY Zenon
  <1>3. Flying' = (UNION H) \cup (UNION E) \cup block'
    BY DEF Flying
  <1> HIDE DEF H, E
  <1> QED
    BY <1>1, <1>2, <1>3

LEMMA KeptMeans ==
    /\ \A f : f \in Kept <=> \E t \in Tables : f \in staged[t]
    /\ \A f : f \in Kept' <=> \E t \in Tables : f \in staged'[t]
  BY DEF Kept

(* What a worker that does not move holds. *)
LEMMA HeldStands ==
    ASSUME NEW w \in Workers, jobs'[w] = jobs[w], hand'[w] = hand[w], blocks'[w] = blocks[w]
    PROVE  /\ Held(w)' = Held(w)
           /\ RowsInOrder(w) => RowsInOrder(w)'
           /\ dump' = dump /\ RowsAreGood(w) => RowsAreGood(w)'
  <1>1. Queued(w)' = Queued(w) /\ InHand(w)' = InHand(w) /\ Decoded(w)' = Decoded(w)
    BY DEF Queued, InHand, Decoded
  <1>2. Held(w)' = Held(w)
    BY <1>1 DEF Held
  <1>3. RowsInOrder(w) => RowsInOrder(w)'
    BY <1>1 DEF RowsInOrder
  <1> QED
    BY <1>1, <1>2, <1>3 DEF RowsAreGood

(* The rows of a block that has gone on by one payload. *)
LEMMA AppendRange ==
    ASSUME NEW s \in Seq(Nat), NEW i \in Nat
    PROVE  /\ Range(Append(s, i)) = Range(s) \cup {i}
           /\ Increasing(s) /\ (\A j \in Range(s) : j < i) => Increasing(Append(s, i))
           /\ Append(s, i) # <<>>
  <1> DEFINE a == Append(s, i)
  <1>1. /\ DOMAIN a = 1..(Len(s) + 1) /\ DOMAIN s = 1..Len(s) /\ Len(s) \in Nat
        /\ a[Len(s) + 1] = i /\ \A k \in 1..Len(s) : a[k] = s[k]
    OBVIOUS
  <1>2. a # <<>>
    OBVIOUS
  <1> HIDE DEF a
  <1>3. Range(a) = Range(s) \cup {i}
    BY <1>1 DEF Range
  <1>4. ASSUME Increasing(s), \A j \in Range(s) : j < i, NEW j \in DOMAIN a, NEW k \in DOMAIN a, j < k
        PROVE  a[j] < a[k]
    <2>1. j \in DOMAIN s /\ a[j] = s[j] /\ s[j] \in Range(s)
      BY <1>1, <1>4 DEF Range
    <2>2. k = Len(s) + 1 \/ k \in DOMAIN s
      BY <1>1
    <2> QED
      BY <1>1, <1>4, <2>1, <2>2 DEF Increasing
  <1>5. Increasing(s) /\ (\A j \in Range(s) : j < i) => Increasing(a)
    BY <1>4 DEF Increasing
  <1> QED
    BY <1>2, <1>3, <1>5 DEF a

(* A job is queued for a worker. *)
LEMMA QueueGrows ==
    ASSUME PoolTypes, NEW w \in Workers, NEW job \in Jobs, jobs'[w] = Append(jobs[w], job),
           hand'[w] = hand[w], blocks'[w] = blocks[w], dump' = dump
    PROVE  /\ job.type # "Rows" => Held(w)' = Held(w)
           /\ job.type = "Rows" => Held(w)' = Held(w) \cup {job.id}
           /\ RowsInOrder(w) /\ (job.type = "Rows" => \A i \in Held(w) : i < job.id) => RowsInOrder(w)'
           /\ RowsAreGood(w) /\ (job.type = "Rows" => job.bad = dump[job.id].bad) => RowsAreGood(w)'
  <1> DEFINE s == jobs[w]
             a == Append(s, job)
  <1>1. s \in Seq(Jobs)
    BY DEF PoolTypes
  <1>2. /\ DOMAIN a = 1..(Len(s) + 1) /\ DOMAIN s = 1..Len(s) /\ Len(s) \in Nat
        /\ a[Len(s) + 1] = job /\ \A k \in 1..Len(s) : a[k] = s[k]
    BY <1>1
  <1> HIDE DEF a, s
  <1>3. InHand(w)' = InHand(w) /\ Decoded(w)' = Decoded(w)
    BY DEF InHand, Decoded
  <1>4. jobs'[w] = a /\ jobs[w] = s
    BY DEF a, s
  <1>5. /\ job.type # "Rows" => Queued(w)' = Queued(w)
        /\ job.type = "Rows" => Queued(w)' = Queued(w) \cup {job.id}
    BY <1>2, <1>4 DEF Queued
  <1>6. /\ job.type # "Rows" => Held(w)' = Held(w)
        /\ job.type = "Rows" => Held(w)' = Held(w) \cup {job.id}
    BY <1>3, <1>5 DEF Held
  <1>7. ASSUME RowsInOrder(w), job.type = "Rows" => \A i \in Held(w) : i < job.id
        PROVE  RowsInOrder(w)'
    <2>1. ASSUME NEW k \in DOMAIN a, NEW l \in DOMAIN a, k < l, a[k].type = "Rows", a[l].type = "Rows"
          PROVE  a[k].id < a[l].id
      <3>1. k \in DOMAIN s /\ a[k] = s[k] /\ (l \in DOMAIN s \/ l = Len(s) + 1)
        BY <1>2, <2>1
      <3>2. s[k].id \in Held(w)
        BY <1>4, <2>1, <3>1 DEF Held, Queued
      <3> QED
        BY <1>2, <1>4, <1>7, <2>1, <3>1, <3>2 DEF RowsInOrder
    <2>2. \A i \in InHand(w) \cup Decoded(w) : \A j \in Queued(w)' : i < j
      <3>1. InHand(w) \cup Decoded(w) \subseteq Held(w)
        BY DEF Held
      <3>2. \A i \in InHand(w) \cup Decoded(w) : \A j \in Queued(w) : i < j
        BY <1>7 DEF RowsInOrder
      <3> QED
        BY <1>5, <1>7, <3>1, <3>2
    <2>3. \A i \in Decoded(w) : \A j \in InHand(w) : i < j
      BY <1>7 DEF RowsInOrder
    <2>4. \A g \in DOMAIN blocks[w] : blocks[w][g] # <<>> /\ Increasing(blocks[w][g])
      BY <1>7 DEF RowsInOrder
    <2> QED
      BY <1>3, <1>4, <2>1, <2>2, <2>3, <2>4 DEF RowsInOrder
  <1>8. ASSUME RowsAreGood(w), job.type = "Rows" => job.bad = dump[job.id].bad
        PROVE  RowsAreGood(w)'
    <2>1. \A k \in DOMAIN a : a[k].type = "Rows" => a[k].bad = dump[a[k].id].bad
      <3>1. \A k \in DOMAIN s : s[k].type = "Rows" => s[k].bad = dump[s[k].id].bad
        BY <1>4, <1>8 DEF RowsAreGood
      <3> QED
        BY <1>2, <1>8, <3>1
    <2> QED
      BY <1>3, <1>4, <1>8, <2>1 DEF RowsAreGood
  <1> QED
    BY <1>6, <1>7, <1>8

(* A worker takes the first job of its queue. *)
LEMMA QueueShrinks ==
    ASSUME PoolTypes, NEW w \in Workers, jobs[w] # <<>>, hand[w] = Nothing, dump' = dump,
           jobs'[w] = Tail(jobs[w]), hand'[w] = Head(jobs[w]), blocks'[w] = blocks[w]
    PROVE  /\ Held(w)' = Held(w)
           /\ RowsInOrder(w) => RowsInOrder(w)'
           /\ RowsAreGood(w) => RowsAreGood(w)'
  <1> DEFINE s == jobs[w]
             h == Head(s)
             a == Tail(s)
  <1>1. s \in Seq(Jobs) /\ s # <<>>
    BY DEF PoolTypes
  <1>2. /\ Len(s) \in Nat /\ Len(s) >= 1 /\ DOMAIN s = 1..Len(s) /\ DOMAIN a = 1..(Len(s) - 1)
        /\ h = s[1] /\ \A k \in 1..(Len(s) - 1) : a[k] = s[k + 1]
    BY <1>1
  <1>3. 1 \in DOMAIN s /\ \A k \in DOMAIN a : a[k] = s[k + 1] /\ k + 1 \in DOMAIN s /\ 1 < k + 1
    BY <1>2
  <1>4. \A k \in DOMAIN s : k # 1 => k - 1 \in DOMAIN a /\ s[k] = a[k - 1]
    BY <1>2
  <1> HIDE DEF a, s, h
  <1>5. jobs'[w] = a /\ jobs[w] = s /\ hand'[w] = h /\ h = s[1]
    BY <1>2 DEF a, s, h
  <1>6. Decoded(w)' = Decoded(w) /\ InHand(w) = {}
    BY DEF InHand, Decoded, Nothing
  <1>7. /\ h.type = "Rows" => InHand(w)' = {h.id}
        /\ h.type # "Rows" => InHand(w)' = {}
    BY <1>5 DEF InHand
  <1>8. Queued(w) = Queued(w)' \cup InHand(w)'
    <2>1. \A i : i \in Queued(w) <=> \E k \in DOMAIN s : s[k].type = "Rows" /\ s[k].id = i
      BY <1>5 DEF Queued
    <2>2. \A i : i \in Queued(w)' <=> \E k \in DOMAIN a : a[k].type = "Rows" /\ a[k].id = i
      BY <1>5 DEF Queued
    <2>3. ASSUME NEW i \in Queued(w) PROVE i \in Queued(w)' \cup InHand(w)'
      <3>1. PICK k \in DOMAIN s : s[k].type = "Rows" /\ s[k].id = i
        BY <2>1
      <3>2. CASE k = 1
        BY <1>5, <1>7, <3>1, <3>2
      <3>3. CASE k # 1
        BY <1>4, <2>2, <3>1, <3>3
      <3> QED
        BY <3>2, <3>3
    <2>4. Queued(w)' \subseteq Queued(w)
      BY <1>3, <2>1, <2>2
    <2>5. InHand(w)' \subseteq Queued(w)
      BY <1>3, <1>5, <1>7, <2>1
    <2> QED
      BY <2>3, <2>4, <2>5
  <1>9. Held(w)' = Held(w)
    BY <1>6, <1>8 DEF Held
  <1>10. ASSUME RowsInOrder(w)
         PROVE  RowsInOrder(w)'
    <2>1. \A k, l \in DOMAIN s : k < l /\ s[k].type = "Rows" /\ s[l].type = "Rows" => s[k].id < s[l].id
      BY <1>5, <1>10 DEF RowsInOrder
    <2>2. \A k, l \in DOMAIN a : k < l /\ a[k].type = "Rows" /\ a[l].type = "Rows" => a[k].id < a[l].id
      <3> TAKE k, l \in DOMAIN a
      <3>1. k \in Nat /\ l \in Nat
        BY <1>2
      <3>2. k < l => k + 1 < l + 1
        BY <3>1
      <3> QED
        BY <1>3, <2>1, <3>2
    <2>3. \A i \in InHand(w)' : \A j \in Queued(w)' : i < j
      <3> TAKE i \in InHand(w)'
      <3> TAKE j \in Queued(w)'
      <3>1. i = s[1].id /\ s[1].type = "Rows"
        BY <1>5, <1>7
      <3>2. PICK k \in DOMAIN a : a[k].type = "Rows" /\ a[k].id = j
        BY <1>5 DEF Queued
      <3> QED
        BY <1>3, <2>1, <3>1, <3>2
    <2>4. \A i \in Decoded(w) : \A j \in Queued(w)' \cup InHand(w)' : i < j
      BY <1>8, <1>10 DEF RowsInOrder
    <2>5. \A g \in DOMAIN blocks[w] : blocks[w][g] # <<>> /\ Increasing(blocks[w][g])
      BY <1>10 DEF RowsInOrder
    <2> QED
      BY <1>5, <1>6, <2>2, <2>3, <2>4, <2>5 DEF RowsInOrder
  <1>11. ASSUME RowsAreGood(w)
         PROVE  RowsAreGood(w)'
    <2>1. \A k \in DOMAIN s : s[k].type = "Rows" => s[k].bad = dump[s[k].id].bad
      BY <1>5, <1>11 DEF RowsAreGood
    <2>2. /\ \A k \in DOMAIN a : a[k].type = "Rows" => a[k].bad = dump[a[k].id].bad
          /\ h.type = "Rows" => h.bad = dump[h.id].bad
      BY <1>3, <1>5, <2>1
    <2> QED
      BY <1>5, <1>6, <1>11, <2>2 DEF RowsAreGood
  <1> QED
    BY <1>9, <1>10, <1>11

(* A worker forgets what it was doing. *)
LEMMA HeldDropped ==
    ASSUME NEW w \in Workers, jobs'[w] = jobs[w], dump' = dump,
           hand'[w].type # "Rows", blocks'[w] = <<>> \/ blocks'[w] = blocks[w]
    PROVE  /\ Held(w)' \subseteq Held(w)
           /\ blocks'[w] = blocks[w] /\ hand[w].type # "Rows" => Held(w)' = Held(w)
           /\ RowsInOrder(w) => RowsInOrder(w)'
           /\ RowsAreGood(w) => RowsAreGood(w)'
  <1>1. Queued(w)' = Queued(w) /\ InHand(w)' = {}
    BY DEF Queued, InHand
  <1>2. DOMAIN <<>> = {}
    OBVIOUS
  <1>3. Decoded(w)' = {} \/ Decoded(w)' = Decoded(w)
    BY <1>2 DEF Decoded
  <1>4. blocks'[w] = blocks[w] /\ hand[w].type # "Rows" => Decoded(w)' = Decoded(w) /\ InHand(w) = {}
    BY DEF Decoded, InHand
  <1>5. \A g \in DOMAIN blocks'[w] : g \in DOMAIN blocks[w] /\ blocks'[w][g] = blocks[w][g]
    BY <1>2
  <1>6. RowsInOrder(w) => RowsInOrder(w)'
    BY <1>1, <1>3, <1>5 DEF RowsInOrder
  <1>7. RowsAreGood(w) => RowsAreGood(w)'
    BY <1>1, <1>3, <1>5 DEF RowsAreGood
  <1> QED
    BY <1>1, <1>3, <1>4, <1>6, <1>7 DEF Held

(* What a worker in a block has decoded is what it keeps for that block. *)
LEMMA DecodedIs ==
    ASSUME PoolTypes, NEW w \in Workers, NEW g, ctxs[w] = {g}
    PROVE  /\ Decoded(w) = Range(PayloadsOf(w, g))
           /\ PayloadsOf(w, g) \in Seq(Nat)
           /\ RowsInOrder(w) => Increasing(PayloadsOf(w, g))
  <1>1. DOMAIN blocks[w] \subseteq {g} /\ PayloadsOf(w, g) \in Seq(Nat)
    BY BlocksTyped
  <1>2. CASE g \in DOMAIN blocks[w]
    <2>1. DOMAIN blocks[w] = {g} /\ PayloadsOf(w, g) = blocks[w][g]
      BY <1>1, <1>2 DEF PayloadsOf
    <2> QED
      BY <1>1, <2>1 DEF Decoded, RowsInOrder
  <1>3. CASE g \notin DOMAIN blocks[w]
    <2>1. DOMAIN blocks[w] = {} /\ PayloadsOf(w, g) = <<>> /\ DOMAIN <<>> = {}
      BY <1>1, <1>3 DEF PayloadsOf
    <2> QED
      BY <1>1, <2>1 DEF Decoded, Range, Increasing
  <1> QED
    BY <1>2, <1>3

(* A worker decodes the payload in its hand. *)
LEMMA BlockGrows ==
    ASSUME PoolTypes, NEW w \in Workers, hand[w] \in Jobs, hand[w].type = "Rows", ~hand[w].bad,
           ctxs[w] = {hand[w].gen}, blocks'[w] = BlocksWith(w, hand[w].gen, hand[w].id),
           hand'[w] = Nothing, jobs'[w] = jobs[w], dump' = dump
    PROVE  /\ Held(w)' = Held(w)
           /\ RowsInOrder(w) => RowsInOrder(w)'
           /\ RowsAreGood(w) => RowsAreGood(w)'
  <1> DEFINE g == hand[w].gen
             i == hand[w].id
             s == PayloadsOf(w, g)
             a == Append(s, i)
  <1>1. i \in Nat /\ s \in Seq(Nat) /\ Decoded(w) = Range(s) /\ (RowsInOrder(w) => Increasing(s))
    BY JobFacts, DecodedIs
  <1>2. DOMAIN blocks'[w] = {g} /\ blocks'[w][g] = a
    BY BlocksTyped DEF BlocksWith
  <1>3. InHand(w) = {i} /\ InHand(w)' = {} /\ Queued(w)' = Queued(w)
    BY DEF InHand, Queued, Nothing
  <1> HIDE DEF a, s, i, g
  <1>4. /\ Range(a) = Range(s) \cup {i} /\ a # <<>>
        /\ Increasing(s) /\ (\A j \in Range(s) : j < i) => Increasing(a)
    BY <1>1, AppendRange DEF a
  <1>5. Decoded(w)' = Decoded(w) \cup {i}
    <2>1. Decoded(w)' = Range(a)
      BY <1>2 DEF Decoded
    <2> QED
      BY <1>1, <1>4, <2>1
  <1>6. Held(w)' = Held(w)
    BY <1>3, <1>5 DEF Held
  <1>7. ASSUME RowsInOrder(w)
        PROVE  RowsInOrder(w)'
    <2>1. \A j \in Range(s) : j < i
      BY <1>1, <1>3, <1>7 DEF RowsInOrder
    <2>2. Increasing(a) /\ a # <<>>
      BY <1>1, <1>4, <1>7, <2>1
    <2>3. \A j \in Decoded(w)' : \A k \in Queued(w) : j < k
      BY <1>3, <1>5, <1>7 DEF RowsInOrder
    <2> QED
      BY <1>2, <1>3, <1>7, <2>2, <2>3 DEF RowsInOrder
  <1>8. ASSUME RowsAreGood(w)
        PROVE  RowsAreGood(w)'
    <2>1. ~dump[i].bad
      BY <1>8 DEF RowsAreGood, i
    <2>2. hand'[w].type # "Rows"
      BY DEF Nothing
    <2> QED
      BY <1>5, <1>8, <2>1, <2>2 DEF RowsAreGood
  <1> QED
    BY <1>6, <1>7, <1>8

(* A worker turns its block into a file. *)
LEMMA BlockCloses ==
    ASSUME PoolTypes, NEW w \in Workers, hand[w].type = "Close", ctxs[w] = {hand[w].gen}, jobs[w] = <<>>,
           hand'[w] = [type |-> "Closed", gen |-> hand[w].gen,
                       files |-> IF hand[w].gen \notin DOMAIN blocks[w] THEN {}
                                 ELSE {[gen |-> hand[w].gen, worker |-> w, rows |-> blocks[w][hand[w].gen]]}],
           blocks'[w] = Restrict(blocks[w], (DOMAIN blocks[w]) \ {hand[w].gen}), jobs'[w] = jobs[w]
    PROVE  /\ Held(w)' = {}
           /\ \A f \in hand'[w].files : f.gen = hand[w].gen /\ Range(f.rows) = Held(w)
           /\ RowsInOrder(w) => \A f \in hand'[w].files : f.rows # <<>> /\ Increasing(f.rows)
           /\ Held(w) # {} => \E f \in hand'[w].files : Range(f.rows) = Held(w)
           /\ RowsInOrder(w)' /\ RowsAreGood(w)'
           /\ Held(w) = Decoded(w)
           /\ \A f, h \in hand'[w].files : f = h
  <1> DEFINE g == hand[w].gen
  <1>1. DOMAIN blocks[w] \subseteq {g}
    BY BlocksTyped
  <1>2. DOMAIN blocks'[w] = {}
    BY <1>1 DEF Restrict
  <1>3. /\ Queued(w) = {} /\ Queued(w)' = {} /\ InHand(w) = {} /\ InHand(w)' = {}
        /\ DOMAIN jobs'[w] = {} /\ hand'[w].type = "Closed"
    BY DEF Queued, InHand
  <1>4. Decoded(w)' = {}
    BY <1>2 DEF Decoded
  <1>5. Held(w)' = {} /\ Held(w) = Decoded(w)
    BY <1>3, <1>4 DEF Held
  <1>6. RowsInOrder(w)' /\ RowsAreGood(w)'
    BY <1>2, <1>3, <1>4 DEF RowsInOrder, RowsAreGood
  <1>7. CASE g \in DOMAIN blocks[w]
    <2> DEFINE F == [gen |-> g, worker |-> w, rows |-> blocks[w][g]]
    <2>1. hand'[w].files = {F}
      BY <1>7
    <2>2. F.rows = blocks[w][g] /\ F.gen = g
      OBVIOUS
    <2>3. DOMAIN blocks[w] = {g}
      BY <1>1, <1>7
    <2>4. Decoded(w) = Range(blocks[w][g])
      BY <2>3 DEF Decoded
    <2>5. RowsInOrder(w) => blocks[w][g] # <<>> /\ Increasing(blocks[w][g])
      BY <1>7 DEF RowsInOrder
    <2> HIDE DEF F, g
    <2> QED
      BY <1>5, <1>6, <2>1, <2>2, <2>4, <2>5 DEF g
  <1>8. CASE g \notin DOMAIN blocks[w]
    <2>1. hand'[w].files = {} /\ DOMAIN blocks[w] = {}
      BY <1>1, <1>8
    <2>2. Decoded(w) = {}
      BY <2>1 DEF Decoded
    <2> QED
      BY <1>5, <1>6, <2>1, <2>2
  <1> QED
    BY <1>7, <1>8

-----------------------------------------------------------------------------
(***************************************************************************)
(* What one step does to the payloads: they stay where they are, or the    *)
(* step of one worker drops some, or turns them into a file, or the reader *)
(* dispatches the next one, or drops an event.                             *)
(***************************************************************************)
Others(w) == \A v \in Workers \ {w} : /\ jobs'[v] = jobs[v] /\ hand'[v] = hand[v]
                                      /\ blocks'[v] = blocks[v] /\ wpc'[v] = wpc[v]

AllInOrder == \A w \in Workers : RowsInOrder(w) /\ RowsAreGood(w)

RowsStay == AllFiles' = AllFiles /\ \A w \in Workers : Held(w)' = Held(w)

RowsDrop(w) == /\ AllFiles' = AllFiles /\ \A v \in Workers : Held(v)' \subseteq Held(v)
               /\ wpc'[w] = "report" \/ (wpc[w] = "leaving" /\ wpc'[w] = "exit")

RowsClose(w) == /\ Held(w)' = {} /\ Held(w) = Decoded(w)
                /\ \A v \in Workers \ {w} : Held(v)' = Held(v)
                /\ Kept' = Kept
                /\ \A f : f \in Flying' <=> f \in Flying \/ f \in hand'[w].files
                /\ \A f \in hand'[w].files : /\ f.gen = generation /\ Range(f.rows) = Held(w)
                                             /\ f.rows # <<>> /\ Increasing(f.rows)
                /\ Held(w) # {} => \E f \in hand'[w].files : Range(f.rows) = Held(w)
                /\ \A f, h \in hand'[w].files : f = h

LEMMA OthersHold ==
    ASSUME NEW w \in Workers, Others(w), dump' = dump, AllInOrder
    PROVE  \A v \in Workers \ {w} : Held(v)' = Held(v) /\ RowsInOrder(v)' /\ RowsAreGood(v)'
  BY HeldStands DEF Others, AllInOrder

LEMMA FlyingStands ==
    ASSUME NEW w \in Workers, Others(w), UNCHANGED <<events, block>>,
           hand[w].type # "Closed", hand'[w].type # "Closed"
    PROVE  Flying' = Flying
  <1>1. \A f : f \in Flying' <=> f \in Flying
    BY FlyingMeans, FlyingMeansNext DEF Others
  <1> QED
    BY <1>1

LEMMA WorkerFrame ==
    ASSUME PoolTypes, NEW w \in Workers, Worker(w)
    PROVE  /\ Others(w) /\ UNCHANGED <<dump, block, staged, generation, commits, visible>>
           /\ UNCHANGED readerVars /\ Kept' = Kept
  <1>1. /\ jobs \in [Workers -> Seq(Jobs)] /\ hand \in [Workers -> Jobs \cup Messages \cup {Nothing}]
        /\ wpc \in [Workers -> {"recv", "work", "send", "report", "leaving", "exit"}] /\ DOMAIN blocks = Workers
    BY DEF PoolTypes
  <1>2. /\ UNCHANGED <<dump, commits, visible>> /\ UNCHANGED readerVars
    BY DEF Worker, WorkerRecv, WorkerOpen, WorkerRows, WorkerClose, WorkerSend, WorkerExit
  <1>3. UNCHANGED <<block, staged, generation>>
    BY <1>2 DEF readerVars
  <1>4. /\ (\E p : wpc' = [wpc EXCEPT ![w] = p])
        /\ (\E h : hand' = [hand EXCEPT ![w] = h]) \/ hand' = hand
        /\ (\E q : jobs' = [jobs EXCEPT ![w] = q]) \/ jobs' = jobs
        /\ (\E b : blocks' = [blocks EXCEPT ![w] = b]) \/ blocks' = blocks
    <2>1. CASE WorkerRecv(w)
      BY <2>1, Zenon DEF WorkerRecv
    <2>2. CASE WorkerOpen(w)
      BY <2>2, Zenon DEF WorkerOpen
    <2>3. CASE WorkerRows(w)
      <3>1. CASE \E c : WorkerFails(w, c) /\ jobs' = jobs
        BY <3>1, Zenon DEF WorkerFails
      <3>2. CASE ~\E c : WorkerFails(w, c) /\ jobs' = jobs
        BY <2>3, <3>2, Zenon DEF WorkerRows
      <3> QED
        BY <3>1, <3>2
    <2>4. CASE WorkerClose(w)
      <3>1. CASE WorkerFails(w, "StorageFailed") /\ jobs' = jobs
        BY <3>1, Zenon DEF WorkerFails
      <3>2. CASE ~(WorkerFails(w, "StorageFailed") /\ jobs' = jobs)
        BY <2>4, <3>2, Zenon DEF WorkerClose
      <3> QED
        BY <3>1, <3>2
    <2>5. CASE WorkerSend(w)
      BY <2>5, Zenon DEF WorkerSend
    <2>6. CASE WorkerExit(w)
      BY <2>6, Zenon DEF WorkerExit
    <2> QED
      BY <2>1, <2>2, <2>3, <2>4, <2>5, <2>6 DEF Worker
  <1>5. Others(w)
    BY <1>1, <1>4 DEF Others
  <1> QED
    BY <1>2, <1>3, <1>5 DEF Kept

(* A worker that only moves what it holds leaves everything in place. *)
LEMMA WorkerStays ==
    ASSUME NEW w \in Workers, Others(w), dump' = dump, AllInOrder, Flying' = Flying, Kept' = Kept,
           Held(w)' = Held(w), RowsInOrder(w)', RowsAreGood(w)'
    PROVE  AllInOrder' /\ RowsStay
  BY OthersHold DEF AllInOrder, RowsStay, AllFiles

LEMMA WorkerDrops ==
    ASSUME NEW w \in Workers, Others(w), dump' = dump, AllInOrder, Flying' = Flying, Kept' = Kept,
           jobs'[w] = jobs[w], hand'[w].type # "Rows", blocks'[w] = <<>>,
           wpc'[w] = "report" \/ (wpc[w] = "leaving" /\ wpc'[w] = "exit")
    PROVE  AllInOrder' /\ RowsDrop(w)
  <1>1. Held(w)' \subseteq Held(w) /\ RowsInOrder(w)' /\ RowsAreGood(w)'
    BY HeldDropped DEF AllInOrder
  <1> QED
    BY <1>1, OthersHold DEF AllInOrder, RowsDrop, AllFiles

LEMMA WorkerFailsDrops ==
    ASSUME PoolTypes, NEW w \in Workers, AllInOrder, wpc[w] = "work", NEW c, WorkerFails(w, c),
           UNCHANGED <<jobs, events, block, dump>>, Others(w), Kept' = Kept
    PROVE  AllInOrder' /\ RowsDrop(w) /\ Flying' = Flying /\ wpc'[w] = "report"
  <1>1. hand[w].type # "Closed"
    BY JobFacts DEF PoolTypes
  <1>2. hand'[w].type = "Failed" /\ wpc'[w] = "report" /\ blocks'[w] = <<>>
    BY DEF PoolTypes, WorkerFails
  <1>3. Flying' = Flying
    BY <1>1, <1>2, FlyingStands
  <1> QED
    BY <1>2, <1>3, WorkerDrops

LEMMA IdleHandsNext ==
    ASSUME IdleHands, NEW w \in Workers, Others(w),
           wpc'[w] \notin {"work", "send", "report"} => hand'[w] = Nothing
    PROVE  IdleHands'
  BY DEF IdleHands, Others

LEMMA WorkerMoves ==
    ASSUME PoolInv, AllInOrder, IdleHands, NEW w \in Workers, Worker(w)
    PROVE  /\ AllInOrder' /\ IdleHands'
           /\ RowsStay \/ RowsDrop(w) \/ RowsClose(w)
           /\ Flying' = Flying \/ RowsClose(w)
  <1>0. PoolTypes /\ WorkerInv(w)
    BY DEF PoolInv, TypeOK
  <1>1. /\ Others(w) /\ UNCHANGED <<dump, block, staged, generation>> /\ Kept' = Kept
        /\ RowsInOrder(w) /\ RowsAreGood(w)
    BY <1>0, WorkerFrame DEF AllInOrder
  <1>2. /\ jobs \in [Workers -> Seq(Jobs)] /\ hand \in [Workers -> Jobs \cup Messages \cup {Nothing}]
        /\ wpc \in [Workers -> {"recv", "work", "send", "report", "leaving", "exit"}] /\ DOMAIN blocks = Workers
    BY <1>0 DEF PoolTypes
  <1>3. /\ wpc[w] = "work" => hand[w] \in Jobs /\ hand[w].type # "Closed"
        /\ wpc[w] \in {"recv", "leaving"} => hand[w] = Nothing
    BY <1>0, JobFacts DEF PoolTypes, IdleHands
  <1>n. Nothing.type = "Nothing"
    BY DEF Nothing
  <1>4. CASE WorkerRecv(w)
    <2>0. UNCHANGED <<events, blocks>> /\ wpc[w] = "recv"
      BY <1>4 DEF WorkerRecv
    <2>1. CASE jobs[w] # <<>>
      <3>1. /\ hand'[w] = Head(jobs[w]) /\ jobs'[w] = Tail(jobs[w]) /\ wpc'[w] = "work" /\ blocks'[w] = blocks[w]
        BY <1>2, <1>4, <2>1 DEF WorkerRecv
      <3>2. Head(jobs[w]) \in Jobs
        <4>1. jobs[w] \in Seq(Jobs)
          BY <1>2
        <4> QED
          BY <2>1, <4>1
      <3>3. hand'[w].type # "Closed"
        BY <3>1, <3>2, JobFacts
      <3>4. Flying' = Flying
        BY <1>1, <1>3, <1>n, <2>0, <3>3, FlyingStands
      <3>5. Held(w)' = Held(w) /\ RowsInOrder(w)' /\ RowsAreGood(w)'
        BY <1>0, <1>1, <1>3, <2>0, <2>1, <3>1, QueueShrinks
      <3> QED
        BY <1>1, <3>1, <3>4, <3>5, WorkerStays, IdleHandsNext
    <2>2. CASE jobs[w] = <<>>
      <3>1. /\ hand' = hand /\ jobs' = jobs /\ blocks' = blocks
        BY <1>4, <2>2 DEF WorkerRecv
      <3>2. Flying' = Flying
        BY <1>1, <1>3, <1>n, <2>0, <3>1, FlyingStands
      <3>3. Held(w)' = Held(w) /\ RowsInOrder(w)' /\ RowsAreGood(w)'
        BY <1>1, <3>1, HeldStands
      <3> QED
        BY <1>1, <1>3, <2>0, <3>1, <3>2, <3>3, WorkerStays, IdleHandsNext
    <2> QED
      BY <2>1, <2>2
  <1>5. CASE WorkerOpen(w)
    <2>1. /\ UNCHANGED <<events, blocks, jobs>> /\ wpc[w] = "work" /\ hand[w].type = "Open" /\ hand'[w] = Nothing
      BY <1>2, <1>5 DEF WorkerOpen
    <2>2. Flying' = Flying
      BY <1>1, <1>3, <1>n, <2>1, FlyingStands
    <2>3. Held(w)' = Held(w) /\ RowsInOrder(w)' /\ RowsAreGood(w)'
      BY <1>1, <1>n, <2>1, HeldDropped
    <2> QED
      BY <1>1, <2>1, <2>2, <2>3, WorkerStays, IdleHandsNext
  <1>6. CASE WorkerRows(w)
    <2>0. UNCHANGED <<events, jobs>> /\ wpc[w] = "work" /\ hand[w].type = "Rows"
      BY <1>6 DEF WorkerRows
    <2>1. CASE \E c : WorkerFails(w, c)
      <3>1. AllInOrder' /\ RowsDrop(w) /\ Flying' = Flying /\ wpc'[w] = "report"
        BY <1>0, <1>1, <2>0, <2>1, WorkerFailsDrops
      <3> QED
        BY <1>1, <3>1, IdleHandsNext
    <2>2. CASE ~\E c : WorkerFails(w, c)
      <3>1. /\ ~hand[w].bad /\ hand'[w] = Nothing
            /\ blocks'[w] = BlocksWith(w, hand[w].gen, hand[w].id)
        BY <1>2, <1>6, <2>2 DEF WorkerRows
      <3>2. ctxs[w] = {hand[w].gen}
        BY <1>0, <2>0 DEF WorkerInv, HandShape
      <3>3. Flying' = Flying
        BY <1>1, <1>3, <1>n, <2>0, <3>1, FlyingStands
      <3>4. Held(w)' = Held(w) /\ RowsInOrder(w)' /\ RowsAreGood(w)'
        BY <1>0, <1>1, <1>3, <2>0, <3>1, <3>2, BlockGrows
      <3> QED
        BY <1>1, <3>1, <3>3, <3>4, WorkerStays, IdleHandsNext
    <2> QED
      BY <2>1, <2>2
  <1>7. CASE WorkerClose(w)
    <2>0. UNCHANGED <<events, jobs>> /\ wpc[w] = "work" /\ hand[w].type = "Close"
      BY <1>7 DEF WorkerClose
    <2>1. CASE WorkerFails(w, "StorageFailed")
      <3>1. AllInOrder' /\ RowsDrop(w) /\ Flying' = Flying /\ wpc'[w] = "report"
        BY <1>0, <1>1, <2>0, <2>1, WorkerFailsDrops
      <3> QED
        BY <1>1, <3>1, IdleHandsNext
    <2>2. CASE ~WorkerFails(w, "StorageFailed")
      <3>1. /\ hand'[w] = [type |-> "Closed", gen |-> hand[w].gen,
                           files |-> IF hand[w].gen \notin DOMAIN blocks[w] THEN {}
                                     ELSE {[gen |-> hand[w].gen, worker |-> w, rows |-> blocks[w][hand[w].gen]]}]
            /\ blocks'[w] = Restrict(blocks[w], (DOMAIN blocks[w]) \ {hand[w].gen})
            /\ wpc'[w] = "send"
        BY <1>2, <1>7, <2>2 DEF WorkerClose
      <3>2. ctxs[w] = {hand[w].gen} /\ hand[w].gen = generation /\ jobs[w] = <<>>
        BY <1>0, <2>0 DEF WorkerInv, HandShape
      <3>3. /\ Held(w)' = {} /\ Held(w) = Decoded(w)
            /\ \A f \in hand'[w].files : f.gen = hand[w].gen /\ Range(f.rows) = Held(w)
            /\ \A f \in hand'[w].files : f.rows # <<>> /\ Increasing(f.rows)
            /\ Held(w) # {} => \E f \in hand'[w].files : Range(f.rows) = Held(w)
            /\ RowsInOrder(w)' /\ RowsAreGood(w)'
            /\ \A f, h \in hand'[w].files : f = h
        BY <1>0, <1>1, <2>0, <3>1, <3>2, BlockCloses
      <3>4. hand'[w].type = "Closed"
        BY <3>1
      <3>5. \A f : f \in Flying' <=> f \in Flying \/ f \in hand'[w].files
        BY <1>1, <1>3, <2>0, <3>4, FlyingMeans, FlyingMeansNext DEF Others
      <3>6. \A v \in Workers \ {w} : Held(v)' = Held(v) /\ RowsInOrder(v)' /\ RowsAreGood(v)'
        BY <1>1, OthersHold
      <3>7. RowsClose(w)
        BY <1>1, <3>2, <3>3, <3>5, <3>6 DEF RowsClose
      <3>8. AllInOrder'
        BY <3>3, <3>6 DEF AllInOrder
      <3> QED
        BY <1>1, <3>1, <3>7, <3>8, IdleHandsNext
    <2> QED
      BY <2>1, <2>2
  <1>8. CASE WorkerSend(w)
    <2>1. /\ UNCHANGED <<jobs, blocks>> /\ wpc[w] \in {"send", "report"} /\ hand'[w] = Nothing
          /\ events' = Append(events, hand[w])
      BY <1>2, <1>8 DEF WorkerSend
    <2>2. hand[w] \in Messages /\ hand[w].type # "Rows" /\ events \in Seq(Messages)
      BY <1>0, <2>1, MessageFacts DEF PoolTypes
    <2>3. /\ DOMAIN events' = DOMAIN events \cup {Len(events) + 1} /\ events'[Len(events) + 1] = hand[w]
          /\ \A k \in DOMAIN events : events'[k] = events[k]
      BY <2>1, <2>2
    <2>4. \A f : f \in Flying' <=> f \in Flying
      BY <1>1, <1>n, <2>1, <2>3, FlyingMeans, FlyingMeansNext DEF Others
    <2>5. Held(w)' = Held(w) /\ RowsInOrder(w)' /\ RowsAreGood(w)'
      BY <1>1, <1>n, <2>1, <2>2, HeldDropped
    <2>6. Flying' = Flying
      BY <2>4
    <2> QED
      BY <1>1, <2>1, <2>5, <2>6, WorkerStays, IdleHandsNext
  <1>9. CASE WorkerExit(w)
    <2>1. /\ UNCHANGED <<jobs, events, hand>> /\ wpc[w] = "leaving" /\ wpc'[w] = "exit" /\ blocks'[w] = <<>>
      BY <1>2, <1>9 DEF WorkerExit
    <2>2. Flying' = Flying
      BY <1>1, <1>3, <1>n, <2>1, FlyingStands
    <2>3. AllInOrder' /\ RowsDrop(w)
      BY <1>1, <1>3, <1>n, <2>1, <2>2, WorkerDrops
    <2> QED
      BY <1>1, <1>3, <2>1, <2>2, <2>3, IdleHandsNext
  <1> QED
    BY <1>4, <1>5, <1>6, <1>7, <1>8, <1>9 DEF Worker

-----------------------------------------------------------------------------
RowsDispatch(w) == /\ pos \in 1..Len(dump) /\ dump[pos].type = "rows"
                   /\ TableOf(pos) = current /\ current \in Wanted
                   /\ rpc = "scan" /\ rpc' = "scan" /\ current' = current /\ ~skipping
                   /\ pos' = pos + 1
                   /\ AllFiles' = AllFiles /\ Flying' = Flying
                   /\ Held(w)' = Held(w) \cup {pos}
                   /\ \A v \in Workers \ {w} : Held(v)' = Held(v)

RowsForget == /\ AllFiles' \subseteq AllFiles /\ Flying' \subseteq Flying
              /\ \A w \in Workers : Held(w)' = Held(w)
              /\ rpc = "cause" /\ rpc' = "shutdown" /\ outcome' \notin {"running", "ok"}

(* No answer has been taken when the reader is not at the barrier. *)
LEMMA NothingAcked ==
    ASSUME PoolInv, rpc = "scan"
    PROVE  block = {}
  <1>1. PICK n \in 0..Threads : \E own \in [1..n -> Workers] : AnsweredBy(n, own)
    BY DEF PoolInv, AnswersInv
  <1>2. PICK own \in [1..n -> Workers] : AnsweredBy(n, own)
    BY <1>1
  <1>3. \A i \in 1..n : own[i] \in Workers /\ Spent(own[i])
    BY <1>2 DEF AnsweredBy
  <1>4. \A w \in Workers : ~AfterBlock(w)
    BY DEF AfterBlock, Draining
  <1>5. \A i \in 1..n : i <= n - Len(events) => Quiet(own[i])
    BY <1>2 DEF AnsweredBy, Draining
  <1>6. \A i \in 1..n : ~(i <= n - Len(events))
    BY <1>3, <1>4, <1>5 DEF Spent, Quiet, Gone
  <1> QED
    BY <1>2, <1>6 DEF AnsweredBy

LEMMA AllStand ==
    ASSUME AllInOrder, UNCHANGED <<jobs, hand, blocks, dump>>
    PROVE  AllInOrder' /\ \A w \in Workers : Held(w)' = Held(w)
  BY HeldStands DEF AllInOrder

LEMMA ReaderAloneMoves ==
    ASSUME PoolInv, AllInOrder, ReaderAlone
    PROVE  AllInOrder' /\ RowsStay /\ Flying' = Flying /\ dump' = dump /\ staged' = staged
  <1>1. UNCHANGED <<jobs, hand, blocks, events>>
    BY ReaderAloneStands DEF poolVars
  <1>2. dump' = dump /\ staged' = staged
    BY DEF ReaderAlone, OpenInput, EndOfChunk, DumpVersion, Table, CopyStart, CopyEnd, EndOfDump,
           CommitsOver, Shutdown, Join
  <1>3. block' = block
    <2>1. CASE CopyEnd
      <3>1. block = {}
        BY <2>1, NothingAcked DEF CopyEnd, At
      <3> QED
        BY <2>1, <3>1 DEF CopyEnd
    <2>2. CASE ~CopyEnd
      BY <2>2 DEF ReaderAlone, OpenInput, EndOfChunk, DumpVersion, Table, CopyStart, EndOfDump,
           CommitsOver, Shutdown, Join
    <2> QED
      BY <2>1, <2>2
  <1>4. Flying' = Flying /\ Kept' = Kept
    BY <1>1, <1>2, <1>3 DEF Flying, Kept
  <1> QED
    BY <1>1, <1>2, <1>4, AllStand DEF RowsStay, AllFiles

(* The reader queues a job that carries no payload. *)
LEMMA ControlMoves ==
    ASSUME PoolTypes, AllInOrder, NEW w \in Workers, NEW job \in Jobs, job.type # "Rows",
           jobs' = [jobs EXCEPT ![w] = Append(@, job)], UNCHANGED <<hand, blocks, events, block, staged, dump>>
    PROVE  AllInOrder' /\ RowsStay /\ Flying' = Flying
  <1>1. jobs'[w] = Append(jobs[w], job) /\ \A v \in Workers \ {w} : jobs'[v] = jobs[v]
    BY DEF PoolTypes
  <1>2. Held(w)' = Held(w) /\ RowsInOrder(w)' /\ RowsAreGood(w)'
    BY <1>1, QueueGrows DEF AllInOrder
  <1>3. \A v \in Workers \ {w} : Held(v)' = Held(v) /\ RowsInOrder(v)' /\ RowsAreGood(v)'
    BY <1>1, HeldStands DEF AllInOrder
  <1>4. Flying' = Flying /\ Kept' = Kept
    BY DEF Flying, Kept
  <1> QED
    BY <1>2, <1>3, <1>4 DEF AllInOrder, RowsStay, AllFiles

LEMMA BroadcastMoves ==
    ASSUME PoolInv, AllInOrder, BroadcastOpen \/ BroadcastClose
    PROVE  AllInOrder' /\ RowsStay /\ Flying' = Flying /\ dump' = dump /\ staged' = staged
  <1>0. PoolTypes /\ generation \in Nat /\ widx \in Workers
    BY DEF PoolInv, TypeOK, ReaderTypes
  <1>1. UNCHANGED <<hand, blocks, events, block, staged, dump>>
    BY DEF BroadcastOpen, BroadcastClose, workerVars
  <1>2. \/ jobs' = jobs
        \/ \E y \in {"Open", "Close"} : jobs' = [jobs EXCEPT ![widx] = Append(@, [type |-> y, gen |-> generation])]
    BY DEF BroadcastOpen, BroadcastClose, Broadcast
  <1>3. CASE jobs' = jobs
    <2>1. Flying' = Flying /\ Kept' = Kept
      BY <1>1 DEF Flying, Kept
    <2> QED
      BY <1>1, <1>3, <2>1, AllStand DEF RowsStay, AllFiles
  <1>4. ASSUME NEW y \in {"Open", "Close"},
               jobs' = [jobs EXCEPT ![widx] = Append(@, [type |-> y, gen |-> generation])]
        PROVE  AllInOrder' /\ RowsStay /\ Flying' = Flying
    <2> DEFINE job == [type |-> y, gen |-> generation]
    <2>1. job \in Jobs /\ job.type # "Rows"
      BY <1>0 DEF Jobs
    <2>2. jobs' = [jobs EXCEPT ![widx] = Append(@, job)]
      BY <1>4
    <2> HIDE DEF job
    <2> QED
      BY <1>0, <1>1, <2>1, <2>2, ControlMoves
  <1> QED
    BY <1>1, <1>2, <1>3, <1>4

(* Where the reader is in a block, and the table of its next row. *)
LEMMA RowAtPos ==
    ASSUME PoolInv, BlockInv, At("rows")
    PROVE  /\ pos \in 1..Len(dump) /\ Len(dump) \in Nat
           /\ ~skipping => TableOf(pos) = current /\ current \in Wanted
           /\ skipping => TableOf(pos) \notin Wanted
  <1>1. rpc = "scan" /\ dump \in Dumps /\ pos \in 1..Len(dump) /\ dump[pos].type = "rows" /\ Len(dump) \in Nat
    BY DumpFacts DEF At, PoolInv, TypeOK, ReaderTypes
  <1>2. Inside(dump, pos)
    BY <1>1, DumpFacts
  <1>3. PICK j \in 1..(pos - 1) : BlockStart(dump, pos, j)
    BY <1>2 DEF Inside
  <1>4. TableOf(pos) = dump[j].table
    BY <1>1, <1>3, TableOfRow
  <1>5. IF skipping THEN dump[j].table \notin Wanted ELSE current = dump[j].table /\ current \in Wanted
    BY <1>1, <1>3 DEF BlockInv
  <1> QED
    BY <1>1, <1>4, <1>5

LEMMA CopyRowsMoves ==
    ASSUME PoolInv, AllInOrder, BlockInv, HeldApart, CopyRows
    PROVE  /\ AllInOrder' /\ dump' = dump /\ staged' = staged /\ Flying' = Flying
           /\ RowsStay \/ \E w \in Workers : RowsDispatch(w)
           /\ ~NoFailure' \/ (skipping /\ RowsStay) \/ \E w \in Workers : RowsDispatch(w)
  <1>0. PoolTypes /\ generation \in Nat /\ rr + 1 \in Workers
    BY PoolAssumption DEF PoolInv, TypeOK, ReaderTypes, Workers
  <1>1. UNCHANGED <<hand, blocks, events, block, staged, dump, current, wpc, jobOpen, outcome>>
    BY DEF CopyRows, workerVars
  <1>2. Flying' = Flying /\ Kept' = Kept
    BY <1>1 DEF Flying, Kept
  <1>3. CASE jobs' = jobs
    <2>1. AllInOrder' /\ RowsStay
      BY <1>1, <1>2, <1>3, AllStand DEF RowsStay, AllFiles
    <2>2. skipping \/ wpc[rr + 1] = "exit"
      <3>1. jobs[rr + 1] \in Seq(Jobs)
        BY <1>0 DEF PoolTypes
      <3>2. \A job : Append(jobs[rr + 1], job) # jobs[rr + 1]
        BY <3>1
      <3>3. jobs'[rr + 1] = jobs[rr + 1] /\ DOMAIN jobs = Workers
        BY <1>0, <1>3 DEF PoolTypes
      <3> QED
        BY <1>0, <3>2, <3>3 DEF CopyRows, Refuses
    <2>3. jobOpen
      BY DEF PoolInv, ReaderInv, CopyRows, At
    <2>4. wpc[rr + 1] = "exit" => ~NoFailure'
      BY <1>0, <1>1, <2>3 DEF NoFailure
    <2> QED
      BY <1>1, <1>2, <2>1, <2>2, <2>4
  <1>4. CASE jobs' # jobs
    <2>0. PICK w \in Workers : w = rr + 1
      BY <1>0
    <2> DEFINE job == [type |-> "Rows", gen |-> generation, id |-> pos, bad |-> dump[pos].bad]
    <2>1. /\ ~skipping /\ jobs' = [jobs EXCEPT ![w] = Append(@, job)] /\ pos' = pos + 1 /\ rpc' = rpc /\ At("rows")
      BY <1>4, <2>0 DEF CopyRows
    <2>2. /\ pos \in 1..Len(dump) /\ TableOf(pos) = current /\ current \in Wanted
          /\ rpc = "scan" /\ dump[pos].type = "rows" /\ Len(dump) \in Nat
      BY <2>1, RowAtPos DEF At
    <2>3. dump \in Dumps
      BY DEF PoolInv, TypeOK, ReaderTypes
    <2>4. dump[pos].bad \in BOOLEAN
      BY <2>2, <2>3, DumpFacts
    <2>5. job \in Jobs /\ job.type = "Rows" /\ job.id = pos /\ job.bad = dump[job.id].bad
      BY <1>0, <2>2, <2>4 DEF Jobs
    <2> HIDE DEF job
    <2>7. jobs'[w] = Append(jobs[w], job) /\ \A v \in Workers \ {w} : jobs'[v] = jobs[v]
      BY <1>0, <2>1 DEF PoolTypes
    <2>8. \A i \in Held(w) : i < job.id
      <3>1. \A i \in Held(w) : i \in 1..(pos - 1)
        BY DEF HeldApart, Passed
      <3> QED
        BY <2>2, <2>5, <3>1
    <2>9. Held(w)' = Held(w) \cup {pos} /\ RowsInOrder(w)' /\ RowsAreGood(w)'
      BY <1>0, <1>1, <2>5, <2>7, <2>8, QueueGrows DEF AllInOrder
    <2>10. \A v \in Workers \ {w} : Held(v)' = Held(v) /\ RowsInOrder(v)' /\ RowsAreGood(v)'
      BY <1>1, <2>7, HeldStands DEF AllInOrder
    <2>11. AllInOrder'
      BY <2>9, <2>10 DEF AllInOrder
    <2>12. RowsDispatch(w)
      BY <1>1, <1>2, <2>1, <2>2, <2>9, <2>10 DEF RowsDispatch, AllFiles
    <2> QED
      BY <1>1, <1>2, <2>11, <2>12
  <1> QED
    BY <1>3, <1>4

(* The files of the unread events, once the first has been taken. *)
Unread(f) == \E k \in DOMAIN events : events[k].type = "Closed" /\ f \in events[k].files

LEMMA TakenFiles ==
    ASSUME PoolTypes, events' = EventsLeft
    PROVE  /\ \A f : Unread(f)' => Unread(f)
           /\ \A f : Unread(f) => Unread(f)' \/ (EventTaken.type = "Closed" /\ f \in EventTaken.files)
           /\ EventTaken.type = "Closed" => \A f \in EventTaken.files : Unread(f)
  <1>1. events \in Seq(Messages)
    BY DEF PoolTypes
  <1>2. CASE events = <<>>
    BY <1>2 DEF Unread, EventsLeft, EventTaken
  <1>3. CASE events # <<>>
    <2>1. /\ EventTaken = events[1] /\ 1 \in DOMAIN events /\ Len(events) \in Nat /\ Len(events) >= 1
          /\ DOMAIN events = 1..Len(events) /\ DOMAIN events' = 1..(Len(events) - 1)
          /\ \A k \in 1..(Len(events) - 1) : events'[k] = events[k + 1]
      BY <1>1, <1>3 DEF EventTaken, EventsLeft
    <2>2. \A k \in DOMAIN events' : k + 1 \in DOMAIN events /\ events'[k] = events[k + 1]
      BY <2>1
    <2>3. \A k \in DOMAIN events : k # 1 => k - 1 \in DOMAIN events' /\ events'[k - 1] = events[k]
      BY <2>1
    <2>4. \A f : Unread(f)' => Unread(f)
      BY <2>2 DEF Unread
    <2>5. ASSUME NEW f, Unread(f)
          PROVE  Unread(f)' \/ (EventTaken.type = "Closed" /\ f \in EventTaken.files)
      <3>1. PICK k \in DOMAIN events : events[k].type = "Closed" /\ f \in events[k].files
        BY <2>5 DEF Unread
      <3>2. CASE k = 1
        BY <2>1, <3>1, <3>2
      <3>3. CASE k # 1
        BY <2>3, <3>1, <3>3 DEF Unread
      <3> QED
        BY <3>2, <3>3
    <2> QED
      BY <2>1, <2>4, <2>5 DEF Unread
  <1> QED
    BY <1>2, <1>3

(* The files in flight, hands apart. *)
LEMMA FlyingSplit ==
    ASSUME hand' = hand
    PROVE  /\ \A f : Unread(f) \/ f \in block => f \in Flying
           /\ \A f \in Flying : (\A w \in Workers : ~(hand[w].type = "Closed" /\ f \in hand[w].files))
                                   => Unread(f) \/ f \in block
           /\ \A f \in Flying : f \in Flying' \/ Unread(f) \/ f \in block
           /\ \A f \in Flying' : f \in Flying \/ Unread(f)' \/ f \in block'
           /\ \A f : Unread(f)' \/ f \in block' => f \in Flying'
  BY FlyingMeans, FlyingMeansNext DEF Unread

(* The barrier takes an answer; with the last one the files are staged. *)
LEMMA AwaitAckMoves ==
    ASSUME PoolInv, AllInOrder, AwaitAck
    PROVE  /\ AllInOrder' /\ RowsStay /\ dump' = dump /\ Flying' \subseteq Flying
           /\ \/ staged' = staged
              \/ \E F \in SUBSET Flying : staged' = [staged EXCEPT ![dump[pos].table] = @ \cup F]
  <1>0. PoolTypes /\ ReaderTypes /\ ReaderInv
    BY DEF PoolInv, TypeOK
  <1>1. /\ UNCHANGED <<hand, blocks, jobs, dump>> /\ events' = EventsLeft /\ rpc = "acks"
    BY DEF AwaitAck, workerVars
  <1>2. dump[pos].table \in Tables
    <2>1. dump \in Dumps /\ pos \in 1..Len(dump) /\ dump[pos].type = "end"
      BY <1>0, <1>1, DumpFacts DEF ReaderTypes, ReaderInv
    <2> QED
      BY <2>1, DumpFacts
  <1>3. staged \in [Tables -> SUBSET Files]
    BY <1>0 DEF ReaderTypes
  <1> DEFINE e == EventTaken
             closed == EventTaken.type = "Closed"
  <1>4. /\ \A f : Unread(f)' => Unread(f)
        /\ \A f : Unread(f) => Unread(f)' \/ (closed /\ f \in e.files)
        /\ closed => \A f \in e.files : Unread(f)
    BY <1>0, <1>1, TakenFiles
  <1>5. \/ ~closed /\ UNCHANGED <<block, staged>>
        \/ closed /\ block' = block \cup e.files /\ staged' = staged
        \/ closed /\ block' = {} /\ staged' = [staged EXCEPT ![dump[pos].table] = @ \cup (block \cup e.files)]
    <2>1. CASE ~closed
      BY <2>1 DEF AwaitAck
    <2>2. CASE closed /\ acked + 1 < Threads
      <3>1. acked + 1 # Threads
        BY <1>0, <2>2, PoolAssumption DEF ReaderTypes
      <3> QED
        BY <2>2, <3>1 DEF AwaitAck
    <2>3. CASE closed /\ ~(acked + 1 < Threads)
      <3>1. closed /\ block' = {} /\ staged' = [staged EXCEPT ![dump[pos].table] = @ \cup block \cup e.files]
        BY <2>3 DEF AwaitAck
      <3>2. \A S : S \cup block \cup e.files = S \cup (block \cup e.files)
        OBVIOUS
      <3> QED
        BY <3>1, <3>2
    <2> QED
      BY <2>1, <2>2, <2>3
  <1> HIDE DEF e, closed
  <1>6. Flying' \subseteq Flying
    BY <1>1, <1>4, <1>5, FlyingSplit
  <1>7. \A f \in Flying : f \in Flying' \/ f \in Kept'
    <2> TAKE f \in Flying
    <2>1. f \in Flying' \/ (closed /\ f \in e.files) \/ f \in block
      BY <1>1, <1>4, FlyingSplit
    <2>2. f \in block' => f \in Flying'
      BY <1>1, FlyingSplit
    <2>3. CASE \/ ~closed /\ block' = block
               \/ closed /\ block' = block \cup e.files
      BY <2>1, <2>2, <2>3
    <2>4. CASE staged' = [staged EXCEPT ![dump[pos].table] = @ \cup (block \cup e.files)]
      <3>1. staged'[dump[pos].table] = staged[dump[pos].table] \cup (block \cup e.files)
        BY <1>2, <1>3, <2>4
      <3>2. f \in staged'[dump[pos].table] => f \in Kept'
        BY <1>2, KeptMeans
      <3> QED
        BY <2>1, <3>1, <3>2
    <2> QED
      BY <1>5, <2>3, <2>4
  <1>8. Kept \subseteq Kept' /\ \A f \in Kept' : f \in Kept \/ f \in Flying
    <2>1. CASE staged' = staged
      BY <2>1, KeptMeans
    <2>2. CASE closed /\ staged' = [staged EXCEPT ![dump[pos].table] = @ \cup (block \cup e.files)]
      <3>1. \A t \in Tables : staged[t] \subseteq staged'[t] /\ \A f \in staged'[t] : f \in staged[t] \/ f \in block \cup e.files
        BY <1>2, <1>3, <2>2
      <3>2. block \cup e.files \subseteq Flying
        BY <1>1, <1>4, <2>2, FlyingSplit
      <3> QED
        BY <3>1, <3>2, KeptMeans
    <2> QED
      BY <1>5, <2>1, <2>2
  <1>9. AllFiles' = AllFiles
    BY <1>6, <1>7, <1>8 DEF AllFiles
  <1>10. \/ staged' = staged
         \/ \E F \in SUBSET Flying : staged' = [staged EXCEPT ![dump[pos].table] = @ \cup F]
    <2>1. closed => block \cup e.files \in SUBSET Flying
      BY <1>1, <1>4, FlyingSplit
    <2> QED
      BY <1>5, <2>1
  <1> QED
    BY <1>1, <1>6, <1>9, <1>10, AllStand DEF RowsStay

LEMMA TakeCauseMoves ==
    ASSUME PoolInv, AllInOrder, TakeCause
    PROVE  AllInOrder' /\ RowsForget /\ dump' = dump /\ staged' = staged
  <1>0. PoolTypes
    BY DEF PoolInv, TypeOK
  <1>1. /\ UNCHANGED <<hand, blocks, jobs, dump, block, staged>> /\ events' = EventsLeft
        /\ rpc = "cause" /\ rpc' = "shutdown"
    BY DEF TakeCause, workerVars, Return
  <1>2. Flying' \subseteq Flying
    BY <1>0, <1>1, TakenFiles, FlyingSplit
  <1>3. Kept' = Kept
    BY <1>1 DEF Kept
  <1>4. outcome' \in Causes
    <2>1. EventTaken.type = "Failed" => EventTaken.cause \in Causes
      <3>1. events \in Seq(Messages)
        BY <1>0 DEF PoolTypes
      <3>2. events # <<>> => EventTaken \in Messages
        BY <3>1 DEF EventTaken
      <3>3. events = <<>> => EventTaken.type = "None"
        BY DEF EventTaken
      <3> QED
        BY <3>2, <3>3, MessageFacts
    <2> QED
      BY <2>1 DEF TakeCause, Return, Causes
  <1> QED
    BY <1>1, <1>2, <1>3, <1>4, AllStand DEF RowsForget, AllFiles, Causes

-----------------------------------------------------------------------------
(***************************************************************************)
(* No payload is in two places.                                            *)
(***************************************************************************)
LEMMA PassedStays ==
    ASSUME dump' = dump, pos \in Nat, pos' \in Nat, pos <= pos'
    PROVE  /\ \A i : TableOf(i)' = TableOf(i)
           /\ \A i : Passed(i) => Passed(i)'
  <1>1. \A i : TableOf(i)' = TableOf(i)
    BY DEF TableOf
  <1> QED
    BY <1>1 DEF Passed

LEMMA ApartShrinks ==
    ASSUME HeldApart, FilesApart, dump' = dump, \A i : Passed(i) => Passed(i)',
           \A w \in Workers : Held(w)' \subseteq Held(w), AllFiles' \subseteq AllFiles
    PROVE  HeldApart' /\ FilesApart'
  <1>1. HeldApart'
    <2>1. ASSUME NEW w \in Workers
          PROVE  /\ \A i \in Held(w)' : Passed(i)'
                 /\ \A v \in Workers \ {w} : Held(v)' \cap Held(w)' = {}
                 /\ \A f \in AllFiles' : Range(f.rows) \cap Held(w)' = {}
      <3>1. /\ \A i \in Held(w) : Passed(i)
            /\ \A v \in Workers \ {w} : Held(v) \cap Held(w) = {}
            /\ \A f \in AllFiles : Range(f.rows) \cap Held(w) = {}
        BY DEF HeldApart, AllFiles
      <3> QED
        BY <3>1
    <2> QED
      BY <2>1 DEF HeldApart, AllFiles
  <1>2. FilesApart'
    <2>1. ASSUME NEW f \in AllFiles'
          PROVE  /\ f.rows # <<>> /\ Increasing(f.rows)
                 /\ \A i \in Range(f.rows) : Passed(i)' /\ ~dump'[i].bad
                 /\ \A g \in AllFiles' \ {f} : Range(f.rows) \cap Range(g.rows) = {}
      <3>1. /\ f.rows # <<>> /\ Increasing(f.rows)
            /\ \A i \in Range(f.rows) : Passed(i) /\ ~dump[i].bad
            /\ \A g \in AllFiles \ {f} : Range(f.rows) \cap Range(g.rows) = {}
        BY DEF FilesApart, AllFiles
      <3> QED
        BY <3>1
    <2> QED
      BY <2>1 DEF FilesApart, AllFiles
  <1> QED
    BY <1>1, <1>2

LEMMA ApartDispatch ==
    ASSUME HeldApart, FilesApart, dump' = dump, \A i : Passed(i) => Passed(i)',
           \A i : TableOf(i)' = TableOf(i), NEW w \in Workers, RowsDispatch(w), pos \in Nat, pos >= 1
    PROVE  HeldApart' /\ FilesApart'
  <1>1. PICK p \in Nat : p = pos
    OBVIOUS
  <1>2. /\ \A v \in Workers : p \notin Held(v)
        /\ \A f \in AllFiles : p \notin Range(f.rows)
    <2>1. ~Passed(p)
      BY <1>1 DEF Passed
    <2> QED
      BY <2>1 DEF HeldApart, FilesApart, AllFiles
  <1>3. Passed(p)'
    <2>1. p \in 1..(pos' - 1) /\ dump'[p].type = "rows" /\ TableOf(p) \in Wanted
      BY <1>1 DEF RowsDispatch
    <2> QED
      BY <2>1 DEF Passed
  <1>4. /\ \A v \in Workers : Held(v)' = Held(v) \cup (IF v = w THEN {p} ELSE {})
        /\ AllFiles' = AllFiles
    BY <1>1 DEF RowsDispatch
  <1>5. HeldApart'
    <2>1. ASSUME NEW v \in Workers
          PROVE  /\ \A i \in Held(v)' : Passed(i)'
                 /\ \A u \in Workers \ {v} : Held(u)' \cap Held(v)' = {}
                 /\ \A f \in AllFiles' : Range(f.rows) \cap Held(v)' = {}
      <3>1. /\ \A i \in Held(v) : Passed(i)
            /\ \A u \in Workers \ {v} : Held(u) \cap Held(v) = {}
            /\ \A f \in AllFiles : Range(f.rows) \cap Held(v) = {}
        BY DEF HeldApart, AllFiles
      <3> QED
        BY <1>2, <1>3, <1>4, <3>1
    <2> QED
      BY <2>1 DEF HeldApart, AllFiles
  <1>6. FilesApart'
    BY <1>4 DEF FilesApart, AllFiles
  <1> QED
    BY <1>5, <1>6

LEMMA ApartClose ==
    ASSUME HeldApart, FilesApart, AllInOrder, dump' = dump, \A i : Passed(i) => Passed(i)',
           NEW w \in Workers, RowsClose(w)
    PROVE  HeldApart' /\ FilesApart'
  <1>1. PICK N : N = hand'[w].files
    OBVIOUS
  <1>2. /\ \A f \in AllFiles' : f \in AllFiles \/ f \in N
        /\ \A f \in N : Range(f.rows) = Held(w) /\ f.rows # <<>> /\ Increasing(f.rows)
        /\ \A f, h \in N : f = h
        /\ \A v \in Workers : v # w => Held(v)' = Held(v)
        /\ Held(w)' = {} /\ Held(w) = Decoded(w)
    BY <1>1 DEF RowsClose, AllFiles
  <1>3. /\ \A i \in Held(w) : Passed(i) /\ ~dump[i].bad
        /\ \A v \in Workers : v # w => Held(v) \cap Held(w) = {}
        /\ \A f \in AllFiles : Range(f.rows) \cap Held(w) = {}
    BY <1>2 DEF HeldApart, AllFiles, AllInOrder, RowsAreGood
  <1>4. HeldApart'
    <2>1. ASSUME NEW v \in Workers
          PROVE  /\ \A i \in Held(v)' : Passed(i)'
                 /\ \A u \in Workers \ {v} : Held(u)' \cap Held(v)' = {}
                 /\ \A f \in AllFiles' : Range(f.rows) \cap Held(v)' = {}
      <3>1. /\ \A i \in Held(v) : Passed(i)
            /\ \A u \in Workers \ {v} : Held(u) \cap Held(v) = {}
            /\ \A f \in AllFiles : Range(f.rows) \cap Held(v) = {}
        BY DEF HeldApart, AllFiles
      <3> QED
        BY <1>2, <1>3, <3>1
    <2> QED
      BY <2>1 DEF HeldApart, AllFiles
  <1>5. FilesApart'
    <2>1. ASSUME NEW f \in AllFiles'
          PROVE  /\ f.rows # <<>> /\ Increasing(f.rows)
                 /\ \A i \in Range(f.rows) : Passed(i)' /\ ~dump'[i].bad
                 /\ \A g \in AllFiles' \ {f} : Range(f.rows) \cap Range(g.rows) = {}
      <3>1. CASE f \in N
        BY <1>2, <1>3, <3>1
      <3>2. CASE f \in AllFiles
        <4>1. /\ f.rows # <<>> /\ Increasing(f.rows)
              /\ \A i \in Range(f.rows) : Passed(i) /\ ~dump[i].bad
              /\ \A g \in AllFiles \ {f} : Range(f.rows) \cap Range(g.rows) = {}
          BY <3>2 DEF FilesApart, AllFiles
        <4> QED
          BY <1>2, <1>3, <3>2, <4>1
      <3> QED
        BY <1>2, <3>1, <3>2
    <2> QED
      BY <2>1 DEF FilesApart, AllFiles
  <1> QED
    BY <1>4, <1>5

-----------------------------------------------------------------------------
(***************************************************************************)
(* The block under way, and what has been staged.                          *)
(***************************************************************************)
Between == rpc \in {"start", "commit"} \/ (rpc = "scan" /\ current = NoTable)

LEMMA IdleIsEmpty ==
    PoolTypes /\ IdleHands /\ events = <<>> /\ block = {}
      /\ (\A w \in Workers : wpc[w] \in {"recv", "leaving", "exit"} /\ jobs[w] = <<>> /\ ctxs[w] = {}) => NoRows
  <1> SUFFICES ASSUME PoolTypes, IdleHands, events = <<>>, block = {},
                      \A w \in Workers : wpc[w] \in {"recv", "leaving", "exit"} /\ jobs[w] = <<>> /\ ctxs[w] = {}
               PROVE  NoRows
    OBVIOUS
  <1>1. \A w \in Workers : hand[w].type = "Nothing" /\ DOMAIN blocks[w] = {} /\ DOMAIN jobs[w] = {}
    BY BlocksTyped DEF IdleHands, Nothing
  <1>2. \A w \in Workers : Held(w) = {}
    BY <1>1 DEF Held, Queued, InHand, Decoded
  <1>3. \A f : f \notin Flying
    BY <1>1, FlyingMeans
  <1> QED
    BY <1>2, <1>3 DEF NoRows

LEMMA BetweenIsEmpty ==
    PoolInv /\ IdleHands /\ Between => /\ NoRows /\ events = <<>> /\ block = {}
                                       /\ \A w \in Workers : wpc[w] = "recv" /\ jobs[w] = <<>> /\ ctxs[w] = {}
  <1> SUFFICES ASSUME PoolInv, IdleHands, Between
               PROVE  /\ NoRows /\ events = <<>> /\ block = {}
                      /\ \A w \in Workers : wpc[w] = "recv" /\ jobs[w] = <<>> /\ ctxs[w] = {}
    OBVIOUS
  <1>1. TypeOK /\ WorkersInv /\ AnswersInv /\ PoolTypes
    BY DEF PoolInv, WorkersInv, TypeOK
  <1>2. \A w \in Workers : BeforeBlock(w)
    BY DEF Between, BeforeBlock
  <1>3. (\A w \in Workers : Quiet(w)) /\ events = <<>> /\ block = {}
    BY <1>1, <1>2, BetweenBlocks
  <1> QED
    BY <1>1, <1>3, IdleIsEmpty DEF Quiet

LEMMA BetweenIsEmptyNext == PoolInv' /\ IdleHands' /\ Between' => NoRows'
  BY BetweenIsEmpty, PTL

(* The block that the reader is in, as it goes on by one event. *)
LEMMA StartsMove ==
    ASSUME dump \in Dumps, NEW p \in 1..Len(dump), NEW j \in 1..p, BlockStart(dump, p + 1, j)
    PROVE  /\ dump[p].type \notin {"start", "end"} => j \in 1..(p - 1) /\ BlockStart(dump, p, j)
           /\ dump[p].type = "start" => j = p
           /\ dump[p].type # "end"
  <1>1. Len(dump) \in Nat /\ p \in Nat /\ j \in Nat
    BY DumpFacts
  <1>2. /\ dump[j].type = "start" /\ \A k \in (j + 1)..p : dump[k].type \notin {"start", "end"}
    BY <1>1 DEF BlockStart
  <1>3. j # p => p \in (j + 1)..p /\ j \in 1..(p - 1)
    BY <1>1
  <1>4. j # p => BlockStart(dump, p, j)
    BY <1>1, <1>2, <1>3 DEF BlockStart
  <1> QED
    BY <1>2, <1>3, <1>4

(* What the block invariant says once the load drains or is committed. *)
LEMMA BlockInvAway ==
    ASSUME BlockInv, Flying' \subseteq Flying, generation' = generation,
           rpc' \notin {"open", "scan", "close", "acks"}
    PROVE  BlockInv'
  BY DEF BlockInv

(* The starts that BlockInv speaks of: here p is the reader's place. *)
InStart(p, s, c) == \A j \in 1..(p - 1) : BlockStart(dump, p, j) =>
                       IF s THEN dump[j].table \notin Wanted
                            ELSE c = dump[j].table /\ c \in Wanted

LEMMA BlockInvScan ==
    ASSUME BlockInv, dump' = dump, rpc' = "scan", NEW p \in Nat, p = pos',
           InStart(p, skipping', current'),
           \/ NoRows'
           \/ /\ rpc = "scan" /\ current' = current /\ generation' = generation
              /\ Flying' \subseteq Flying /\ \A w \in Workers : Held(w)' \subseteq Held(w)
    PROVE  BlockInv'
  <1>1. \A i : TableOf(i)' = TableOf(i)
    BY DEF TableOf
  <1>2. \A j \in 1..(pos' - 1) : BlockStart(dump', pos', j) =>
            IF skipping' THEN dump'[j].table \notin Wanted
                         ELSE current' = dump'[j].table /\ current' \in Wanted
    BY DEF InStart
  <1>3. /\ \A w \in Workers : \A i \in Held(w)' : TableOf(i) = current'
        /\ \A f \in Flying' : f.gen = generation' /\ \A i \in Range(f.rows) : TableOf(i) = current'
    <2>1. CASE NoRows'
      BY <2>1 DEF NoRows
    <2>2. CASE /\ rpc = "scan" /\ current' = current /\ generation' = generation
               /\ Flying' \subseteq Flying /\ \A w \in Workers : Held(w)' \subseteq Held(w)
      BY <2>2 DEF BlockInv, OpenTable
    <2> QED
      BY <2>1, <2>2
  <1> QED
    BY <1>1, <1>2, <1>3 DEF BlockInv, OpenTable

(* The reader passes an event that opens and closes no block. *)
LEMMA InStartPlain ==
    ASSUME dump \in Dumps, NEW p \in 1..Len(dump), p \in Nat, dump[p].type \notin {"start", "end"},
           NEW s, NEW c, InStart(p, s, c)
    PROVE  InStart(p + 1, s, c)
  <1>1. (p + 1) - 1 = p
    OBVIOUS
  <1>2. \A j \in 1..p : BlockStart(dump, p + 1, j) => j \in 1..(p - 1) /\ BlockStart(dump, p, j)
    BY StartsMove
  <1> QED
    BY <1>1, <1>2 DEF InStart

LEMMA InStartEnds ==
    ASSUME dump \in Dumps, NEW p \in 1..Len(dump), p \in Nat, dump[p].type = "end", NEW s, NEW c
    PROVE  InStart(p + 1, s, c)
  <1>1. (p + 1) - 1 = p
    OBVIOUS
  <1>2. \A j \in 1..p : ~BlockStart(dump, p + 1, j)
    BY StartsMove
  <1> QED
    BY <1>1, <1>2 DEF InStart

LEMMA InStartStarts ==
    ASSUME dump \in Dumps, NEW p \in 1..Len(dump), p \in Nat, dump[p].type = "start", NEW s, NEW c,
           IF s THEN dump[p].table \notin Wanted ELSE c = dump[p].table /\ c \in Wanted
    PROVE  InStart(p + 1, s, c)
  <1>1. (p + 1) - 1 = p
    OBVIOUS
  <1>2. \A j \in 1..p : BlockStart(dump, p + 1, j) => j = p
    BY StartsMove
  <1> QED
    BY <1>1, <1>2 DEF InStart

LEMMA FilesTyped == PoolInv /\ IdleHands => \A f \in AllFiles : f \in Files
  <1> SUFFICES ASSUME PoolInv, IdleHands, NEW f \in AllFiles PROVE f \in Files
    OBVIOUS
  <1>1. PoolTypes /\ ReaderTypes
    BY DEF PoolInv, TypeOK
  <1>2. CASE f \in Kept
    BY <1>1, <1>2, KeptMeans DEF ReaderTypes
  <1>3. CASE f \in block
    BY <1>1, <1>3 DEF ReaderTypes
  <1>4. ASSUME NEW k \in DOMAIN events, events[k].type = "Closed", f \in events[k].files
        PROVE  f \in Files
    <2>1. events \in Seq(Messages)
      BY <1>1 DEF PoolTypes
    <2>2. events[k] \in Messages
      BY <2>1
    <2> QED
      BY <1>4, <2>2, MessageFacts
  <1>5. ASSUME NEW w \in Workers, hand[w].type = "Closed", f \in hand[w].files
        PROVE  f \in Files
    <2>1. hand[w] # Nothing /\ hand[w] \notin Jobs
      BY <1>5, JobFacts DEF Nothing
    <2>2. hand[w] \in Messages
      BY <1>1, <2>1 DEF PoolTypes
    <2> QED
      BY <1>5, <2>2, MessageFacts
  <1> QED
    BY <1>2, <1>3, <1>4, <1>5, FlyingMeans DEF AllFiles

LEMMA FilesTypedNext == PoolInv' /\ IdleHands' => (\A f \in AllFiles : f \in Files)'
  BY FilesTyped, PTL

LEMMA RowsAreSome ==
    ASSUME NEW f \in Files, f.rows # <<>>
    PROVE  Range(f.rows) # {} /\ f.rows \in Seq(Nat)
  <1>1. f.rows \in Seq(Nat)
    BY FileFacts
  <1>2. 1 \in DOMAIN f.rows
    BY <1>1
  <1> QED
    BY <1>1, <1>2 DEF Range

LEMMA BlockInvWorker ==
    ASSUME BlockInv, UNCHANGED readerVars, dump' = dump, PoolInv', IdleHands', NEW w \in Workers,
           \/ RowsClose(w)
           \/ Flying' = Flying /\ \A v \in Workers : Held(v)' \subseteq Held(v)
    PROVE  BlockInv'
  <1>1. /\ UNCHANGED <<rpc, pos, skipping, current, generation>>
        /\ \A i : TableOf(i)' = TableOf(i)
    BY DEF readerVars, TableOf
  <1>2. \A v \in Workers : Held(v)' \subseteq Held(v)
    BY DEF RowsClose
  <1>3. PICK N : N = hand'[w].files
    OBVIOUS
  <1>4. \A f \in Flying' : \/ f \in Flying
                           \/ f \in N /\ f.gen = generation /\ Range(f.rows) = Held(w) /\ f.rows # <<>>
    BY <1>3 DEF RowsClose
  <1>5. OpenTable' = OpenTable
    BY <1>1 DEF OpenTable
  <1>6. rpc = "open" => NoRows'
    <2> SUFFICES ASSUME rpc = "open" PROVE NoRows'
      OBVIOUS
    <2>1. NoRows
      BY DEF BlockInv
    <2>2. \A f \in Flying' : Range(f.rows) = {} /\ f.rows # <<>>
      BY <1>4, <2>1 DEF NoRows
    <2>3. CASE RowsClose(w)
      <3>1. \A f \in Flying' : f \in N
        BY <1>3, <2>1, <2>3 DEF NoRows, RowsClose
      <3>2. \A f \in Flying' : f \in Files
        BY FilesTypedNext DEF AllFiles
      <3>3. \A f : f \notin Flying'
        BY <1>3, <2>2, <2>3, <3>1, <3>2, RowsAreSome
      <3> QED
        BY <1>2, <2>1, <3>3 DEF NoRows
    <2>4. CASE Flying' = Flying
      BY <1>2, <2>1, <2>4 DEF NoRows
    <2> QED
      BY <2>3, <2>4
  <1>7. rpc \in {"scan", "close", "acks"} =>
         /\ \A v \in Workers : \A i \in Held(v)' : TableOf(i) = OpenTable
         /\ \A f \in Flying' : \A i \in Range(f.rows) : TableOf(i) = OpenTable
    BY <1>2, <1>4 DEF BlockInv
  <1>8. \A f \in Flying' : f.gen = generation
    BY <1>4 DEF BlockInv
  <1> QED
    BY <1>1, <1>5, <1>6, <1>7, <1>8 DEF BlockInv

(* The reader's place, as a rigid value. *)
LEMMA PlaceFacts ==
    ASSUME PoolInv
    PROVE  /\ dump \in Dumps /\ Len(dump) \in Nat /\ pos \in Nat /\ pos >= 1
           /\ \A k : At(k) => pos \in 1..Len(dump)
           /\ BlockInv /\ rpc = "scan" => InStart(pos, skipping, current)
  BY DumpFacts DEF PoolInv, TypeOK, ReaderTypes, At, BlockInv, InStart

LEMMA BlockInvAlone ==
    ASSUME PoolInv, BlockInv, IdleHands, OpenedInv, PoolInv', IdleHands', ReaderAlone,
           dump' = dump, Flying' = Flying, \A w \in Workers : Held(w)' = Held(w)
    PROVE  BlockInv'
  <1>0. PICK p \in Nat : p = pos
    BY PlaceFacts
  <1>1. /\ dump \in Dumps /\ Len(dump) \in Nat /\ \A k : At(k) => p \in 1..Len(dump)
        /\ rpc = "scan" => InStart(p, skipping, current)
    BY <1>0, PlaceFacts
  <1>2. CASE rpc' = "shutdown" /\ generation' = generation
    BY <1>2, BlockInvAway
  <1>3. CASE OpenInput
    <2>1. rpc' = "shutdown" \/ (rpc' = "scan" /\ rpc = "start")
      BY <1>3 DEF OpenInput, Return
    <2>2. UNCHANGED <<pos, current, generation>>
      BY <1>3 DEF OpenInput
    <2>3. rpc = "start" => p = 1 /\ current = NoTable
      BY <1>0 DEF PoolInv, ReaderInv
    <2>4. CASE rpc' = "scan" /\ rpc = "start"
      <3>1. NoRows'
        BY <2>2, <2>3, <2>4, BetweenIsEmptyNext DEF Between
      <3>2. \A s, c : InStart(p, s, c)
        BY <2>3, <2>4 DEF InStart
      <3> QED
        BY <1>0, <2>2, <2>4, <3>1, <3>2, BlockInvScan
    <2> QED
      BY <1>2, <2>1, <2>2, <2>4
  <1>4. CASE EndOfChunk \/ DumpVersion \/ Table
    <2>1. /\ UNCHANGED <<current, generation, skipping>> /\ rpc = "scan"
          /\ rpc' = "shutdown" \/ (rpc' = "scan" /\ pos' = pos + 1)
          /\ At("chunk") \/ At("version") \/ At("table")
      BY <1>4 DEF EndOfChunk, DumpVersion, Table, Return, At
    <2>2. p \in 1..Len(dump) /\ dump[p].type \notin {"start", "end"}
      BY <1>0, <1>1, <2>1 DEF At
    <2>3. InStart(p + 1, skipping, current)
      BY <1>1, <2>1, <2>2, InStartPlain
    <2> QED
      BY <1>0, <1>2, <2>1, <2>3, BlockInvScan
  <1>5. CASE CopyStart
    <2>0. p \in 1..Len(dump) /\ rpc = "scan" /\ dump[p].type = "start" /\ ~Inside(dump, p)
      BY <1>0, <1>1, <1>5, DumpFacts DEF CopyStart, At
    <2>1. ~skipping /\ current = NoTable
      BY <1>0, <2>0 DEF PoolInv, ReaderInv
    <2>2. NoRows
      BY <2>0, <2>1, BetweenIsEmpty DEF Between
    <2>3. NoRows'
      BY <2>2 DEF NoRows
    <2>4. \/ rpc' = "shutdown" /\ generation' = generation
          \/ rpc' = "scan" /\ skipping' = TRUE /\ pos' = pos + 1 /\ dump[pos].table \notin Wanted
          \/ rpc' = "open"
      BY <1>5 DEF CopyStart, Return, At
    <2>5. CASE rpc' = "scan" /\ skipping' = TRUE /\ pos' = pos + 1 /\ dump[pos].table \notin Wanted
      <3>1. InStart(p + 1, TRUE, current')
        BY <1>0, <1>1, <2>0, <2>5, InStartStarts
      <3>2. InStart(p + 1, skipping', current')
        BY <2>5, <3>1
      <3>3. p + 1 \in Nat /\ p + 1 = pos' /\ rpc' = "scan"
        BY <1>0, <2>5
      <3> QED
        BY <2>3, <3>2, <3>3, BlockInvScan
    <2>6. CASE rpc' = "open"
      BY <2>3, <2>6 DEF BlockInv, NoRows
    <2> QED
      BY <1>2, <2>4, <2>5, <2>6
  <1>6. CASE CopyEnd
    <2>0. /\ p \in 1..Len(dump) /\ rpc = "scan" /\ dump[p].type = "end" /\ Inside(dump, p)
          /\ generation' = generation
      BY <1>0, <1>1, <1>6, DumpFacts DEF CopyEnd, At
    <2>1. CASE skipping
      <3>1. rpc' = "scan" /\ pos' = pos + 1 /\ current' = current
        BY <1>6, <2>0, <2>1 DEF CopyEnd
      <3>2. InStart(p + 1, skipping', current')
        BY <1>1, <2>0, InStartEnds
      <3> QED
        BY <1>0, <2>0, <3>1, <3>2, BlockInvScan
    <2>2. CASE ~skipping
      <3>1. rpc' = "close" /\ pos' = pos
        BY <1>6, <2>2 DEF CopyEnd
      <3>2. PICK j \in 1..(p - 1) : BlockStart(dump, p, j)
        BY <2>0 DEF Inside
      <3>3. dump[j].table = dump[p].table
        BY <1>1, <2>0, <3>2, DumpsAssumption
      <3>4. current = dump[p].table
        BY <1>1, <2>0, <2>2, <3>2, <3>3 DEF InStart
      <3>5. OpenTable' = OpenTable
        BY <1>0, <2>0, <3>1, <3>4 DEF OpenTable
      <3>6. \A i : TableOf(i)' = TableOf(i)
        BY DEF TableOf
      <3>7. /\ \A w \in Workers : \A i \in Held(w) : TableOf(i) = OpenTable
            /\ \A f \in Flying : f.gen = generation /\ \A i \in Range(f.rows) : TableOf(i) = OpenTable
        BY <2>0 DEF BlockInv
      <3> QED
        BY <2>0, <3>1, <3>5, <3>6, <3>7 DEF BlockInv
    <2> QED
      BY <2>1, <2>2
  <1>7. CASE EndOfDump \/ CommitsOver \/ Shutdown \/ Join
    <2>1. generation' = generation /\ rpc' \in {"shutdown", "commit", "join", "done"}
      BY <1>7 DEF EndOfDump, CommitsOver, Shutdown, Join, Return
    <2> QED
      BY <2>1, BlockInvAway
  <1> QED
    BY <1>3, <1>4, <1>5, <1>6, <1>7 DEF ReaderAlone

LEMMA BlockInvBroadcast ==
    ASSUME PoolInv, BlockInv, OpenedInv, BroadcastOpen \/ BroadcastClose,
           dump' = dump, Flying' = Flying, \A w \in Workers : Held(w)' = Held(w)
    PROVE  BlockInv'
  <1>0. PICK p \in Nat : p = pos
    BY PlaceFacts
  <1>1. dump \in Dumps /\ Len(dump) \in Nat /\ generation' = generation /\ skipping' = skipping
    BY PlaceFacts DEF BroadcastOpen, BroadcastClose
  <1>2. \A i : TableOf(i)' = TableOf(i)
    BY DEF TableOf
  <1>3. CASE rpc' = "cause"
    BY <1>1, <1>3, BlockInvAway
  <1>4. CASE BroadcastOpen
    <2>1. /\ rpc = "open" /\ ~skipping /\ p \in 1..Len(dump) /\ dump[p].type = "start"
          /\ dump[p].table \in Wanted
      <3>1. rpc = "open"
        BY <1>4 DEF BroadcastOpen, Broadcast
      <3>2. pos <= Len(dump) /\ ~skipping /\ dump[pos].type = "start"
        BY <3>1 DEF PoolInv, ReaderInv
      <3>3. dump[pos].table \in Wanted
        BY <3>1 DEF OpenedInv, TargetInv
      <3>4. pos >= 1
        BY PlaceFacts
      <3> QED
        BY <1>0, <1>1, <3>1, <3>2, <3>3, <3>4
    <2>2. NoRows /\ NoRows'
      BY <2>1 DEF BlockInv, NoRows
    <2>3. \/ rpc' = "open" \/ rpc' = "cause"
          \/ rpc' = "scan" /\ current' = dump[pos].table /\ pos' = pos + 1
      BY <1>4 DEF BroadcastOpen, Broadcast
    <2>4. CASE rpc' = "open"
      BY <1>1, <2>2, <2>4 DEF BlockInv, NoRows
    <2>5. CASE rpc' = "scan" /\ current' = dump[pos].table /\ pos' = pos + 1
      <3>1. InStart(p + 1, FALSE, dump[p].table)
        BY <1>1, <2>1, InStartStarts
      <3>2. InStart(p + 1, skipping', current')
        BY <1>0, <1>1, <2>1, <2>5, <3>1 DEF InStart
      <3> QED
        BY <1>0, <2>2, <2>5, <3>2, BlockInvScan
    <2> QED
      BY <1>3, <2>3, <2>4, <2>5
  <1>5. CASE BroadcastClose
    <2>1. rpc = "close" /\ pos' = pos /\ rpc' \in {"close", "acks", "cause"}
      BY <1>5 DEF BroadcastClose, Broadcast
    <2>2. CASE rpc' # "cause"
      <3>1. OpenTable' = OpenTable
        BY <2>1, <2>2 DEF OpenTable
      <3> QED
        BY <1>1, <1>2, <2>1, <2>2, <3>1 DEF BlockInv
    <2> QED
      BY <1>3, <2>2
  <1> QED
    BY <1>4, <1>5

LEMMA BlockInvRows ==
    ASSUME PoolInv, BlockInv, CopyRows, dump' = dump, Flying' = Flying,
           RowsStay \/ \E w \in Workers : RowsDispatch(w)
    PROVE  BlockInv'
  <1>0. PICK p \in Nat : p = pos
    BY PlaceFacts
  <1>1. /\ p \in 1..Len(dump) /\ dump[p].type = "rows" /\ rpc = "scan" /\ InStart(p, skipping, current)
        /\ UNCHANGED <<generation, skipping, current>> /\ dump \in Dumps
        /\ (rpc' = "scan" /\ pos' = pos + 1) \/ rpc' = "cause"
    BY <1>0, PlaceFacts DEF CopyRows, At
  <1>2. InStart(p + 1, skipping', current')
    BY <1>1, InStartPlain
  <1>3. CASE rpc' = "cause"
    BY <1>1, <1>3, BlockInvAway
  <1>4. CASE rpc' = "scan" /\ pos' = pos + 1 /\ RowsStay
    BY <1>0, <1>1, <1>2, <1>4, BlockInvScan DEF RowsStay
  <1>5. ASSUME rpc' = "scan", pos' = pos + 1, NEW w \in Workers, RowsDispatch(w)
        PROVE  BlockInv'
    <2>1. \A i : TableOf(i)' = TableOf(i)
      BY DEF TableOf
    <2>2. \A v \in Workers : \A i \in Held(v)' : i \in Held(v) \/ TableOf(i) = current
      BY <1>5 DEF RowsDispatch
    <2>3. /\ \A v \in Workers : \A i \in Held(v) : TableOf(i) = current
          /\ \A f \in Flying : f.gen = generation /\ \A i \in Range(f.rows) : TableOf(i) = current
      BY <1>1 DEF BlockInv, OpenTable
    <2>4. \A j \in 1..(pos' - 1) : BlockStart(dump', pos', j) =>
            IF skipping' THEN dump'[j].table \notin Wanted
                         ELSE current' = dump'[j].table /\ current' \in Wanted
      BY <1>0, <1>2, <1>5 DEF InStart
    <2> QED
      BY <1>1, <1>5, <2>1, <2>2, <2>3, <2>4 DEF BlockInv, OpenTable
  <1> QED
    BY <1>1, <1>3, <1>4, <1>5

LEMMA BlockInvAck ==
    ASSUME PoolInv, BlockInv, AwaitAck, dump' = dump, Flying' \subseteq Flying, PoolInv', IdleHands',
           \A w \in Workers : Held(w)' = Held(w)
    PROVE  BlockInv'
  <1>0. PICK p \in Nat : p = pos
    BY PlaceFacts
  <1>1. /\ p \in 1..Len(dump) /\ dump[p].type = "end" /\ rpc = "acks" /\ current = NoTable
        /\ UNCHANGED <<generation, current>> /\ dump \in Dumps
    <2>1. rpc = "acks"
      BY DEF AwaitAck
    <2>2. pos <= Len(dump) /\ dump[pos].type = "end" /\ current = NoTable
      BY <2>1 DEF PoolInv, ReaderInv
    <2>3. pos >= 1 /\ Len(dump) \in Nat /\ dump \in Dumps
      BY PlaceFacts
    <2> QED
      BY <1>0, <2>1, <2>2, <2>3 DEF AwaitAck
  <1>2. \/ rpc' = "shutdown"
        \/ rpc' = "acks" /\ pos' = pos
        \/ rpc' = "scan" /\ pos' = pos + 1
    BY DEF AwaitAck, Return
  <1>3. CASE rpc' = "shutdown"
    BY <1>1, <1>3, BlockInvAway
  <1>4. CASE rpc' = "acks" /\ pos' = pos
    <2>1. OpenTable' = OpenTable /\ \A i : TableOf(i)' = TableOf(i)
      BY <1>1, <1>4 DEF OpenTable, TableOf
    <2> QED
      BY <1>1, <1>4, <2>1 DEF BlockInv
  <1>5. CASE rpc' = "scan" /\ pos' = pos + 1
    <2>1. InStart(p + 1, skipping', current')
      BY <1>1, InStartEnds
    <2>2. NoRows'
      BY <1>1, <1>5, BetweenIsEmptyNext DEF Between
    <2> QED
      BY <1>0, <1>5, <2>1, <2>2, BlockInvScan
  <1> QED
    BY <1>2, <1>3, <1>4, <1>5

LEMMA GenTypes ==
    ASSUME PoolInv
    PROVE  generation \in Nat /\ staged \in [Tables -> SUBSET Files] /\ \A t \in Tables : \A f \in staged[t] : f.gen \in Nat
  BY FileFacts DEF PoolInv, TypeOK, ReaderTypes

LEMMA StagedStands ==
    ASSUME PoolInv, StagedInv, staged' = staged, dump' = dump,
           \/ generation' = generation /\ (BlockOver => BlockOver')
           \/ generation' = generation + 1
    PROVE  StagedInv'
  <1>1. \A i : TableOf(i)' = TableOf(i)
    BY DEF TableOf
  <1>2. ASSUME NEW t \in Tables, NEW f \in staged[t]
        PROVE  f.gen <= generation' /\ (f.gen = generation' => BlockOver')
    <2>1. f.gen \in Nat /\ generation \in Nat
      BY GenTypes
    <2>2. f.gen <= generation /\ (f.gen = generation => BlockOver)
      BY DEF StagedInv
    <2> QED
      BY <2>1, <2>2
  <1> QED
    BY <1>1, <1>2 DEF StagedInv

LEMMA OverStays ==
    ASSUME PoolInv, Reader
    PROVE  \/ generation' = generation /\ (BlockOver => BlockOver')
           \/ generation' = generation + 1
  <1>1. CASE OpenInput
    BY <1>1 DEF OpenInput, BlockOver, Draining
  <1>2. CASE EndOfChunk \/ DumpVersion \/ Table
    BY <1>2 DEF EndOfChunk, DumpVersion, Table, Return, At, BlockOver, Draining
  <1>3. CASE CopyStart
    <2>1. \/ generation' = generation + 1
          \/ generation' = generation /\ current' = current /\ (rpc' = rpc \/ rpc' = "shutdown")
      BY <1>3 DEF CopyStart, Return
    <2> QED
      BY <2>1 DEF BlockOver, Draining
  <1>4. CASE BroadcastOpen \/ BroadcastClose
    BY <1>4 DEF BroadcastOpen, BroadcastClose, Broadcast, BlockOver, Draining
  <1>5. CASE CopyRows
    BY <1>5 DEF CopyRows, BlockOver, Draining
  <1>6. CASE CopyEnd
    <2>1. At("end") /\ rpc = "scan" /\ pos \in 1..Len(dump) /\ dump \in Dumps
      BY <1>6, PlaceFacts DEF CopyEnd, At
    <2>2. Inside(dump, pos)
      BY <2>1, DumpFacts DEF At
    <2>3. skipping \/ current # NoTable
      BY <2>1, <2>2 DEF PoolInv, ReaderInv
    <2>4. CASE skipping
      <3>1. ~BlockOver \/ (rpc' = rpc /\ current' = current)
        BY <1>6, <2>4 DEF CopyEnd
      <3> QED
        BY <1>6, <3>1 DEF BlockOver, CopyEnd
    <2>5. CASE current # NoTable
      BY <1>6, <2>1, <2>5 DEF CopyEnd, BlockOver, Draining
    <2> QED
      BY <2>3, <2>4, <2>5
  <1>7. CASE AwaitAck
    BY <1>7 DEF AwaitAck, BlockOver, Draining
  <1>8. CASE TakeCause \/ EndOfDump \/ CommitsOver \/ Shutdown \/ Join
    BY <1>8 DEF TakeCause, EndOfDump, CommitsOver, Shutdown, Join, Return, BlockOver, Draining
  <1> QED
    BY <1>1, <1>2, <1>3, <1>4, <1>5, <1>6, <1>7, <1>8 DEF Reader

LEMMA StagedAck ==
    ASSUME PoolInv, StagedInv, BlockInv, AwaitAck, dump' = dump,
           NEW F \in SUBSET Flying, staged' = [staged EXCEPT ![dump[pos].table] = @ \cup F],
           staged' # staged
    PROVE  StagedInv'
  <1>1. \A i : TableOf(i)' = TableOf(i)
    BY DEF TableOf
  <1>2. /\ staged \in [Tables -> SUBSET Files] /\ generation \in Nat /\ generation' = generation
        /\ rpc = "acks" /\ current' = current
    BY GenTypes DEF AwaitAck
  <1>3. current = NoTable
    BY <1>2 DEF PoolInv, ReaderInv
  <1>4. BlockOver'
    <2>1. rpc' \in {"scan", "shutdown"}
      BY DEF AwaitAck, Return
    <2> QED
      BY <1>2, <1>3, <2>1 DEF BlockOver, Draining
  <1>5. \A f \in F : f.gen = generation /\ \A i \in Range(f.rows) : TableOf(i) = dump[pos].table
    BY <1>2 DEF BlockInv, OpenTable
  <1>6. ASSUME NEW t \in Tables, NEW f \in staged'[t]
        PROVE  f.gen <= generation /\ \A i \in Range(f.rows) : TableOf(i) = t
    <2>1. f \in staged[t] \/ (t = dump[pos].table /\ f \in F)
      BY <1>2
    <2>2. f \in staged[t] => f.gen <= generation /\ \A i \in Range(f.rows) : TableOf(i) = t
      BY DEF StagedInv
    <2> QED
      BY <1>2, <1>5, <2>1, <2>2
  <1> QED
    BY <1>1, <1>2, <1>4, <1>6 DEF StagedInv

-----------------------------------------------------------------------------
(***************************************************************************)
(* How the load ends.                                                      *)
(***************************************************************************)
Ending == {"shutdown", "join", "done"}

(* drive() returns in one step, and only the commits return success. *)
LEMMA OutcomeMoves ==
    ASSUME PoolInv, Reader
    PROVE  \/ /\ rpc' = "shutdown" /\ rpc \notin Ending /\ outcome' # "running"
              /\ outcome' = "ok" => CommitsOver
           \/ /\ outcome' = outcome /\ (rpc' \in Ending <=> rpc \in Ending)
              /\ rpc \in Ending => Shutdown \/ Join
  <1>1. CASE OpenInput \/ EndOfChunk \/ DumpVersion \/ Table
    BY <1>1 DEF OpenInput, EndOfChunk, DumpVersion, Table, Return, At, Ending
  <1>2. CASE CopyStart \/ CopyRows \/ CopyEnd
    BY <1>2 DEF CopyStart, CopyRows, CopyEnd, Return, At, Ending
  <1>3. CASE BroadcastOpen \/ BroadcastClose
    BY <1>3 DEF BroadcastOpen, BroadcastClose, Broadcast, Ending
  <1>4. CASE AwaitAck \/ TakeCause
    <2>1. rpc \in {"acks", "cause"}
      BY <1>4 DEF AwaitAck, TakeCause
    <2>2. EventTaken.type = "Failed" => EventTaken.cause \in Causes
      <3>1. events \in Seq(Messages)
        BY DEF PoolInv, TypeOK, PoolTypes
      <3>2. events # <<>> => EventTaken \in Messages
        BY <3>1 DEF EventTaken
      <3>3. events = <<>> => EventTaken.type = "None"
        BY DEF EventTaken
      <3> QED
        BY <3>2, <3>3, MessageFacts
    <2>3. CASE outcome' = (IF EventTaken.type = "Failed" THEN EventTaken.cause ELSE "PoolStopped") /\ rpc' = "shutdown"
      BY <2>1, <2>2, <2>3 DEF Ending, Causes
    <2>4. CASE ~(outcome' = (IF EventTaken.type = "Failed" THEN EventTaken.cause ELSE "PoolStopped") /\ rpc' = "shutdown")
      <3>1. \/ outcome' = outcome /\ rpc' \in {"acks", "scan"}
            \/ outcome' = "Interrupted" /\ rpc' = "shutdown"
        BY <1>4, <2>4 DEF AwaitAck, TakeCause, Return
      <3> QED
        BY <2>1, <3>1 DEF Ending
    <2> QED
      BY <2>3, <2>4
  <1>5. CASE EndOfDump
    BY <1>5 DEF EndOfDump, Return, Ending
  <1>6. CASE CommitsOver
    BY <1>6 DEF CommitsOver, Return, Ending
  <1>7. CASE Shutdown \/ Join
    BY <1>7 DEF Shutdown, Join, Ending
  <1> QED
    BY <1>1, <1>2, <1>3, <1>4, <1>5, <1>6, <1>7 DEF Reader

LEMMA OutcomeReader ==
    ASSUME PoolInv, IdleHands, OutcomeInv, Reader
    PROVE  OutcomeInv'
  <1>1. outcome' = "running" <=> rpc' \notin Ending
    BY OutcomeMoves DEF OutcomeInv, Ending
  <1>2. rpc' = "cause" => \E w \in Workers : wpc'[w] = "exit"
    <2> SUFFICES ASSUME rpc' = "cause" PROVE \E w \in Workers : wpc'[w] = "exit"
      OBVIOUS
    <2>1. CASE BroadcastOpen \/ BroadcastClose
      <3>1. wpc' = wpc /\ wpc[widx] = "exit"
        BY <2>1 DEF BroadcastOpen, BroadcastClose, Broadcast, Refuses, workerVars
      <3> QED
        BY <3>1 DEF PoolInv, TypeOK, ReaderTypes
    <2>2. CASE CopyRows
      <3>1. wpc' = wpc /\ wpc[rr + 1] = "exit"
        BY <2>2 DEF CopyRows, At, Refuses, workerVars
      <3>2. rr + 1 \in Workers
        BY PoolAssumption DEF PoolInv, TypeOK, ReaderTypes, Workers
      <3> QED
        BY <3>1, <3>2
    <2>3. CASE ~(BroadcastOpen \/ BroadcastClose \/ CopyRows)
      BY <2>3 DEF Reader, OpenInput, EndOfChunk, DumpVersion, Table, CopyStart, CopyEnd, AwaitAck, TakeCause,
             EndOfDump, CommitsOver, Shutdown, Join, Return, At
    <2> QED
      BY <2>1, <2>2, <2>3
  <1>3. outcome' = "ok" => PoolIdle'
    <2> SUFFICES ASSUME outcome' = "ok" PROVE PoolIdle'
      OBVIOUS
    <2>1. CASE CommitsOver
      <3>1. rpc = "commit" /\ UNCHANGED <<events, block, wpc, jobs, ctxs>>
        BY <2>1 DEF CommitsOver, workerVars
      <3>2. /\ events = <<>> /\ block = {}
            /\ \A w \in Workers : wpc[w] = "recv" /\ jobs[w] = <<>> /\ ctxs[w] = {}
        BY <3>1, BetweenIsEmpty DEF Between
      <3> QED
        BY <3>1, <3>2 DEF PoolIdle
    <2>2. CASE ~CommitsOver
      <3>1. outcome = "ok" /\ (Shutdown \/ Join)
        BY <2>2, OutcomeMoves DEF OutcomeInv, Ending
      <3>2. PoolIdle
        BY <3>1 DEF OutcomeInv
      <3> QED
        BY <3>1, <3>2 DEF PoolIdle, Shutdown, Join, workerVars
    <2> QED
      BY <2>1, <2>2
  <1> QED
    BY <1>1, <1>2, <1>3 DEF OutcomeInv, Ending

LEMMA OutcomeWorker ==
    ASSUME PoolInv, OutcomeInv, NEW w \in Workers, Worker(w)
    PROVE  OutcomeInv'
  <1>0. PoolTypes
    BY DEF PoolInv, TypeOK
  <1>1. Others(w) /\ UNCHANGED <<rpc, outcome, block>>
    BY <1>0, WorkerFrame DEF readerVars
  <1>2. rpc = "cause" => \E v \in Workers : wpc'[v] = "exit"
    <2>1. wpc[w] # "exit"
      BY DEF Worker, WorkerRecv, WorkerOpen, WorkerRows, WorkerClose, WorkerSend, WorkerExit
    <2> QED
      BY <1>1, <2>1 DEF OutcomeInv, Others
  <1>3. outcome = "ok" => PoolIdle'
    <2> SUFFICES ASSUME outcome = "ok" PROVE PoolIdle'
      OBVIOUS
    <2>1. PoolIdle /\ wpc[w] \in {"recv", "leaving", "exit"} /\ jobs[w] = <<>> /\ ctxs[w] = {}
      BY DEF OutcomeInv, PoolIdle
    <2>2. WorkerRecv(w) \/ WorkerExit(w)
      BY <2>1 DEF Worker, WorkerOpen, WorkerRows, WorkerClose, WorkerSend
    <2>3. wpc \in [Workers -> {"recv", "work", "send", "report", "leaving", "exit"}] /\ ctxs \in [Workers -> SUBSET Nat]
      BY <1>0 DEF PoolTypes
    <2>4. UNCHANGED <<events, jobs>>
      BY <2>1, <2>2 DEF WorkerRecv, WorkerExit
    <2>5. wpc'[w] \in {"leaving", "exit"}
      BY <2>1, <2>2, <2>3 DEF WorkerRecv, WorkerExit
    <2>6. \A v \in Workers : ctxs'[v] = {}
      BY <2>1, <2>2, <2>3 DEF WorkerRecv, WorkerExit, PoolIdle
    <2> QED
      BY <1>1, <2>1, <2>4, <2>5, <2>6 DEF PoolIdle, Others
  <1> QED
    BY <1>1, <1>2, <1>3 DEF OutcomeInv

-----------------------------------------------------------------------------
(***************************************************************************)
(* While nothing fails, nothing is lost.                                   *)
(***************************************************************************)

(* The reader goes forward, one event at a time, and only dispatch passes  *)
(* a row of a wanted table.                                                *)
LEMMA PosMoves ==
    ASSUME PoolInv, Reader
    PROVE  /\ dump' = dump /\ (pos' = pos \/ pos' = pos + 1)
           /\ pos' = pos + 1 => pos \in 1..Len(dump) /\ (CopyRows \/ dump[pos].type # "rows")
  <1>0. pos \in Nat /\ pos >= 1 /\ Len(dump) \in Nat
    BY PlaceFacts
  <1>1. CASE OpenInput \/ TakeCause \/ EndOfDump \/ CommitsOver \/ Shutdown \/ Join \/ BroadcastClose
    <2>1. dump' = dump /\ pos' = pos
      BY <1>1 DEF OpenInput, TakeCause, EndOfDump, CommitsOver, Shutdown, Join, BroadcastClose
    <2> QED
      BY <1>0, <2>1
  <1>2. CASE EndOfChunk \/ DumpVersion \/ Table \/ CopyStart \/ CopyRows \/ CopyEnd
    BY <1>0, <1>2 DEF EndOfChunk, DumpVersion, Table, CopyStart, CopyRows, CopyEnd, At
  <1>3. CASE BroadcastOpen
    <2>1. rpc = "open" /\ dump' = dump /\ (pos' = pos \/ pos' = pos + 1)
      BY <1>3 DEF BroadcastOpen, Broadcast
    <2>2. pos <= Len(dump) /\ dump[pos].type = "start"
      BY <2>1 DEF PoolInv, ReaderInv
    <2> QED
      BY <1>0, <2>1, <2>2
  <1>4. CASE AwaitAck
    <2>1. rpc = "acks" /\ dump' = dump /\ (pos' = pos \/ pos' = pos + 1)
      BY <1>4 DEF AwaitAck
    <2>2. pos <= Len(dump) /\ dump[pos].type = "end"
      BY <2>1 DEF PoolInv, ReaderInv
    <2> QED
      BY <1>0, <2>1, <2>2
  <1> QED
    BY <1>1, <1>2, <1>3, <1>4 DEF Reader

LEMMA PassedReader ==
    ASSUME PoolInv, Reader
    PROVE  /\ \A i : TableOf(i)' = TableOf(i)
           /\ \A i : Passed(i) => Passed(i)'
           /\ \A i : Passed(i)' => \/ Passed(i)
                                   \/ /\ i = pos /\ pos' = pos + 1 /\ CopyRows /\ TableOf(i) \in Wanted
  <1>0. PICK p \in Nat : p = pos
    BY PlaceFacts
  <1>1. dump' = dump /\ (pos' = p \/ pos' = p + 1)
    BY <1>0, PosMoves
  <1>2. pos' \in Nat /\ pos <= pos'
    BY <1>0, <1>1
  <1>3. /\ \A i : TableOf(i)' = TableOf(i) /\ (Passed(i) => Passed(i)')
    BY <1>0, <1>1, <1>2, PassedStays
  <1>4. ASSUME NEW i, Passed(i)', ~Passed(i)
        PROVE  i = pos /\ pos' = pos + 1 /\ CopyRows /\ TableOf(i) \in Wanted
    <2>1. i \in 1..(pos' - 1) /\ dump[i].type = "rows" /\ TableOf(i) \in Wanted
      BY <1>1, <1>3, <1>4 DEF Passed
    <2>2. i = p /\ pos' = p + 1
      BY <1>0, <1>1, <1>4, <2>1 DEF Passed
    <2> QED
      BY <1>0, <2>1, <2>2, PosMoves
  <1> QED
    BY <1>3, <1>4

LEMMA LostOk == PoolInv /\ CommitInv /\ outcome = "ok" => NothingLost
  <1> SUFFICES ASSUME PoolInv, CommitInv, outcome = "ok", NEW i \in 1..(pos - 1), Passed(i)
               PROVE  \E f \in AllFiles : i \in Range(f.rows)
    BY DEF NothingLost, AllFiles
  <1>1. i \in DOMAIN dump
    BY DumpFacts DEF PoolInv, TypeOK, ReaderTypes
  <1>2. PICK f \in staged[TableOf(i)] : i \in Range(f.rows)
    BY <1>1 DEF CommitInv
  <1>3. TableOf(i) \in Tables
    BY TablesAssumption DEF Passed
  <1> QED
    BY <1>2, <1>3, KeptMeans DEF AllFiles

LEMMA LostOkNext == PoolInv' /\ CommitInv' /\ (outcome = "ok")' => NothingLost'
  BY LostOk, PTL

(* Payloads that are somewhere stay somewhere. *)
LEMMA SomewhereStays ==
    ASSUME NEW i, Somewhere(i), \/ RowsStay
                                \/ \E w \in Workers : RowsDispatch(w)
                                \/ \E w \in Workers : RowsClose(w)
    PROVE  Somewhere(i)'
  <1>1. CASE RowsStay
    BY <1>1 DEF RowsStay, Somewhere
  <1>2. CASE \E w \in Workers : RowsDispatch(w)
    BY <1>2 DEF RowsDispatch, Somewhere
  <1>3. ASSUME NEW w \in Workers, RowsClose(w)
        PROVE  Somewhere(i)'
    <2>1. AllFiles \subseteq AllFiles' /\ \A f \in hand'[w].files : f \in AllFiles'
      BY <1>3 DEF RowsClose, AllFiles
    <2>2. CASE i \in Held(w)
      BY <1>3, <2>1, <2>2 DEF RowsClose, Somewhere
    <2>3. CASE i \notin Held(w)
      BY <1>3, <2>1, <2>3 DEF RowsClose, Somewhere
    <2> QED
      BY <2>2, <2>3
  <1> QED
    BY <1>1, <1>2, <1>3

LEMMA LostMeans ==
    ASSUME PoolInv
    PROVE  NothingLost <=> (NoFailure => \A i : Passed(i) => Somewhere(i))
  BY DEF NothingLost, Passed, Somewhere, AllFiles

LEMMA LostMeansNext == (\A i : Passed(i)' => Somewhere(i)') => NothingLost'
  BY DEF NothingLost, Somewhere, AllFiles

LEMMA LostReader ==
    ASSUME PoolInv, PoolInv', BlockInv, NothingLost, OutcomeInv, OutcomeInv', CommitInv', Reader,
           RowsStay \/ RowsForget \/ \E w \in Workers : RowsDispatch(w),
           CopyRows => ~NoFailure' \/ (skipping /\ RowsStay) \/ \E w \in Workers : RowsDispatch(w)
    PROVE  NothingLost'
  <1>1. CASE ~NoFailure'
    BY <1>1 DEF NothingLost
  <1>2. CASE outcome' = "ok"
    BY <1>2, LostOkNext
  <1>3. CASE NoFailure' /\ outcome' = "running"
    <2>0. rpc' \notin Ending /\ outcome = "running"
      BY <1>3, OutcomeMoves DEF OutcomeInv, Ending
    <2>1. jobOpen' /\ jobOpen
      BY <2>0 DEF PoolInv, ReaderInv, Ending, OutcomeInv
    <2>2. wpc' = wpc
      BY DEF Reader, workerVars, OpenInput, EndOfChunk, DumpVersion, Table, CopyStart, BroadcastOpen, CopyRows,
             CopyEnd, BroadcastClose, AwaitAck, TakeCause, EndOfDump, CommitsOver, Shutdown, Join
    <2>3. \A w \in Workers : wpc[w] \in {"recv", "work", "send"}
      BY <1>3, <2>1, <2>2 DEF NoFailure
    <2>4. \A k \in DOMAIN events : events[k].type = "Closed"
      <3>1. \A k \in DOMAIN events' : events'[k].type = "Closed"
        BY <1>3 DEF NoFailure
      <3>2. CASE AwaitAck \/ TakeCause
        <4>1. events' = EventsLeft /\ EventTaken.type = "Closed"
          BY <2>0, <3>2 DEF AwaitAck, TakeCause, Return, Ending
        <4>2. events \in Seq(Messages) /\ events # <<>> /\ EventTaken = events[1]
          BY <4>1, EventFacts DEF PoolInv, TypeOK, PoolTypes
        <4>3. events' = Tail(events) /\ Len(events) \in Nat /\ Len(events) >= 1
          BY <4>1, <4>2 DEF EventsLeft
        <4>4. ASSUME NEW k \in DOMAIN events, k # 1
              PROVE  k - 1 \in DOMAIN events' /\ events'[k - 1] = events[k]
          BY <4>2, <4>3, <4>4
        <4> QED
          BY <3>1, <4>1, <4>2, <4>4
      <3>3. CASE ~(AwaitAck \/ TakeCause)
        <4>1. events' = events
          BY <3>3 DEF Reader, OpenInput, EndOfChunk, DumpVersion, Table, CopyStart, BroadcastOpen, CopyRows,
                 CopyEnd, BroadcastClose, EndOfDump, CommitsOver, Shutdown, Join
        <4> QED
          BY <3>1, <4>1
      <3> QED
        BY <3>2, <3>3
    <2>5. NoFailure
      BY <2>0, <2>3, <2>4 DEF NoFailure
    <2>6. RowsStay \/ \E w \in Workers : RowsDispatch(w)
      BY <2>0 DEF RowsForget, Ending
    <2>7. ASSUME NEW i, Passed(i)'
          PROVE  Somewhere(i)'
      <3>1. CASE Passed(i)
        <4>1. Somewhere(i)
          BY <2>5, <3>1, LostMeans
        <4> QED
          BY <2>6, <4>1, SomewhereStays
      <3>2. CASE ~Passed(i)
        <4>1. i = pos /\ CopyRows /\ TableOf(i) \in Wanted
          BY <2>7, <3>2, PassedReader
        <4>2. ~skipping
          BY <4>1, RowAtPos DEF CopyRows
        <4>3. PICK w \in Workers : RowsDispatch(w)
          BY <1>3, <4>1, <4>2
        <4> QED
          BY <4>1, <4>3 DEF RowsDispatch, Somewhere
      <3> QED
        BY <3>1, <3>2
    <2> QED
      BY <2>7, LostMeansNext
  <1> QED
    BY <1>1, <1>2, <1>3 DEF NoFailure

LEMMA LostWorker ==
    ASSUME PoolInv, PoolInv', NothingLost, OutcomeInv, OutcomeInv', CommitInv', NEW w \in Workers, Worker(w),
           RowsStay \/ RowsDrop(w) \/ RowsClose(w)
    PROVE  NothingLost'
  <1>0. PoolTypes
    BY DEF PoolInv, TypeOK
  <1>1. Others(w) /\ UNCHANGED <<rpc, outcome, jobOpen, pos, dump>>
    BY <1>0, WorkerFrame DEF readerVars
  <1>2. CASE ~NoFailure'
    BY <1>2 DEF NothingLost
  <1>3. CASE outcome' = "ok"
    BY <1>3, LostOkNext
  <1>4. CASE NoFailure' /\ outcome' = "running"
    <2>1. jobOpen /\ outcome = "running"
      BY <1>1, <1>4 DEF PoolInv, ReaderInv, OutcomeInv
    <2>2. \A v \in Workers : wpc'[v] \in {"recv", "work", "send"}
      BY <1>1, <1>4, <2>1 DEF NoFailure
    <2>3. RowsStay \/ RowsClose(w)
      BY <2>2 DEF RowsDrop
    <2>4. wpc \in [Workers -> {"recv", "work", "send", "report", "leaving", "exit"}]
      BY <1>0 DEF PoolTypes
    <2>5. wpc[w] \in {"recv", "work", "send"}
      BY <2>2, <2>4 DEF Worker, WorkerRecv, WorkerOpen, WorkerRows, WorkerClose, WorkerSend, WorkerExit
    <2>6. \A k \in DOMAIN events : events[k].type = "Closed"
      <3>1. events \in Seq(Messages)
        BY <1>0 DEF PoolTypes
      <3>2. events' = events \/ events' = Append(events, hand[w])
        BY DEF Worker, WorkerRecv, WorkerOpen, WorkerRows, WorkerClose, WorkerSend, WorkerExit
      <3>3. \A k \in DOMAIN events : k \in DOMAIN events' /\ events'[k] = events[k]
        BY <3>1, <3>2
      <3> QED
        BY <1>4, <3>3 DEF NoFailure
    <2>7. NoFailure
      BY <1>1, <2>1, <2>2, <2>5, <2>6 DEF NoFailure, Others
    <2>8. ASSUME NEW i, Passed(i)'
          PROVE  Somewhere(i)'
      <3>1. Passed(i)
        BY <1>1, <2>8 DEF Passed, TableOf
      <3>2. Somewhere(i)
        BY <2>7, <3>1, LostMeans
      <3> QED
        BY <2>3, <3>2, SomewhereStays
    <2> QED
      BY <2>8, LostMeansNext
  <1> QED
    BY <1>2, <1>3, <1>4 DEF NoFailure

-----------------------------------------------------------------------------
(***************************************************************************)
(* Phase two.                                                              *)
(***************************************************************************)
Closing == rpc = "commit" \/ commits # <<>> \/ outcome = "ok"

AllStaged == \A i \in DOMAIN dump : Passed(i) => \E f \in staged[TableOf(i)] : i \in Range(f.rows)

LEMMA AllStagedStands ==
    ASSUME UNCHANGED <<dump, pos, staged>>
    PROVE  AllStaged => AllStaged'
  <1>1. \A i : TableOf(i)' = TableOf(i)
    BY DEF TableOf
  <1>2. \A i : Passed(i)' <=> Passed(i)
    BY <1>1 DEF Passed
  <1> QED
    BY <1>1, <1>2 DEF AllStaged

LEMMA FedStands ==
    ASSUME dump' = dump
    PROVE  \A t : FedOnce(t)' <=> FedOnce(t)
  BY DEF FedOnce, Starts

(* The reader goes on before phase two, or after it. *)
LEMMA CommitElsewhere ==
    ASSUME CommitInv, UNCHANGED <<commits, visible>>,
           \/ ~Closing /\ ~Closing'
           \/ Closing /\ UNCHANGED <<dump, pos, staged, opened>>
              /\ rpc' \in {"commit", "shutdown", "join", "done"}
              /\ (rpc' = "commit" => rpc = "commit")
              /\ (rpc' # rpc => \A k \in DOMAIN commits : commits[k] \in {"ok", "err"})
              /\ (outcome' = "ok" => outcome = "ok" \/ (rpc = "commit" /\ \A k \in DOMAIN commits : commits[k] = "ok"))
    PROVE  CommitInv'
  <1>1. CASE ~Closing /\ ~Closing'
    <2>1. /\ commits = <<>> /\ commits' = <<>> /\ rpc' # "commit" /\ outcome' # "ok"
      BY <1>1 DEF Closing
    <2>2. \A t \in Tables : ~visible[t].loaded /\ visible[t].files = {}
      BY <2>1 DEF CommitInv, Published
    <2>3. DOMAIN visible = Tables
      BY DEF CommitInv
    <2> QED
      BY <2>1, <2>2, <2>3 DEF CommitInv, Published
  <1>2. CASE Closing /\ UNCHANGED <<dump, pos, staged, opened>>
              /\ rpc' \in {"commit", "shutdown", "join", "done"}
              /\ (rpc' = "commit" => rpc = "commit")
              /\ (rpc' # rpc => \A k \in DOMAIN commits : commits[k] \in {"ok", "err"})
              /\ (outcome' = "ok" => outcome = "ok" \/ (rpc = "commit" /\ \A k \in DOMAIN commits : commits[k] = "ok"))
    <2>1. /\ pos > Len(dump) /\ AllStaged
      BY <1>2 DEF CommitInv, Closing, AllStaged
    <2>2. pos' > Len(dump') /\ AllStaged'
      BY <1>2, <2>1, AllStagedStands
    <2>3. \A k \in DOMAIN commits : commits[k] \in {"todo", "running"} => rpc' = "commit"
      BY <1>2 DEF CommitInv
    <2>4. \A t \in Tables : Published(t)'
      BY <1>2, FedStands DEF CommitInv, Published
    <2>5. ASSUME NEW k \in DOMAIN commits'
          PROVE  /\ outcome' = "ok" => commits'[k] = "ok"
                 /\ commits'[k] = "ok" => visible'[opened'[k]].loaded
                 /\ commits'[k] = "ok" /\ FirstTarget(k)' => visible'[opened'[k]].files = staged'[opened'[k]]
      BY <1>2 DEF CommitInv, FirstTarget
    <2>6. rpc' = "commit" \/ outcome' = "ok" => DOMAIN commits' = DOMAIN opened'
      BY <1>2 DEF CommitInv
    <2> QED
      BY <1>2, <2>2, <2>3, <2>4, <2>5, <2>6 DEF CommitInv, AllStaged
  <1> QED
    BY <1>1, <1>2

(* The whole dump has been read: everything it holds for a wanted table is *)
(* staged for that table.                                                  *)
LEMMA ReadIsStaged ==
    ASSUME PoolInv, IdleHands, OutcomeInv, NothingLost, StagedInv, rpc = "scan", current = NoTable
    PROVE  \A i : Passed(i) => \E f \in staged[TableOf(i)] : i \in Range(f.rows)
  <1>1. /\ NoRows /\ events = <<>> /\ block = {}
        /\ \A w \in Workers : wpc[w] = "recv" /\ jobs[w] = <<>> /\ ctxs[w] = {}
    BY BetweenIsEmpty DEF Between
  <1>2. NoFailure
    BY <1>1 DEF NoFailure, OutcomeInv
  <1> SUFFICES ASSUME NEW i, Passed(i)
               PROVE  \E f \in staged[TableOf(i)] : i \in Range(f.rows)
    OBVIOUS
  <1>3. Somewhere(i)
    BY <1>2, LostMeans
  <1>4. PICK f \in Kept : i \in Range(f.rows)
    BY <1>1, <1>3 DEF Somewhere, NoRows, AllFiles
  <1>5. PICK t \in Tables : f \in staged[t]
    BY KeptMeans
  <1>6. TableOf(i) = t
    BY <1>4, <1>5 DEF StagedInv
  <1> QED
    BY <1>4, <1>5, <1>6

LEMMA CommitReader ==
    ASSUME PoolInv, IdleHands, OutcomeInv, NothingLost, StagedInv, CommitInv, Reader
    PROVE  CommitInv'
  <1>1. visible' = visible
    BY DEF Reader, OpenInput, EndOfChunk, DumpVersion, Table, CopyStart, BroadcastOpen, CopyRows,
           CopyEnd, BroadcastClose, AwaitAck, TakeCause, EndOfDump, CommitsOver, Shutdown, Join
  <1>2. CASE Closing
    <2>1. rpc \in {"commit", "shutdown", "join", "done"}
      BY <1>2 DEF CommitInv, Closing
    <2>2. CommitsOver \/ Shutdown \/ Join
      BY <2>1 DEF Reader, OpenInput, EndOfChunk, DumpVersion, Table, CopyStart, BroadcastOpen, CopyRows,
           CopyEnd, BroadcastClose, AwaitAck, TakeCause, EndOfDump, At, Broadcast
    <2>3. UNCHANGED <<dump, pos, staged, opened, commits>> /\ rpc' \in {"shutdown", "join", "done"}
      BY <2>2 DEF CommitsOver, Shutdown, Join, Return
    <2>4. \A k \in DOMAIN commits : commits[k] \in {"ok", "err"}
      <3>1. CASE CommitsOver
        BY <3>1 DEF CommitsOver
      <3>2. CASE Shutdown \/ Join
        <4>1. rpc # "commit"
          BY <3>2 DEF Shutdown, Join
        <4>2. commits \in Seq({"todo", "running", "ok", "err"})
          BY DEF PoolInv, TypeOK, ReaderTypes
        <4>3. \A k \in DOMAIN commits : commits[k] \in {"todo", "running", "ok", "err"}
          BY <4>2
        <4>4. \A k \in DOMAIN commits : ~(commits[k] \in {"todo", "running"})
          BY <4>1 DEF CommitInv
        <4> QED
          BY <4>3, <4>4
      <3> QED
        BY <2>2, <3>1, <3>2
    <2>5. outcome' = "ok" => outcome = "ok" \/ (rpc = "commit" /\ \A k \in DOMAIN commits : commits[k] = "ok")
      BY <2>2 DEF CommitsOver, Shutdown, Join, Return
    <2> QED
      BY <1>1, <1>2, <2>3, <2>4, <2>5, CommitElsewhere
  <1>3. CASE ~Closing /\ EndOfDump /\ rpc' = "commit"
    <2>1. /\ rpc = "scan" /\ pos > Len(dump) /\ current = NoTable /\ UNCHANGED <<dump, pos, staged, opened>>
          /\ commits' = [i \in DOMAIN opened |-> "todo"]
      BY <1>3 DEF EndOfDump, Return
    <2>2. \A i : Passed(i) => \E f \in staged[TableOf(i)] : i \in Range(f.rows)
      BY <2>1, ReadIsStaged
    <2>3. AllStaged'
      BY <2>1, <2>2, AllStagedStands DEF AllStaged
    <2>4. /\ \A t \in Tables : ~visible[t].loaded /\ visible[t].files = {}
          /\ DOMAIN visible = Tables
      BY <1>3 DEF CommitInv, Closing, Published
    <2>5. DOMAIN commits' = DOMAIN opened' /\ \A k \in DOMAIN commits' : commits'[k] = "todo"
      BY <2>1
    <2>6. outcome' # "ok"
      BY <1>3, <2>1 DEF EndOfDump, Return, Closing
    <2> QED
      BY <1>1, <1>3, <2>1, <2>3, <2>4, <2>5, <2>6 DEF CommitInv, AllStaged, Published
  <1>4. CASE ~Closing /\ ~(EndOfDump /\ rpc' = "commit")
    <2>1. commits' = commits /\ rpc' # "commit"
      BY <1>4 DEF Closing, Reader, OpenInput, EndOfChunk, DumpVersion, Table, CopyStart, BroadcastOpen, CopyRows,
           CopyEnd, BroadcastClose, Broadcast, AwaitAck, TakeCause, EndOfDump, CommitsOver, Shutdown, Join, Return, At
    <2>2. outcome' # "ok"
      BY <1>4, OutcomeMoves DEF Closing, CommitsOver
    <2>3. ~Closing'
      BY <1>4, <2>1, <2>2 DEF Closing
    <2> QED
      BY <1>1, <1>4, <2>1, <2>3, CommitElsewhere
  <1> QED
    BY <1>2, <1>3, <1>4

LEMMA CommitStands ==
    ASSUME CommitInv, UNCHANGED readerVars, UNCHANGED <<dump, commits, visible>>
    PROVE  CommitInv'
  <1>1. UNCHANGED <<dump, pos, staged, opened, rpc, outcome>>
    BY DEF readerVars
  <1>2. Closing => AllStaged /\ AllStaged'
    BY <1>1, AllStagedStands DEF CommitInv, Closing, AllStaged
  <1>3. \A t \in Tables : Published(t)'
    BY <1>1, FedStands DEF CommitInv, Published
  <1>4. \A k : FirstTarget(k)' <=> FirstTarget(k)
    BY <1>1 DEF FirstTarget
  <1> QED
    BY <1>1, <1>2, <1>3, <1>4 DEF CommitInv, Closing, AllStaged

(* A commit starts, or is over. *)
LEMMA CommitTasks ==
    ASSUME PoolInv, CommitInv, OpenedInv, NEW i \in DOMAIN commits, Commit(i)
    PROVE  /\ CommitInv' /\ UNCHANGED readerVars /\ dump' = dump
           /\ commits' # <<>>
           /\ \/ visible' = visible
              \/ opened[i] \in Tables /\ visible' = [visible EXCEPT ![opened[i]] =
                                                      [loaded |-> TRUE, files |-> @.files \cup Actions(i)]]
  <1>1. UNCHANGED readerVars /\ dump' = dump
    BY DEF Commit, CommitStart, CommitDone
  <1>2. /\ commits \in Seq({"todo", "running", "ok", "err"}) /\ commits # <<>>
        /\ opened \in Seq(Tables) /\ DOMAIN commits = DOMAIN opened
    BY DEF CommitInv, PoolInv, TypeOK, ReaderTypes
  <1>3. opened[i] \in Tables
    BY <1>2
  <1>4. PICK c \in {"running", "ok", "err"} :
            /\ commits' = [commits EXCEPT ![i] = c]
            /\ c = "running" => rpc = "commit" /\ visible' = visible
            /\ \/ visible' = visible /\ c # "ok"
               \/ visible' = [visible EXCEPT ![opened[i]] = [loaded |-> TRUE, files |-> @.files \cup Actions(i)]]
    BY Zenon DEF Commit, CommitStart, CommitDone
  <1>5. DOMAIN commits' = DOMAIN commits /\ commits' # <<>>
    BY <1>2, <1>4
  <1>6. \A k \in DOMAIN commits' : commits'[k] = IF k = i THEN c ELSE commits[k]
    BY <1>2, <1>4
  <1>7. DOMAIN visible = Tables /\ DOMAIN visible' = Tables
    BY <1>4 DEF CommitInv
  <1>8. \A t \in Tables : visible[t].files = {} \/ visible[t].files = staged[t]
    BY DEF CommitInv, Published
  <1>9. \A t \in Tables : \/ visible'[t] = visible[t]
                          \/ visible'[t].loaded /\ visible'[t].files = visible[t].files \cup Actions(i) /\ t = opened[i]
    BY <1>4, <1>7
  <1>10. FedOnce(opened[i]) => FirstTarget(i)
    BY <1>2 DEF OpenedInv, TargetInv
  <1>11. \A t \in Tables :
            \/ visible'[t] = visible[t]
            \/ /\ visible'[t].loaded
               /\ \/ visible'[t].files = staged[t]
                  \/ visible'[t].files = {} /\ ~FedOnce(t)
    BY <1>8, <1>9, <1>10 DEF Actions
  <1>12. \A t \in Tables : /\ visible[t].loaded => visible'[t].loaded
                           /\ visible[t].files = staged[t] => visible'[t].files = staged[t]
    BY <1>8, <1>9 DEF Actions
  <1>13. /\ c = "ok" => visible'[opened[i]].loaded
         /\ c = "ok" /\ FirstTarget(i) => visible'[opened[i]].files = staged[opened[i]]
    <2>1. c = "ok" => /\ visible'[opened[i]].loaded
                      /\ visible'[opened[i]].files = visible[opened[i]].files \cup Actions(i)
      BY <1>3, <1>4, <1>7
    <2> QED
      BY <1>3, <1>8, <2>1 DEF Actions
  <1>14. UNCHANGED <<opened, rpc, staged, outcome>>
    BY <1>1 DEF readerVars
  <1>15. \A k : FirstTarget(k)' <=> FirstTarget(k)
    BY <1>14 DEF FirstTarget
  <1>16. c \in {"running", "ok", "err"} /\ (outcome = "ok" => c = "ok")
    <2>1. outcome # "ok"
      <3>1. commits[i] \in {"todo", "running"}
        BY DEF Commit, CommitStart, CommitDone
      <3> QED
        BY <3>1 DEF CommitInv
    <2> QED
      BY <2>1
  <1>17. ASSUME NEW k \in DOMAIN commits'
         PROVE  /\ commits'[k] \in {"todo", "running"} => rpc' = "commit"
                /\ outcome' = "ok" => commits'[k] = "ok"
                /\ commits'[k] = "ok" => visible'[opened'[k]].loaded
                /\ commits'[k] = "ok" /\ FirstTarget(k)' => visible'[opened'[k]].files = staged'[opened'[k]]
    <2>1. CASE k = i
      BY <1>4, <1>6, <1>13, <1>14, <1>15, <1>16, <2>1
    <2>2. CASE k # i
      <3>1. commits'[k] = commits[k] /\ opened[k] \in Tables /\ k \in DOMAIN commits
        BY <1>2, <1>5, <1>6, <2>2
      <3> QED
        BY <1>12, <1>14, <1>15, <3>1 DEF CommitInv
    <2> QED
      BY <2>1, <2>2
  <1>18. rpc \in {"commit", "shutdown", "join", "done"} /\ pos > Len(dump) /\ AllStaged
    BY <1>2 DEF CommitInv, AllStaged
  <1>19. rpc' \in {"commit", "shutdown", "join", "done"} /\ pos' > Len(dump') /\ AllStaged'
    BY <1>1, <1>18, AllStagedStands DEF readerVars
  <1>20. \A t \in Tables : Published(t)'
    BY <1>1, <1>5, <1>11, <1>14, FedStands DEF CommitInv, Published
  <1>21. DOMAIN commits' = DOMAIN opened'
    BY <1>2, <1>5, <1>14
  <1>22. CommitInv'
    BY <1>7, <1>17, <1>19, <1>20, <1>21 DEF CommitInv, AllStaged
  <1> QED
    BY <1>1, <1>3, <1>4, <1>5, <1>22

-----------------------------------------------------------------------------
(***************************************************************************)
(* The tables that have been opened.                                       *)
(***************************************************************************)
IsOpened(t) == \E k \in DOMAIN opened : opened[k] = t

LEMMA OpenedGrows ==
    ASSUME PoolInv, dump' = dump, pos' = pos, NEW t \in Tables, opened' = Append(opened, t),
           pos \in DOMAIN dump, Starts(pos, t), t \in Wanted, OpenedInv, rpc = "scan", rpc' = "open"
    PROVE  /\ \A u : IsOpened(u)' <=> IsOpened(u) \/ u = t
           /\ \A k \in DOMAIN opened' : TargetInv(k)'
  <1>1. opened \in Seq(Tables) /\ Len(opened) \in Nat
    BY DEF PoolInv, TypeOK, ReaderTypes
  <1>0. PICK n \in Nat : n = Len(opened) + 1
    BY <1>1
  <1>2. /\ DOMAIN opened' = 1..n /\ DOMAIN opened = 1..Len(opened)
        /\ \A k \in DOMAIN opened : opened'[k] = opened[k]
        /\ opened'[n] = t
    BY <1>0, <1>1
  <1>3. \A k \in DOMAIN opened : TargetInv(k)
    BY DEF OpenedInv
  <1>4. \A k \in DOMAIN opened' : k \in DOMAIN opened \/ k = n
    BY <1>0, <1>1, <1>2
  <1>5. ASSUME NEW u PROVE IsOpened(u)' <=> IsOpened(u) \/ u = t
    BY <1>1, <1>2, <1>4 DEF IsOpened
  <1>6. \A j, u : Starts(j, u)' <=> Starts(j, u)
    BY DEF Starts
  <1>7. PICK p \in Nat : p = pos
    BY PlaceFacts
  <1>8. ASSUME NEW k \in DOMAIN opened
        PROVE  FirstTarget(k)' <=> FirstTarget(k)
    <2>1. \A j \in 1..(k - 1) : j \in DOMAIN opened
      BY <1>1, <1>2
    <2> QED
      BY <1>2, <2>1 DEF FirstTarget
  <1>9. FirstTarget(n)' <=> ~IsOpened(t)
    <2>1. 1..(n - 1) = DOMAIN opened
      BY <1>0, <1>1, <1>2
    <2> QED
      BY <1>2, <2>1 DEF FirstTarget, IsOpened
  <1>10. ASSUME NEW k \in DOMAIN opened
         PROVE  TargetInv(k)'
    <2>1. PICK j \in DOMAIN dump : Starts(j, opened[k]) /\ j <= pos
      BY <1>3 DEF TargetInv
    <2>2. PICK l \in DOMAIN opened : opened[l] = opened[k] /\ FirstTarget(l)
      BY <1>3 DEF TargetInv
    <2>3. l \in DOMAIN opened' /\ opened'[l] = opened'[k] /\ FirstTarget(l)'
      BY <1>1, <1>2, <1>8, <2>2
    <2>4. FedOnce(opened[k]) => FirstTarget(k)'
      BY <1>3, <1>8 DEF TargetInv
    <2>5. PICK u : u = opened[k]
      OBVIOUS
    <2>6. opened'[k] = u
      BY <1>2, <2>5
    <2>7. FedOnce(u)' => FirstTarget(k)'
      BY <2>4, <2>5, FedStands
    <2>8. u \in Wanted
      BY <1>3, <2>5 DEF TargetInv
    <2>9. j \in DOMAIN dump' /\ Starts(j, u)' /\ j <= pos'
      BY <1>6, <2>1, <2>5
    <2>10. \E m \in DOMAIN opened' : opened'[m] = u /\ FirstTarget(m)'
      BY <2>3, <2>6
    <2> QED
      BY <2>6, <2>7, <2>8, <2>9, <2>10 DEF TargetInv
  <1>11. TargetInv(n)'
    <2>1. n \in DOMAIN opened'
      BY <1>0, <1>1, <1>2
    <2>2. \E l \in DOMAIN opened' : opened'[l] = opened'[n] /\ FirstTarget(l)'
      <3>1. CASE ~IsOpened(t)
        BY <1>9, <2>1, <3>1
      <3>2. CASE IsOpened(t)
        <4>1. PICK k \in DOMAIN opened : opened[k] = t
          BY <3>2 DEF IsOpened
        <4>2. PICK l \in DOMAIN opened : opened[l] = t /\ FirstTarget(l)
          BY <1>3, <4>1 DEF TargetInv
        <4> QED
          BY <1>1, <1>2, <1>8, <4>2
      <3> QED
        BY <3>1, <3>2
    <2>3. FedOnce(t)' => FirstTarget(n)'
      <3> SUFFICES ASSUME FedOnce(t), IsOpened(t) PROVE FALSE
        BY <1>9, FedStands
      <3>1. PICK k \in DOMAIN opened : opened[k] = t
        BY DEF IsOpened
      <3>2. PICK j \in DOMAIN dump : Starts(j, t) /\ j < pos
        BY <1>3, <3>1 DEF TargetInv
      <3>3. j # pos
        <4>1. j \in Nat
          BY DumpFacts, PlaceFacts
        <4> QED
          BY <1>7, <3>2, <4>1
      <3> QED
        BY <3>2, <3>3 DEF FedOnce
    <2>4. p \in DOMAIN dump' /\ Starts(p, t)' /\ p <= pos'
      BY <1>6, <1>7
    <2>5. \E l \in DOMAIN opened' : opened'[l] = t /\ FirstTarget(l)'
      BY <1>2, <2>2
    <2> QED
      BY <1>2, <2>3, <2>4, <2>5 DEF TargetInv
  <1>12. \A k \in DOMAIN opened' : TargetInv(k)'
    BY <1>4, <1>10, <1>11
  <1> QED
    BY <1>5, <1>12

(* A step that opens no table and meets no start of a wanted block. *)
LEMMA OpenedStands ==
    ASSUME PoolInv, OpenedInv, dump' = dump, opened' = opened, visible' = visible,
           pos' = pos \/ (pos' = pos + 1 /\ (dump[pos].type = "start" => dump[pos].table \notin Wanted \/ IsOpened(dump[pos].table))),
           rpc' = "open" => rpc = "open" /\ pos' = pos,
           rpc' \in {"start", "scan"} => rpc \in {"start", "scan"} \/ pos' = pos + 1
    PROVE  OpenedInv'
  <1>0. PICK p \in Nat : p = pos
    BY PlaceFacts
  <1>1. pos' = p \/ (pos' = p + 1 /\ (dump[p].type = "start" => dump[p].table \notin Wanted \/ IsOpened(dump[p].table)))
    BY <1>0
  <1>2. ASSUME NEW j \in 1..(pos' - 1), dump[j].type = "start", dump[j].table \in Wanted
        PROVE  IsOpened(dump[j].table)
    <2>1. j \in 1..(p - 1) \/ j = p
      BY <1>0, <1>1
    <2>2. CASE j \in 1..(p - 1)
      BY <1>0, <1>2, <2>2 DEF OpenedInv, IsOpened
    <2>3. CASE j = p /\ pos' = p + 1
      BY <1>1, <1>2, <2>3
    <2> QED
      BY <1>0, <1>1, <2>1, <2>2, <2>3
  <1>3. rpc' = "open" => IsOpened(dump[pos'].table)
    BY DEF OpenedInv, IsOpened
  <1>4. ASSUME NEW k \in DOMAIN opened
        PROVE  TargetInv(k)'
    <2>1. TargetInv(k)
      BY DEF OpenedInv
    <2>2. PICK j \in DOMAIN dump : Starts(j, opened[k]) /\ j <= p /\ (rpc \in {"start", "scan"} => j < p)
      BY <1>0, <2>1 DEF TargetInv
    <2>3. j \in Nat
      BY DumpFacts, PlaceFacts
    <2>4. j <= pos' /\ (rpc' \in {"start", "scan"} => j < pos')
      BY <1>0, <1>1, <2>2, <2>3
    <2>5. \A l : FirstTarget(l)' <=> FirstTarget(l)
      BY DEF FirstTarget
    <2>6. Starts(j, opened[k])'
      BY <2>2 DEF Starts
    <2> QED
      BY <2>1, <2>4, <2>5, <2>6, FedStands DEF TargetInv
  <1> QED
    BY <1>2, <1>3, <1>4 DEF OpenedInv, IsOpened

(* A step of a worker or of a look-up. *)
LEMMA OpenedKept ==
    ASSUME OpenedInv, UNCHANGED <<dump, pos, rpc, opened, visible>>
    PROVE  OpenedInv'
  <1>1. \A k \in DOMAIN opened' : TargetInv(k)'
    BY FedStands DEF OpenedInv, TargetInv, FirstTarget, Starts
  <1> QED
    BY <1>1 DEF OpenedInv

LEMMA OpenedReader ==
    ASSUME PoolInv, OpenedInv, Reader
    PROVE  OpenedInv'
  <1>0. PICK p \in Nat : p = pos /\ Len(dump) \in Nat
    BY PlaceFacts
  <1>1. visible' = visible /\ dump' = dump
    BY PosMoves DEF Reader, OpenInput, EndOfChunk, DumpVersion, Table, CopyStart, BroadcastOpen, CopyRows,
           CopyEnd, BroadcastClose, AwaitAck, TakeCause, EndOfDump, CommitsOver, Shutdown, Join
  <1>2. CASE CopyStart /\ rpc' = "open"
    <2>1. /\ pos \in 1..Len(dump) /\ dump[pos].type = "start" /\ dump[pos].table \in Wanted
          /\ opened' = Append(opened, dump[pos].table) /\ pos' = pos
      BY <1>2, PlaceFacts DEF CopyStart, At, Return
    <2>2. dump[p].table \in Tables /\ dump[p].table \in Wanted
      BY <1>0, <2>1, TablesAssumption
    <2> DEFINE t == dump[p].table
    <2>3. /\ \A u : IsOpened(u)' <=> IsOpened(u) \/ u = t
          /\ \A k \in DOMAIN opened' : TargetInv(k)'
      <3>1. pos \in DOMAIN dump /\ Starts(pos, t) /\ rpc = "scan"
        BY <1>0, <1>2, <2>1, DumpFacts, PlaceFacts DEF Starts, CopyStart, At
      <3> QED
        BY <1>0, <1>1, <1>2, <2>1, <2>2, <3>1, OpenedGrows
    <2>4. \A j \in 1..(p - 1) : dump[j].type = "start" /\ dump[j].table \in Wanted => IsOpened(dump[j].table)
      BY <1>0 DEF OpenedInv, IsOpened
    <2>5. \A u \in Tables : visible[u].loaded => IsOpened(u)
      BY DEF OpenedInv, IsOpened
    <2>6. \A j \in 1..(pos' - 1) : dump'[j].type = "start" /\ dump'[j].table \in Wanted => IsOpened(dump[j].table)'
      BY <1>0, <1>1, <2>1, <2>3, <2>4
    <2>7. IsOpened(dump[pos].table)'
      BY <1>0, <1>1, <2>1, <2>3
    <2>8. \A u \in Tables : visible'[u].loaded => IsOpened(u)'
      BY <1>1, <2>3, <2>5
    <2> QED
      BY <1>1, <2>3, <2>6, <2>7, <2>8 DEF OpenedInv, IsOpened
  <1>3. CASE ~(CopyStart /\ rpc' = "open")
    <2>1. opened' = opened
      BY <1>3 DEF Reader, OpenInput, EndOfChunk, DumpVersion, Table, CopyStart, BroadcastOpen, CopyRows,
           CopyEnd, BroadcastClose, AwaitAck, TakeCause, EndOfDump, CommitsOver, Shutdown, Join
    <2>2. rpc' = "open" => rpc = "open" /\ pos' = pos
      BY <1>3 DEF Reader, OpenInput, EndOfChunk, DumpVersion, Table, CopyStart, BroadcastOpen, Broadcast, CopyRows,
           CopyEnd, BroadcastClose, AwaitAck, TakeCause, EndOfDump, CommitsOver, Shutdown, Join, Return, At
    <2>3. pos' = pos \/ pos' = pos + 1
      BY PosMoves
    <2>4. ASSUME pos' # pos, dump[pos].type = "start"
          PROVE  dump[pos].table \notin Wanted \/ IsOpened(dump[pos].table)
      <3>1. CASE rpc = "open"
        BY <3>1 DEF OpenedInv, IsOpened
      <3>2. CASE rpc # "open"
        <4>1. ~(AwaitAck \/ BroadcastOpen \/ BroadcastClose)
          <5>1. rpc = "acks" => dump[pos].type = "end"
            BY DEF PoolInv, ReaderInv
          <5>2. ~AwaitAck
            BY <2>4, <5>1 DEF AwaitAck
          <5>3. ~BroadcastOpen
            BY <3>2 DEF BroadcastOpen, Broadcast
          <5>4. ~BroadcastClose
            BY <2>4 DEF BroadcastClose
          <5> QED
            BY <5>2, <5>3, <5>4
        <4>2. CopyStart
          BY <2>4, <4>1 DEF Reader, OpenInput, EndOfChunk, DumpVersion, Table, CopyRows,
             CopyEnd, TakeCause, EndOfDump, CommitsOver, Shutdown, Join, At
        <4> QED
          BY <2>4, <4>2 DEF CopyStart
      <3> QED
        BY <3>1, <3>2
    <2>5. rpc' \in {"start", "scan"} => rpc \in {"start", "scan"} \/ pos' = pos + 1
      BY DEF Reader, OpenInput, EndOfChunk, DumpVersion, Table, CopyStart, BroadcastOpen, Broadcast, CopyRows,
           CopyEnd, BroadcastClose, AwaitAck, TakeCause, EndOfDump, CommitsOver, Shutdown, Join, Return, At
    <2> QED
      BY <1>1, <2>1, <2>2, <2>3, <2>4, <2>5, OpenedStands
  <1> QED
    BY <1>2, <1>3

LEMMA OpenedTasks ==
    ASSUME PoolInv, CommitInv, OpenedInv, NEW i \in DOMAIN commits, Commit(i)
    PROVE  OpenedInv'
  <1>1. /\ UNCHANGED readerVars /\ dump' = dump
        /\ \/ visible' = visible
           \/ opened[i] \in Tables /\ visible' = [visible EXCEPT ![opened[i]] =
                                                   [loaded |-> TRUE, files |-> @.files \cup Actions(i)]]
    BY CommitTasks
  <1>2. UNCHANGED <<pos, opened, rpc>>
    BY <1>1 DEF readerVars
  <1>3. DOMAIN visible = Tables /\ i \in DOMAIN opened
    BY DEF CommitInv
  <1>4. \A t \in Tables : visible'[t].loaded => visible[t].loaded \/ t = opened[i]
    BY <1>1, <1>3
  <1>5. \A t \in Tables : visible'[t].loaded => \E k \in DOMAIN opened : opened[k] = t
    BY <1>3, <1>4 DEF OpenedInv
  <1>6. \A k \in DOMAIN opened' : TargetInv(k)'
    BY <1>1, <1>2, FedStands DEF OpenedInv, TargetInv, FirstTarget, Starts
  <1> QED
    BY <1>1, <1>2, <1>5, <1>6 DEF OpenedInv

-----------------------------------------------------------------------------
(***************************************************************************)
(* The inductive invariant.                                                *)
(***************************************************************************)
LEMMA InitRows == Init => RowsInv
  <1> SUFFICES ASSUME Init PROVE RowsInv
    OBVIOUS
  <1>0. PoolInv
    BY InitInv
  <1>1. /\ events = <<>> /\ block = {} /\ rpc = "start" /\ pos = 1 /\ opened = <<>> /\ commits = <<>>
        /\ outcome = "running" /\ generation = 0 /\ skipping = FALSE
        /\ staged = [t \in Tables |-> {}] /\ visible = [t \in Tables |-> [loaded |-> FALSE, files |-> {}]]
    BY DEF Init
  <1>2. \A w \in Workers : hand[w] = Nothing /\ jobs[w] = <<>> /\ blocks[w] = <<>> /\ wpc[w] = "recv" /\ ctxs[w] = {}
    BY DEF Init
  <1>3. IdleHands
    BY <1>2 DEF IdleHands
  <1>4. NoRows
    BY <1>0, <1>1, <1>3, BetweenIsEmpty DEF Between
  <1>5. Kept = {}
    BY <1>1, KeptMeans
  <1>6. ASSUME NEW w \in Workers PROVE RowsInOrder(w) /\ RowsAreGood(w)
    <2>1. DOMAIN jobs[w] = {} /\ DOMAIN blocks[w] = {} /\ hand[w].type # "Rows"
      BY <1>2 DEF Nothing
    <2>2. Queued(w) = {} /\ InHand(w) = {} /\ Decoded(w) = {}
      BY <2>1 DEF Queued, InHand, Decoded
    <2> QED
      BY <2>1, <2>2 DEF RowsInOrder, RowsAreGood
  <1>7. HeldApart /\ FilesApart
    BY <1>4, <1>5 DEF HeldApart, FilesApart, NoRows
  <1>8. BlockInv
    BY <1>1, <1>4 DEF BlockInv, NoRows
  <1>9. StagedInv
    BY <1>1 DEF StagedInv
  <1>10. OutcomeInv
    BY <1>1 DEF OutcomeInv
  <1>11. NothingLost
    BY <1>1 DEF NothingLost
  <1>12. CommitInv
    BY <1>1 DEF CommitInv, Published
  <1>13. OpenedInv
    BY <1>1 DEF OpenedInv
  <1> QED
    BY <1>3, <1>6, <1>7, <1>8, <1>9, <1>10, <1>11, <1>12, <1>13 DEF RowsInv

LEMMA ReaderRows ==
    ASSUME PoolInv, RowsInv, Reader
    PROVE  RowsInv'
  <1>0. /\ AllInOrder /\ IdleHands /\ HeldApart /\ FilesApart /\ BlockInv /\ StagedInv
        /\ OutcomeInv /\ NothingLost /\ CommitInv /\ OpenedInv
    BY DEF RowsInv, AllInOrder
  <1>1. PoolInv'
    BY ReaderStep
  <1>2. IdleHands'
    <2>1. UNCHANGED <<wpc, hand>>
      BY DEF Reader, workerVars, OpenInput, EndOfChunk, DumpVersion, Table, CopyStart, BroadcastOpen, CopyRows,
             CopyEnd, BroadcastClose, AwaitAck, TakeCause, EndOfDump, CommitsOver, Shutdown, Join
    <2> QED
      BY <1>0, <2>1 DEF IdleHands
  <1>3. OutcomeInv' /\ CommitInv' /\ OpenedInv'
    BY <1>0, OutcomeReader, CommitReader, OpenedReader
  <1>4. /\ AllInOrder' /\ dump' = dump /\ BlockInv' /\ StagedInv'
        /\ RowsStay \/ RowsForget \/ \E w \in Workers : RowsDispatch(w)
        /\ CopyRows => ~NoFailure' \/ (skipping /\ RowsStay) \/ \E w \in Workers : RowsDispatch(w)
    <2>1. staged' = staged /\ dump' = dump => StagedInv'
      BY <1>0, OverStays, StagedStands
    <2>2. CASE ReaderAlone
      <3>1. AllInOrder' /\ RowsStay /\ Flying' = Flying /\ dump' = dump /\ staged' = staged
        BY <1>0, <2>2, ReaderAloneMoves
      <3>2. BlockInv'
        BY <1>0, <1>1, <1>2, <2>2, <3>1, BlockInvAlone DEF RowsStay
      <3>3. ~CopyRows
        BY <2>2, PlaceFacts DEF ReaderAlone, CopyRows, OpenInput, EndOfChunk, DumpVersion, Table, CopyStart, CopyEnd,
             EndOfDump, CommitsOver, Shutdown, Join, At
      <3> QED
        BY <2>1, <3>1, <3>2, <3>3
    <2>3. CASE BroadcastOpen \/ BroadcastClose
      <3>1. AllInOrder' /\ RowsStay /\ Flying' = Flying /\ dump' = dump /\ staged' = staged
        BY <1>0, <2>3, BroadcastMoves
      <3>2. BlockInv'
        BY <1>0, <2>3, <3>1, BlockInvBroadcast DEF RowsStay
      <3>3. ~CopyRows
        BY <2>3 DEF BroadcastOpen, BroadcastClose, Broadcast, CopyRows, At
      <3> QED
        BY <2>1, <3>1, <3>2, <3>3
    <2>4. CASE CopyRows
      <3>1. /\ AllInOrder' /\ dump' = dump /\ staged' = staged /\ Flying' = Flying
            /\ RowsStay \/ \E w \in Workers : RowsDispatch(w)
            /\ ~NoFailure' \/ (skipping /\ RowsStay) \/ \E w \in Workers : RowsDispatch(w)
        BY <1>0, <2>4, CopyRowsMoves
      <3>2. BlockInv'
        BY <1>0, <2>4, <3>1, BlockInvRows
      <3> QED
        BY <2>1, <3>1, <3>2
    <2>5. CASE AwaitAck
      <3>1. /\ AllInOrder' /\ RowsStay /\ dump' = dump /\ Flying' \subseteq Flying
            /\ \/ staged' = staged
               \/ \E F \in SUBSET Flying : staged' = [staged EXCEPT ![dump[pos].table] = @ \cup F]
        BY <1>0, <2>5, AwaitAckMoves
      <3>2. BlockInv'
        BY <1>0, <1>1, <1>2, <2>5, <3>1, BlockInvAck DEF RowsStay
      <3>3. StagedInv'
        BY <1>0, <2>1, <2>5, <3>1, StagedAck
      <3>4. ~CopyRows
        BY <2>5 DEF AwaitAck, CopyRows, At
      <3> QED
        BY <3>1, <3>2, <3>3, <3>4
    <2>6. CASE TakeCause
      <3>1. AllInOrder' /\ RowsForget /\ dump' = dump /\ staged' = staged
        BY <1>0, <2>6, TakeCauseMoves
      <3>2. BlockInv'
        <4>1. Flying' \subseteq Flying /\ rpc' = "shutdown" /\ generation' = generation
          BY <2>6, <3>1 DEF RowsForget, TakeCause
        <4> QED
          BY <1>0, <4>1, BlockInvAway
      <3>3. ~CopyRows
        BY <2>6 DEF TakeCause, CopyRows, At
      <3> QED
        BY <2>1, <3>1, <3>2, <3>3
    <2> QED
      BY <2>2, <2>3, <2>4, <2>5, <2>6 DEF Reader, ReaderAlone
  <1>5. HeldApart' /\ FilesApart'
    <2>1. (\A i : Passed(i) => Passed(i)') /\ (\A i : TableOf(i)' = TableOf(i))
      BY PassedReader
    <2>2. pos \in Nat /\ pos >= 1
      BY PlaceFacts
    <2>3. CASE RowsStay \/ RowsForget
      <3>1. (\A w \in Workers : Held(w)' \subseteq Held(w)) /\ AllFiles' \subseteq AllFiles
        BY <2>3 DEF RowsStay, RowsForget
      <3> QED
        BY <1>0, <1>4, <2>1, <3>1, ApartShrinks
    <2>4. CASE \E w \in Workers : RowsDispatch(w)
      BY <1>0, <1>4, <2>1, <2>2, <2>4, ApartDispatch
    <2> QED
      BY <1>4, <2>3, <2>4
  <1>6. NothingLost'
    BY <1>0, <1>1, <1>3, <1>4, LostReader
  <1> QED
    BY <1>2, <1>3, <1>4, <1>5, <1>6 DEF RowsInv, AllInOrder

LEMMA WorkerRowsKept ==
    ASSUME PoolInv, RowsInv, NEW w \in Workers, Worker(w)
    PROVE  RowsInv'
  <1>0. /\ AllInOrder /\ IdleHands /\ HeldApart /\ FilesApart /\ BlockInv /\ StagedInv
        /\ OutcomeInv /\ NothingLost /\ CommitInv /\ OpenedInv
    BY DEF RowsInv, AllInOrder
  <1>1. PoolInv' /\ PoolTypes
    BY WorkerStep DEF PoolInv, TypeOK
  <1>2. UNCHANGED readerVars /\ UNCHANGED <<dump, commits, visible, staged, generation>>
    BY <1>1, WorkerFrame
  <1>3. /\ AllInOrder' /\ IdleHands'
        /\ RowsStay \/ RowsDrop(w) \/ RowsClose(w)
        /\ Flying' = Flying \/ RowsClose(w)
    BY <1>0, WorkerMoves
  <1>4. UNCHANGED <<rpc, pos, current, opened>>
    BY <1>2 DEF readerVars
  <1>5. OutcomeInv'
    BY <1>0, OutcomeWorker
  <1>6. CommitInv' /\ OpenedInv'
    <2>1. CommitInv'
      BY <1>0, <1>2, CommitStands
    <2>2. OpenedInv'
      BY <1>0, <1>2, <1>4, OpenedKept DEF readerVars
    <2> QED
      BY <2>1, <2>2
  <1>7. StagedInv'
    <2>1. BlockOver => BlockOver'
      BY <1>4 DEF BlockOver
    <2> QED
      BY <1>0, <1>2, <2>1, StagedStands
  <1>8. BlockInv'
    <2>1. RowsClose(w) \/ (Flying' = Flying /\ \A v \in Workers : Held(v)' \subseteq Held(v))
      BY <1>3 DEF RowsStay, RowsDrop
    <2> QED
      BY <1>0, <1>1, <1>2, <1>3, <2>1, BlockInvWorker
  <1>9. HeldApart' /\ FilesApart'
    <2>1. \A i : Passed(i) => Passed(i)'
      BY <1>2, <1>4 DEF Passed, TableOf
    <2>2. CASE RowsClose(w)
      BY <1>0, <1>2, <2>1, <2>2, ApartClose
    <2>3. CASE RowsStay \/ RowsDrop(w)
      <3>1. (\A v \in Workers : Held(v)' \subseteq Held(v)) /\ AllFiles' \subseteq AllFiles
        BY <2>3 DEF RowsStay, RowsDrop
      <3> QED
        BY <1>0, <1>2, <2>1, <3>1, ApartShrinks
    <2> QED
      BY <1>3, <2>2, <2>3
  <1>10. NothingLost'
    BY <1>0, <1>1, <1>3, <1>5, <1>6, LostWorker
  <1> QED
    BY <1>3, <1>5, <1>6, <1>7, <1>8, <1>9, <1>10 DEF RowsInv, AllInOrder

(* Steps that leave the reader and the pool alone. *)
LEMMA RowsStand ==
    ASSUME PoolInv, RowsInv, UNCHANGED poolVars, UNCHANGED readerVars, dump' = dump, CommitInv', OpenedInv'
    PROVE  RowsInv'
  <1>0. /\ AllInOrder /\ IdleHands /\ HeldApart /\ FilesApart /\ BlockInv /\ StagedInv
        /\ OutcomeInv /\ NothingLost
    BY DEF RowsInv, AllInOrder
  <1>1. UNCHANGED <<jobs, hand, blocks, events, wpc, ctxs>>
    BY DEF poolVars
  <1>2. UNCHANGED <<rpc, pos, current, skipping, opened, block, staged, generation, outcome, jobOpen>>
    BY DEF readerVars
  <1>3. AllInOrder' /\ \A w \in Workers : Held(w)' = Held(w)
    BY <1>0, <1>1, AllStand
  <1>4. Flying' = Flying
    BY <1>1, <1>2 DEF Flying
  <1>5. Kept' = Kept
    BY <1>2 DEF Kept
  <1>6. \A i : TableOf(i)' = TableOf(i)
    BY DEF TableOf
  <1>7. \A i : Passed(i)' <=> Passed(i)
    BY <1>2, <1>6 DEF Passed
  <1>8. IdleHands'
    BY <1>0, <1>1 DEF IdleHands
  <1>9. HeldApart' /\ FilesApart'
    <2>1. (\A w \in Workers : Held(w)' \subseteq Held(w)) /\ AllFiles' \subseteq AllFiles
      BY <1>3, <1>4, <1>5 DEF AllFiles
    <2> QED
      BY <1>0, <1>7, <2>1, ApartShrinks
  <1>10. BlockInv'
    <2>1. OpenTable' = OpenTable /\ (NoRows <=> NoRows')
      BY <1>2, <1>3, <1>4 DEF OpenTable, NoRows
    <2>2. /\ rpc' = "open" => NoRows'
          /\ \A f \in Flying' : f.gen = generation'
      BY <1>0, <1>2, <1>4, <2>1 DEF BlockInv
    <2>3. rpc' \in {"scan", "close", "acks"} =>
            /\ \A w \in Workers : \A i \in Held(w)' : TableOf(i)' = OpenTable'
            /\ \A f \in Flying' : \A i \in Range(f.rows) : TableOf(i)' = OpenTable'
      BY <1>0, <1>2, <1>3, <1>4, <1>6, <2>1 DEF BlockInv
    <2>4. rpc' = "scan" =>
            \A j \in 1..(pos' - 1) : BlockStart(dump', pos', j) =>
               IF skipping' THEN dump'[j].table \notin Wanted
                            ELSE current' = dump'[j].table /\ current' \in Wanted
      BY <1>0, <1>2 DEF BlockInv
    <2> QED
      BY <2>2, <2>3, <2>4 DEF BlockInv
  <1>11. StagedInv'
    <2>1. BlockOver => BlockOver'
      BY <1>2 DEF BlockOver
    <2> QED
      BY <1>0, <1>2, <2>1, StagedStands
  <1>12. OutcomeInv'
    BY <1>0, <1>1, <1>2 DEF OutcomeInv, PoolIdle
  <1>13. NothingLost'
    <2>1. NoFailure' => NoFailure
      BY <1>1, <1>2 DEF NoFailure
    <2>2. \A i : Somewhere(i) => Somewhere(i)'
      BY <1>3, <1>4, <1>5 DEF Somewhere, AllFiles
    <2>3. NoFailure' => \A i : Passed(i)' => Somewhere(i)'
      BY <1>0, <1>7, <2>1, <2>2, LostMeans
    <2> QED
      BY <2>3, LostMeansNext DEF NothingLost
  <1> QED
    BY <1>3, <1>8, <1>9, <1>10, <1>11, <1>12, <1>13 DEF RowsInv, AllInOrder

LEMMA RowsStep ==
    ASSUME PoolInv, RowsInv, [Next]_vars
    PROVE  RowsInv'
  <1>0. CommitInv /\ OpenedInv
    BY DEF RowsInv
  <1>1. CASE Reader
    BY <1>1, ReaderRows
  <1>2. CASE \E w \in Workers : Worker(w)
    BY <1>2, WorkerRowsKept
  <1>3. CASE \E i \in DOMAIN commits : Commit(i)
    <2>1. PICK i \in DOMAIN commits : Commit(i)
      BY <1>3
    <2>2. CommitInv' /\ OpenedInv' /\ UNCHANGED readerVars /\ dump' = dump
      BY <1>0, <2>1, CommitTasks, OpenedTasks
    <2>3. UNCHANGED poolVars
      BY <1>3, TasksStand
    <2> QED
      BY <2>2, <2>3, RowsStand
  <1>4. CASE UNCHANGED vars \/ \E t \in Tables : PreloadDone(t)
    <2>1. UNCHANGED poolVars /\ UNCHANGED readerVars /\ UNCHANGED <<dump, commits, visible>>
      BY <1>4 DEF vars, poolVars, workerVars, PreloadDone
    <2>2. CommitInv'
      BY <1>0, <2>1, CommitStands
    <2>3. UNCHANGED <<rpc, pos, opened>>
      BY <2>1 DEF readerVars
    <2>4. OpenedInv'
      BY <1>0, <2>1, <2>3, OpenedKept DEF readerVars
    <2> QED
      BY <2>1, <2>2, <2>4, RowsStand
  <1> QED
    BY <1>1, <1>2, <1>3, <1>4 DEF Next

(* In every reachable state of a load no payload is in two places, what    *)
(* the workers and the files hold lies in the order of the dump and        *)
(* belongs to the block or the table it is kept for, nothing is lost       *)
(* before something fails, and the commits publish what has been staged.   *)
THEOREM PayloadInvariant == Spec => []IInv
  <1>1. Init => IInv
    BY InitInv, InitRows DEF IInv
  <1>2. IInv /\ [Next]_vars => IInv'
    BY ReaderStep, WorkerStep, TaskStep, StutterStep, RowsStep DEF IInv, Next
  <1> QED
    BY <1>1, <1>2, PTL DEF Spec

-----------------------------------------------------------------------------
(***************************************************************************)
(* What the invariant says of the places where a payload can be.           *)
(***************************************************************************)
LEMMA RowsInMeans ==
    \A tag, F, i, x : x \in RowsIn(tag, F, i) <=>
        \E f \in F : \E k \in DOMAIN f.rows : f.rows[k] = i /\ x = <<tag, f, k>>
  <1> SUFFICES ASSUME NEW tag, NEW F, NEW i, NEW x
               PROVE  x \in RowsIn(tag, F, i) <=>
                        \E f \in F : \E k \in DOMAIN f.rows : f.rows[k] = i /\ x = <<tag, f, k>>
    OBVIOUS
  <1> DEFINE S(f) == {<<tag, f, k>> : k \in {j \in DOMAIN f.rows : f.rows[j] = i}}
  <1>1. \A f : x \in S(f) <=> \E k \in DOMAIN f.rows : f.rows[k] = i /\ x = <<tag, f, k>>
    BY Zenon
  <1>2. x \in RowsIn(tag, F, i) <=> \E f \in F : x \in S(f)
    BY Zenon DEF RowsIn
  <1> HIDE DEF S
  <1> QED
    BY <1>1, <1>2

IsQueued(w, k, i) == k \in DOMAIN jobs[w] /\ jobs[w][k].type = "Rows" /\ jobs[w][k].id = i
IsInHand(w, i) == hand[w].type = "Rows" /\ hand[w].id = i
IsDecoded(w, g, k, i) == g \in DOMAIN blocks[w] /\ k \in DOMAIN blocks[w][g] /\ blocks[w][g][k] = i

LEMMA LooseMeans ==
    ASSUME NEW i, NEW x
    PROVE  x \in Loose(i) <=> \E w \in Workers :
             \/ \E k : IsQueued(w, k, i) /\ x = <<"queued", w, k>>
             \/ IsInHand(w, i) /\ x = <<"hand", w>>
             \/ \E g, k : IsDecoded(w, g, k, i) /\ x = <<"block", w, g, k>>
  <1> DEFINE Q(w) == {<<"queued", w, k>> : k \in {j \in DOMAIN jobs[w] : jobs[w][j].type = "Rows" /\ jobs[w][j].id = i}}
             H == {<<"hand", w>> : w \in {v \in Workers : hand[v].type = "Rows" /\ hand[v].id = i}}
             B(w, g) == {<<"block", w, g, k>> : k \in {j \in DOMAIN blocks[w][g] : blocks[w][g][j] = i}}
             D(w) == UNION {B(w, g) : g \in DOMAIN blocks[w]}
  <1>1. \A w : x \in Q(w) <=> \E k : IsQueued(w, k, i) /\ x = <<"queued", w, k>>
    BY Zenon DEF IsQueued
  <1>2. x \in H <=> \E w \in Workers : IsInHand(w, i) /\ x = <<"hand", w>>
    BY Zenon DEF IsInHand
  <1>3. \A w, g : x \in B(w, g) <=> \E k \in DOMAIN blocks[w][g] : blocks[w][g][k] = i /\ x = <<"block", w, g, k>>
    BY Zenon
  <1>4. \A w : x \in D(w) <=> \E g \in DOMAIN blocks[w] : x \in B(w, g)
    BY Zenon
  <1>5. x \in Loose(i) <=> (\E w \in Workers : x \in Q(w)) \/ x \in H \/ (\E w \in Workers : x \in D(w))
    <2>1. Loose(i) = (UNION {Q(w) : w \in Workers}) \cup H \cup (UNION {D(w) : w \in Workers})
      BY DEF Loose
    <2> HIDE DEF Q, H, B, D
    <2> QED
      BY <2>1
  <1> HIDE DEF Q, H, B, D
  <1>6. \A w : x \in D(w) <=> \E g, k : IsDecoded(w, g, k, i) /\ x = <<"block", w, g, k>>
    BY <1>3, <1>4 DEF IsDecoded
  <1> QED
    BY <1>1, <1>2, <1>5, <1>6

LEMMA FiledMeans ==
    ASSUME NEW i, NEW x
    PROVE  x \in Filed(i) <=>
             \/ \E w \in Workers : hand[w].type = "Closed" /\ x \in RowsIn("closed", hand[w].files, i)
             \/ \E k \in DOMAIN events : events[k].type = "Closed" /\ x \in RowsIn("event", events[k].files, i)
             \/ x \in RowsIn("acked", block, i)
             \/ \E t \in Tables : x \in RowsIn("staged", staged[t], i)
  <1> DEFINE H == UNION {RowsIn("closed", hand[w].files, i) : w \in {v \in Workers : hand[v].type = "Closed"}}
             E == UNION {RowsIn("event", events[k].files, i) : k \in {j \in DOMAIN events : events[j].type = "Closed"}}
             S == UNION {RowsIn("staged", staged[t], i) : t \in Tables}
  <1>1. x \in H <=> \E w \in Workers : hand[w].type = "Closed" /\ x \in RowsIn("closed", hand[w].files, i)
    BY Zenon
  <1>2. x \in E <=> \E k \in DOMAIN events : events[k].type = "Closed" /\ x \in RowsIn("event", events[k].files, i)
    BY Zenon
  <1>3. x \in S <=> \E t \in Tables : x \in RowsIn("staged", staged[t], i)
    BY Zenon
  <1>4. Filed(i) = H \cup E \cup RowsIn("acked", block, i) \cup S
    BY DEF Filed
  <1> HIDE DEF H, E, S
  <1> QED
    BY <1>1, <1>2, <1>3, <1>4

(* A worker holds a payload in one of the loose places. *)
LEMMA HeldMeans ==
    ASSUME NEW w \in Workers, NEW i
    PROVE  i \in Held(w) <=> (\E k : IsQueued(w, k, i)) \/ IsInHand(w, i) \/ (\E g, k : IsDecoded(w, g, k, i))
  <1>1. i \in Queued(w) <=> \E k : IsQueued(w, k, i)
    BY Zenon DEF Queued, IsQueued
  <1>2. i \in InHand(w) <=> IsInHand(w, i)
    BY DEF InHand, IsInHand
  <1>3. i \in Decoded(w) <=> \E g \in DOMAIN blocks[w] : i \in Range(blocks[w][g])
    BY DEF Decoded
  <1>4. \A g : i \in Range(blocks[w][g]) <=> \E k \in DOMAIN blocks[w][g] : blocks[w][g][k] = i
    BY DEF Range
  <1> QED
    BY <1>1, <1>2, <1>3, <1>4 DEF Held, IsDecoded

(* The file that an entry of Filed lies in, and the place of that file. *)
FileAt(tag, f) ==
    \/ tag = "closed" /\ \E w \in Workers : hand[w].type = "Closed" /\ f \in hand[w].files
    \/ tag = "event" /\ \E k \in DOMAIN events : events[k].type = "Closed" /\ f \in events[k].files
    \/ tag = "acked" /\ f \in block
    \/ tag = "staged" /\ \E t \in Tables : f \in staged[t]

LEMMA FiledIsFileAt ==
    ASSUME NEW i, NEW x
    PROVE  x \in Filed(i) <=> \E tag, f, k : FileAt(tag, f) /\ k \in DOMAIN f.rows /\ f.rows[k] = i /\ x = <<tag, f, k>>
  <1> DEFINE In(tag, F) == \E f \in F : \E k \in DOMAIN f.rows : f.rows[k] = i /\ x = <<tag, f, k>>
  <1>1. \A tag, F : x \in RowsIn(tag, F, i) <=> In(tag, F)
    BY RowsInMeans
  <1>2. x \in Filed(i) <=>
             \/ \E w \in Workers : hand[w].type = "Closed" /\ In("closed", hand[w].files)
             \/ \E k \in DOMAIN events : events[k].type = "Closed" /\ In("event", events[k].files)
             \/ In("acked", block)
             \/ \E t \in Tables : In("staged", staged[t])
    <2>1. \/ x \notin Filed(i)
          \/ \E w \in Workers : hand[w].type = "Closed" /\ x \in RowsIn("closed", hand[w].files, i)
          \/ \E k \in DOMAIN events : events[k].type = "Closed" /\ x \in RowsIn("event", events[k].files, i)
          \/ x \in RowsIn("acked", block, i)
          \/ \E t \in Tables : x \in RowsIn("staged", staged[t], i)
      BY FiledMeans
    <2>2. /\ \A w \in Workers : hand[w].type = "Closed" /\ x \in RowsIn("closed", hand[w].files, i) => x \in Filed(i)
          /\ \A k \in DOMAIN events : events[k].type = "Closed" /\ x \in RowsIn("event", events[k].files, i) => x \in Filed(i)
          /\ x \in RowsIn("acked", block, i) => x \in Filed(i)
          /\ \A t \in Tables : x \in RowsIn("staged", staged[t], i) => x \in Filed(i)
      BY FiledMeans
    <2> HIDE DEF In
    <2> QED
      BY <1>1, <2>1, <2>2
  <1>3. ASSUME NEW tag, NEW f, NEW k, FileAt(tag, f), k \in DOMAIN f.rows, f.rows[k] = i, x = <<tag, f, k>>
        PROVE  x \in Filed(i)
    BY <1>2, <1>3, Zenon DEF FileAt
  <1>4. ASSUME x \in Filed(i)
        PROVE  \E tag, f, k : FileAt(tag, f) /\ k \in DOMAIN f.rows /\ f.rows[k] = i /\ x = <<tag, f, k>>
    <2>1. \A tag, F : (In(tag, F) /\ \A f \in F : FileAt(tag, f))
            => \E f, k : FileAt(tag, f) /\ k \in DOMAIN f.rows /\ f.rows[k] = i /\ x = <<tag, f, k>>
      BY Zenon
    <2>2. /\ \A w \in Workers : hand[w].type = "Closed" => \A f \in hand[w].files : FileAt("closed", f)
          /\ \A k \in DOMAIN events : events[k].type = "Closed" => \A f \in events[k].files : FileAt("event", f)
          /\ \A f \in block : FileAt("acked", f)
          /\ \A t \in Tables : \A f \in staged[t] : FileAt("staged", f)
      BY Zenon DEF FileAt
    <2> HIDE DEF In
    <2> QED
      BY <1>2, <1>4, <2>1, <2>2
  <1> QED
    BY <1>3, <1>4

LEMMA FileAtMeans ==
    \A f : f \in AllFiles <=> \E tag : FileAt(tag, f)
  BY FlyingMeans, KeptMeans DEF FileAt, AllFiles

(* Two entries for a payload in files are one entry of one file. *)
LEMMA FileEntryUnique ==
    ASSUME PoolInv, IdleHands, FilesApart, NEW f \in AllFiles, NEW h \in AllFiles,
           NEW k \in DOMAIN f.rows, NEW l \in DOMAIN h.rows, f.rows[k] = h.rows[l]
    PROVE  f = h /\ k = l
  <1>1. f.rows[k] \in Range(f.rows) /\ f.rows[k] \in Range(h.rows)
    BY DEF Range
  <1>2. f = h
    BY <1>1 DEF FilesApart, AllFiles
  <1>3. Increasing(f.rows) /\ f.rows \in Seq(Nat)
    BY FilesTyped, FileFacts DEF FilesApart, AllFiles, Files
  <1>4. k \in Nat /\ l \in Nat /\ f.rows[k] \in Nat /\ f.rows[l] \in Nat
    BY <1>2, <1>3
  <1> QED
    BY <1>2, <1>3, <1>4 DEF Increasing

(* A file under way has been sent by no worker, or is unread, or read. *)
LEMMA FileFliesOnce ==
    ASSUME PoolInv, IdleHands, NEW f, NEW tag, NEW other, FileAt(tag, f), FileAt(other, f),
           tag # "staged", other # "staged"
    PROVE  tag = other
  <1>0. PoolTypes /\ events \in Seq(Messages) /\ Len(events) \in Nat /\ AnswersInv
    BY DEF PoolInv, TypeOK, PoolTypes
  <1>1. PICK n \in 0..Threads : \E own \in [1..n -> Workers] : AnsweredBy(n, own)
    BY <1>0 DEF AnswersInv
  <1>2. PICK own \in [1..n -> Workers] : AnsweredBy(n, own)
    BY <1>1
  <1> DEFINE read == n - Len(events)
  <1>3. acked \in Nat /\ acked <= read /\ read \in Nat /\ n \in Nat /\ n = read + Len(events)
    <2>1. acked \in Nat /\ acked <= n - Len(events) /\ n \in Nat
      BY <1>2, PoolAssumption DEF AnsweredBy, PoolInv, TypeOK, ReaderTypes
    <2> QED
      BY <1>0, <2>1
  <1> DEFINE Sent(i) == i \in 1..n /\ f.worker = own[i]
  <1>4. FileAt("closed", f) => f.worker \in Workers /\ ~Spent(f.worker)
    <2> SUFFICES ASSUME FileAt("closed", f) PROVE f.worker \in Workers /\ ~Spent(f.worker)
      OBVIOUS
    <2>1. PICK w \in Workers : hand[w].type = "Closed" /\ f \in hand[w].files
      BY DEF FileAt
    <2>2. wpc[w] \in {"work", "send", "report"}
      BY <2>1 DEF IdleHands, Nothing
    <2>3. wpc[w] = "work" => hand[w] \in Jobs
      BY <1>0 DEF PoolTypes
    <2>4. WorkerInv(w)
      BY DEF PoolInv
    <2>5. wpc[w] = "send" /\ f.worker = w
      BY <2>1, <2>2, <2>3, <2>4, JobFacts DEF WorkerInv, HandShape
    <2> QED
      BY <2>5 DEF Spent, Gone, Quiet
  <1>5. FileAt("event", f) => \E i : Sent(i) /\ i > read
    <2> SUFFICES ASSUME FileAt("event", f) PROVE \E i : Sent(i) /\ i > read
      OBVIOUS
    <2>1. PICK k \in DOMAIN events : events[k].type = "Closed" /\ f \in events[k].files
      BY DEF FileAt
    <2>2. k \in 1..Len(events)
      BY <1>0
    <2>3. f.worker = own[read + k]
      BY <1>2, <2>1, <2>2 DEF AnsweredBy
    <2>4. read + k \in 1..n /\ read + k > read
      BY <1>0, <1>3, <2>2
    <2> HIDE DEF read
    <2> QED
      BY <2>3, <2>4
  <1>6. FileAt("acked", f) => \E i : Sent(i) /\ i <= read
    <2> SUFFICES ASSUME f \in block PROVE \E i : Sent(i) /\ i <= read
      BY DEF FileAt
    <2> QED
      BY <1>2 DEF AnsweredBy
  <1>7. \A i : Sent(i) => Spent(f.worker)
    BY <1>2 DEF AnsweredBy
  <1>8. \A i, j : Sent(i) /\ Sent(j) => i = j
    BY <1>2 DEF AnsweredBy
  <1>9. \A i : Sent(i) => i \in Nat
    BY <1>3
  <1>10. ~(FileAt("event", f) /\ FileAt("acked", f))
    <2> HIDE DEF read, Sent
    <2> QED
      BY <1>3, <1>5, <1>6, <1>8, <1>9
  <1>11. tag \in {"closed", "event", "acked"} /\ other \in {"closed", "event", "acked"}
    BY DEF FileAt
  <1> HIDE DEF read, Sent
  <1> QED
    BY <1>4, <1>5, <1>6, <1>7, <1>10, <1>11

(* Unless something fails, no file that is under way is staged already. *)
LEMMA FlyingIsNotStaged ==
    ASSUME PoolInv, IdleHands, BlockInv, StagedInv, OutcomeInv, NoFailure,
           NEW f \in Flying, NEW t \in Tables, f \in staged[t]
    PROVE  FALSE
  <1>1. f.gen = generation
    BY DEF BlockInv
  <1>2. BlockOver
    BY <1>1 DEF StagedInv
  <1>3. CASE Between
    BY <1>3, BetweenIsEmpty DEF NoRows
  <1>4. CASE rpc = "cause"
    <2>1. jobOpen
      BY <1>4 DEF PoolInv, ReaderInv
    <2> QED
      BY <1>4, <2>1 DEF OutcomeInv, NoFailure
  <1>5. CASE rpc \in Ending
    <2>1. outcome = "ok"
      BY <1>5 DEF OutcomeInv, NoFailure, Ending
    <2>2. PoolIdle /\ PoolTypes
      BY <2>1 DEF OutcomeInv, PoolInv, TypeOK
    <2>3. NoRows
      BY <2>2, IdleIsEmpty DEF PoolIdle
    <2> QED
      BY <2>3 DEF NoRows
  <1> QED
    BY <1>2, <1>3, <1>4, <1>5 DEF BlockOver, Between, Draining, Ending

(* Two loose places of one payload are one. *)
LEMMA LooseUnique ==
    ASSUME PoolInv, AllInOrder, HeldApart, NEW i \in Nat, NEW x \in Loose(i), NEW y \in Loose(i)
    PROVE  x = y
  <1>1. PICK w \in Workers : \/ \E k : IsQueued(w, k, i) /\ x = <<"queued", w, k>>
                             \/ IsInHand(w, i) /\ x = <<"hand", w>>
                             \/ \E g, k : IsDecoded(w, g, k, i) /\ x = <<"block", w, g, k>>
    BY LooseMeans
  <1>2. PICK v \in Workers : \/ \E k : IsQueued(v, k, i) /\ y = <<"queued", v, k>>
                             \/ IsInHand(v, i) /\ y = <<"hand", v>>
                             \/ \E g, k : IsDecoded(v, g, k, i) /\ y = <<"block", v, g, k>>
    BY LooseMeans
  <1>3. i \in Held(w) /\ i \in Held(v)
    BY <1>1, <1>2, HeldMeans
  <1>4. w = v
    BY <1>3 DEF HeldApart
  <1>5. RowsInOrder(w) /\ PoolTypes
    BY DEF AllInOrder, PoolInv, TypeOK
  <1>6. /\ (\E k : IsQueued(w, k, i)) => i \in Queued(w)
        /\ IsInHand(w, i) => i \in InHand(w)
        /\ (\E g, k : IsDecoded(w, g, k, i)) => i \in Decoded(w)
    <2>1. \A k : IsQueued(w, k, i) => i \in Queued(w)
      BY Zenon DEF IsQueued, Queued
    <2>2. IsInHand(w, i) => i \in InHand(w)
      BY DEF IsInHand, InHand
    <2>3. \A g, k : IsDecoded(w, g, k, i) => i \in Decoded(w)
      BY DEF IsDecoded, Decoded, Range
    <2> QED
      BY <2>1, <2>2, <2>3
  <1>7. ~(i < i)
    OBVIOUS
  <1>8. /\ ~((\E k : IsQueued(w, k, i)) /\ IsInHand(w, i))
        /\ ~((\E k : IsQueued(w, k, i)) /\ (\E g, k : IsDecoded(w, g, k, i)))
        /\ ~(IsInHand(w, i) /\ (\E g, k : IsDecoded(w, g, k, i)))
    BY <1>5, <1>6, <1>7 DEF RowsInOrder
  <1>9. \A k, l : IsQueued(w, k, i) /\ IsQueued(w, l, i) => k = l
    <2>1. jobs[w] \in Seq(Jobs)
      BY <1>5 DEF PoolTypes
    <2>2. DOMAIN jobs[w] \subseteq Nat
      BY <2>1
    <2>3. \A k, l : IsQueued(w, k, i) /\ IsQueued(w, l, i) => ~(k < l)
      BY <1>5, <1>7 DEF RowsInOrder, IsQueued
    <2>4. \A k, l \in Nat : ~(k < l) /\ ~(l < k) => k = l
      OBVIOUS
    <2>5. \A k : IsQueued(w, k, i) => k \in Nat
      BY <2>2 DEF IsQueued
    <2> QED
      BY <2>3, <2>4, <2>5
  <1>10. \A g, k, h, l : IsDecoded(w, g, k, i) /\ IsDecoded(w, h, l, i) => g = h /\ k = l
    <2>1. PICK D \in SUBSET ctxs[w] : blocks[w] \in [D -> Seq(Nat)]
      BY <1>5 DEF PoolTypes
    <2>2. ctxs[w] \subseteq {generation}
      BY DEF PoolInv, WorkerInv
    <2>3. \A g \in DOMAIN blocks[w] : g = generation /\ blocks[w][g] \in Seq(Nat) /\ Increasing(blocks[w][g])
      BY <1>5, <2>1, <2>2 DEF RowsInOrder
    <2>4. \A s \in Seq(Nat) : \A k, l \in DOMAIN s : Increasing(s) /\ s[k] = s[l] => k = l
      BY DEF Increasing
    <2> QED
      BY <2>3, <2>4 DEF IsDecoded
  <1> QED
    BY <1>1, <1>2, <1>4, <1>8, <1>9, <1>10

LEMMA PlacesMean ==
    ASSUME NEW i
    PROVE  /\ Loose(i) # {} => \E w \in Workers : i \in Held(w)
           /\ \A w \in Workers : i \in Held(w) => Loose(i) # {}
           /\ Filed(i) # {} <=> \E f \in AllFiles : i \in Range(f.rows)
  <1>1. Loose(i) # {} => \E w \in Workers : i \in Held(w)
    BY LooseMeans, HeldMeans
  <1>2. ASSUME NEW w \in Workers, i \in Held(w)
        PROVE  Loose(i) # {}
    <2>1. (\E k : IsQueued(w, k, i)) \/ IsInHand(w, i) \/ (\E g, k : IsDecoded(w, g, k, i))
      BY <1>2, HeldMeans
    <2>2. \A k : IsQueued(w, k, i) => <<"queued", w, k>> \in Loose(i)
      BY LooseMeans, Zenon
    <2>3. IsInHand(w, i) => <<"hand", w>> \in Loose(i)
      BY LooseMeans, Zenon
    <2>4. \A g, k : IsDecoded(w, g, k, i) => <<"block", w, g, k>> \in Loose(i)
      BY LooseMeans, Zenon
    <2> QED
      BY <2>1, <2>2, <2>3, <2>4
  <1>3. Filed(i) # {} => \E f \in AllFiles : i \in Range(f.rows)
    <2> SUFFICES ASSUME NEW x \in Filed(i) PROVE \E f \in AllFiles : i \in Range(f.rows)
      OBVIOUS
    <2>1. PICK tag, f, k : FileAt(tag, f) /\ k \in DOMAIN f.rows /\ f.rows[k] = i /\ x = <<tag, f, k>>
      BY FiledIsFileAt
    <2> QED
      BY <2>1, FileAtMeans DEF Range
  <1>4. ASSUME NEW f \in AllFiles, i \in Range(f.rows)
        PROVE  Filed(i) # {}
    <2>1. PICK k \in DOMAIN f.rows : f.rows[k] = i
      BY <1>4 DEF Range
    <2>2. PICK tag : FileAt(tag, f)
      BY FileAtMeans
    <2>3. <<tag, f, k>> \in Filed(i)
      BY <2>1, <2>2, FiledIsFileAt, Zenon
    <2> QED
      BY <2>3
  <1> QED
    BY <1>1, <1>2, <1>3, <1>4

LEMMA PlacesUnique ==
    ASSUME PoolInv, RowsInv, NoFailure, NEW i \in Nat, NEW x \in Places(i), NEW y \in Places(i)
    PROVE  x = y
  <1>0. /\ AllInOrder /\ IdleHands /\ HeldApart /\ FilesApart /\ BlockInv /\ StagedInv /\ OutcomeInv
    BY DEF RowsInv, AllInOrder
  <1>1. CASE x \in Loose(i) /\ y \in Loose(i)
    BY <1>0, <1>1, LooseUnique
  <1>2. ~(Loose(i) # {} /\ Filed(i) # {})
    BY <1>0, PlacesMean DEF HeldApart, AllFiles
  <1>3. CASE x \in Filed(i) /\ y \in Filed(i)
    <2>1. PICK tag, f, k : FileAt(tag, f) /\ k \in DOMAIN f.rows /\ f.rows[k] = i /\ x = <<tag, f, k>>
      BY <1>3, FiledIsFileAt
    <2>2. PICK other, h, l : FileAt(other, h) /\ l \in DOMAIN h.rows /\ h.rows[l] = i /\ y = <<other, h, l>>
      BY <1>3, FiledIsFileAt
    <2>3. f = h /\ k = l
      BY <1>0, <2>1, <2>2, FileAtMeans, FileEntryUnique
    <2>4. \A t1, t2 : FileAt(t1, f) /\ FileAt(t2, f) /\ t1 = "staged" => t2 = "staged"
      <3> SUFFICES ASSUME NEW t2, FileAt("staged", f), FileAt(t2, f), t2 # "staged" PROVE FALSE
        OBVIOUS
      <3>1. f \in Flying
        BY FlyingMeans DEF FileAt
      <3>2. PICK t \in Tables : f \in staged[t]
        BY DEF FileAt
      <3> QED
        BY <1>0, <3>1, <3>2, FlyingIsNotStaged
    <2>5. tag = other
      BY <1>0, <2>1, <2>2, <2>3, <2>4, FileFliesOnce
    <2> QED
      BY <2>1, <2>2, <2>3, <2>5
  <1> QED
    BY <1>1, <1>2, <1>3 DEF Places

LEMMA OneElement ==
    ASSUME NEW S, \A x, y \in S : x = y
    PROVE  Cardinality(S) = IF S = {} THEN 0 ELSE 1
  <1>1. CASE S = {}
    BY <1>1, FS_EmptySet
  <1>2. CASE S # {}
    <2>1. PICK x : S = {x}
      BY <1>2
    <2> QED
      BY <1>2, <2>1, FS_Singleton
  <1> QED
    BY <1>1, <1>2

(* While nothing has failed, every payload the reader has passed is in     *)
(* exactly one place if its table is wanted and in none if it is not,      *)
(* whatever the number of workers and however their steps interleave with  *)
(* dispatch and barrier: rows are neither lost nor doubled.                *)
THEOREM PayloadsConserved == Spec => []RowsConserved
  <1>1. IInv => RowsConserved
    <2> SUFFICES ASSUME PoolInv, RowsInv, NoFailure, NEW i \in 1..(pos - 1)
                 PROVE  Cardinality(Places(i)) = IF dump[i].type = "rows" /\ TableOf(i) \in Wanted THEN 1 ELSE 0
      BY DEF IInv, RowsConserved
    <2>0. NothingLost /\ HeldApart /\ FilesApart
      BY DEF RowsInv
    <2>1. i \in Nat
      BY PlaceFacts
    <2>2. Cardinality(Places(i)) = IF Places(i) = {} THEN 0 ELSE 1
      BY <2>1, PlacesUnique, OneElement
    <2>3. Places(i) # {} <=> Somewhere(i)
      BY PlacesMean DEF Places, Somewhere
    <2>4. Passed(i) => Somewhere(i)
      BY <2>0, LostMeans
    <2>5. Somewhere(i) => Passed(i)
      BY <2>0 DEF Somewhere, HeldApart, FilesApart, AllFiles
    <2>6. Passed(i) <=> dump[i].type = "rows" /\ TableOf(i) \in Wanted
      BY DEF Passed
    <2> QED
      BY <2>2, <2>3, <2>4, <2>5, <2>6
  <1> QED
    BY <1>1, PayloadInvariant, PTL

(* What is staged for a committed table is the whole of it.                *)
LEMMA StagedIsWhole ==
    ASSUME PoolInv, RowsInv, NEW t \in Tables, visible[t].loaded, visible[t].files = staged[t]
    PROVE  WholeTable(t)
  <1>0. IdleHands /\ FilesApart /\ StagedInv /\ CommitInv /\ OpenedInv
    BY DEF RowsInv
  <1>1. visible[t].files = staged[t] /\ pos > Len(dump) /\ AllStaged
    BY <1>0 DEF CommitInv, Published, AllStaged
  <1>2. t \in Wanted
    BY <1>0 DEF OpenedInv, TargetInv
  <1>3. pos \in 1..(Len(dump) + 1) /\ Len(dump) \in Nat /\ DOMAIN dump = 1..Len(dump)
    BY PlaceFacts, DumpFacts DEF PoolInv, TypeOK, ReaderTypes
  <1>4. \A f \in staged[t] : f \in AllFiles
    BY KeptMeans DEF AllFiles
  <1>5. ASSUME NEW i \in PayloadsFor(t)
        PROVE  i \in DOMAIN dump /\ ~dump[i].bad /\ \E f \in staged[t] : i \in Range(f.rows)
    <2>1. i \in DOMAIN dump /\ dump[i].type = "rows" /\ TableOf(i) = t
      BY DEF PayloadsFor
    <2>2. Passed(i)
      BY <1>1, <1>2, <1>3, <2>1 DEF Passed
    <2>3. PICK f \in staged[t] : i \in Range(f.rows)
      BY <1>1, <2>1, <2>2 DEF AllStaged
    <2>4. ~dump[i].bad
      BY <1>0, <1>4, <2>3 DEF FilesApart, AllFiles
    <2> QED
      BY <2>1, <2>3, <2>4
  <1>6. ASSUME NEW f \in staged[t], NEW i \in Range(f.rows)
        PROVE  i \in PayloadsFor(t)
    <2>1. Passed(i) /\ TableOf(i) = t
      BY <1>0, <1>4 DEF FilesApart, AllFiles, StagedInv
    <2> QED
      BY <1>1, <1>3, <2>1 DEF PayloadsFor, Passed
  <1>7. ASSUME NEW i \in DOMAIN dump
        PROVE  Cardinality(RowsIn("file", staged[t], i)) = IF i \in PayloadsFor(t) THEN 1 ELSE 0
    <2> DEFINE S == RowsIn("file", staged[t], i)
    <2>1. \A x : x \in S <=> \E f \in staged[t] : \E k \in DOMAIN f.rows : f.rows[k] = i /\ x = <<"file", f, k>>
      BY RowsInMeans
    <2> HIDE DEF S
    <2>2. \A x, y \in S : x = y
      BY <1>0, <1>4, <2>1, FileEntryUnique
    <2>3. Cardinality(S) = IF S = {} THEN 0 ELSE 1
      BY <2>2, OneElement
    <2>4. S # {} => i \in PayloadsFor(t)
      BY <1>6, <2>1 DEF Range
    <2>5. i \in PayloadsFor(t) => S # {}
      <3> SUFFICES ASSUME i \in PayloadsFor(t) PROVE S # {}
        OBVIOUS
      <3>1. PICK f \in staged[t] : i \in Range(f.rows)
        BY <1>5
      <3>2. PICK k \in DOMAIN f.rows : f.rows[k] = i
        BY <3>1 DEF Range
      <3>3. <<"file", f, k>> \in S
        BY <2>1, <3>2, Zenon
      <3> QED
        BY <3>3
    <2>6. Cardinality(S) = IF i \in PayloadsFor(t) THEN 1 ELSE 0
      BY <2>3, <2>4, <2>5
    <2> QED
      BY <2>6 DEF S
  <1> QED
    BY <1>1, <1>5, <1>7 DEF WholeTable

(* A table that is committed holds every payload of its COPY blocks once,  *)
(* nothing else, and none that did not decode, whatever failed or was      *)
(* interrupted meanwhile; only a table fed by several blocks can be seen   *)
(* without any of its rows, and not once the load has succeeded.           *)
THEOREM CommittedWhole == Spec => []CommittedIsWhole
  <1>1. IInv => CommittedIsWhole
    <2> SUFFICES ASSUME PoolInv, RowsInv, NEW t \in Tables, visible[t].loaded
                 PROVE  WholeTable(t) \/ (~FedOnce(t) /\ visible[t].files = {} /\ outcome # "ok")
      BY DEF IInv, CommittedIsWhole
    <2>1. CommitInv /\ OpenedInv
      BY DEF RowsInv
    <2>2. CASE visible[t].files = staged[t]
      BY <2>2, StagedIsWhole
    <2>3. CASE visible[t].files # staged[t]
      <3>1. visible[t].files = {} /\ ~FedOnce(t)
        BY <2>1, <2>3 DEF CommitInv, Published
      <3>2. outcome # "ok"
        <4> SUFFICES ASSUME outcome = "ok" PROVE FALSE
          OBVIOUS
        <4>1. PICK k \in DOMAIN opened : opened[k] = t /\ FirstTarget(k)
          BY <2>1 DEF OpenedInv, TargetInv
        <4>2. commits[k] = "ok"
          BY <2>1, <4>1 DEF CommitInv
        <4> QED
          BY <2>1, <2>3, <4>1, <4>2 DEF CommitInv
      <3> QED
        BY <3>1, <3>2
    <2> QED
      BY <2>2, <2>3
  <1> QED
    BY <1>1, PayloadInvariant, PTL

-----------------------------------------------------------------------------
(***************************************************************************)
(* A load implements AllOrNothing.                                         *)
(***************************************************************************)
Target == {t \in Wanted : FedOnce(t)}

Phase == CASE outcome = "ok" -> "ok"
           [] outcome = "running" /\ rpc = "commit" -> "publishing"
           [] outcome = "running" /\ rpc # "commit" -> "reading"
           [] OTHER -> "failed"

Contents == [t \in Tables |-> CASE ~visible[t].loaded \/ ~FedOnce(t) -> "old"
                                [] visible[t].loaded /\ FedOnce(t) /\ WholeTable(t) -> "new"
                                [] OTHER -> "short"]

LEMMA PhaseIs ==
    /\ outcome = "ok" => Phase = "ok"
    /\ outcome = "running" /\ rpc = "commit" => Phase = "publishing"
    /\ outcome = "running" /\ rpc # "commit" => Phase = "reading"
    /\ outcome \notin {"ok", "running"} => Phase = "failed"
  BY DEF Phase

LEMMA PhaseIsNext ==
    /\ outcome' = "ok" => Phase' = "ok"
    /\ outcome' = "running" /\ rpc' = "commit" => Phase' = "publishing"
    /\ outcome' = "running" /\ rpc' # "commit" => Phase' = "reading"
    /\ outcome' \notin {"ok", "running"} => Phase' = "failed"
  BY DEF Phase

LEMMA ContentsAre ==
    CommittedIsWhole => Contents = [t \in Tables |-> IF visible[t].loaded /\ FedOnce(t) THEN "new" ELSE "old"]
  BY DEF CommittedIsWhole, Contents

LEMMA ContentsAreNext ==
    CommittedIsWhole' => Contents' = [t \in Tables |-> IF visible'[t].loaded /\ FedOnce(t)' THEN "new" ELSE "old"]
  BY DEF CommittedIsWhole, Contents

(* The reader's steps are those of the contract's phases. *)
LEMMA ReaderRefines ==
    ASSUME IInv, CommittedIsWhole, CommittedIsWhole', Reader
    PROVE  /\ Target' = Target /\ Contents' = Contents
           /\ \/ Phase' = Phase
              \/ Phase = "reading" /\ Phase' = "publishing"
              \/ Phase \in {"reading", "publishing"} /\ Phase' = "failed"
              \/ /\ Phase = "publishing" /\ Phase' = "ok"
                 /\ \A t \in Target : Contents[t] = "new"
  <1>0. PoolInv /\ OutcomeInv /\ CommitInv /\ OpenedInv
    BY DEF IInv, RowsInv
  <1>1. visible' = visible /\ dump' = dump
    BY <1>0, PosMoves DEF Reader, OpenInput, EndOfChunk, DumpVersion, Table, CopyStart, BroadcastOpen, CopyRows,
           CopyEnd, BroadcastClose, AwaitAck, TakeCause, EndOfDump, CommitsOver, Shutdown, Join
  <1>2. Target' = Target
    BY <1>1, FedStands DEF Target
  <1>3. Contents' = Contents
    BY <1>1, ContentsAre, ContentsAreNext, FedStands
  <1>4. CASE /\ rpc' = "shutdown" /\ rpc \notin Ending /\ outcome' # "running"
             /\ outcome' = "ok" => CommitsOver
    <2>1. outcome = "running"
      BY <1>0, <1>4 DEF OutcomeInv, Ending
    <2>2. CASE outcome' # "ok"
      BY <1>2, <1>3, <1>4, <2>1, <2>2, PhaseIs, PhaseIsNext
    <2>3. CASE outcome' = "ok"
      <3>1. rpc = "commit" /\ \A i \in DOMAIN commits : commits[i] = "ok"
        BY <1>4, <2>3 DEF CommitsOver, Return
      <3>2. ASSUME NEW t \in Target
            PROVE  Contents[t] = "new"
        <4>1. PICK j \in DOMAIN dump : dump[j].type = "start" /\ dump[j].table = t /\ t \in Wanted /\ FedOnce(t)
          BY DEF Target, FedOnce, Starts
        <4>2. j \in 1..(pos - 1)
          <5>1. pos > Len(dump)
            BY <1>0, <3>1 DEF CommitInv
          <5>2. pos \in Nat /\ Len(dump) \in Nat /\ DOMAIN dump = 1..Len(dump)
            BY <1>0, PlaceFacts, DumpFacts
          <5> QED
            BY <5>1, <5>2
        <4>3. PICK k \in DOMAIN opened : opened[k] = t
          BY <1>0, <4>1, <4>2 DEF OpenedInv
        <4>4. visible[t].loaded
          BY <1>0, <3>1, <4>3 DEF CommitInv
        <4> QED
          BY <4>1, <4>4, ContentsAre, TablesAssumption
      <3> QED
        BY <1>2, <1>3, <2>1, <2>3, <3>1, <3>2, PhaseIs, PhaseIsNext
    <2> QED
      BY <2>2, <2>3
  <1>5. CASE outcome' = outcome /\ (rpc' \in Ending <=> rpc \in Ending)
    <2>1. CASE outcome # "running"
      BY <1>2, <1>3, <1>5, <2>1, PhaseIs, PhaseIsNext
    <2>2. CASE outcome = "running"
      <3>1. rpc = "commit" => rpc' \in Ending
        BY DEF Ending, Reader, OpenInput, EndOfChunk, DumpVersion, Table, CopyStart, BroadcastOpen, Broadcast, CopyRows,
           CopyEnd, BroadcastClose, AwaitAck, TakeCause, EndOfDump, CommitsOver, Shutdown, Join, Return, At
      <3>2. rpc # "commit"
        BY <1>5, <3>1 DEF Ending
      <3> QED
        BY <1>2, <1>3, <1>5, <2>2, <3>2, PhaseIs, PhaseIsNext
    <2> QED
      BY <2>1, <2>2
  <1> QED
    BY <1>0, <1>4, <1>5, OutcomeMoves

(* A commit publishes its table, or changes nothing the readers see. *)
LEMMA CommitRefines ==
    ASSUME IInv, CommittedIsWhole, CommittedIsWhole', NEW i \in DOMAIN commits, Commit(i)
    PROVE  /\ Target' = Target /\ Phase' = Phase
           /\ \/ Contents' = Contents
              \/ \E t \in Target : /\ Phase = "publishing" /\ Contents[t] = "old"
                                   /\ Contents' = [Contents EXCEPT ![t] = "new"]
  <1>0. PoolInv /\ OutcomeInv /\ CommitInv /\ OpenedInv
    BY DEF IInv, RowsInv
  <1>1. /\ UNCHANGED readerVars /\ dump' = dump
        /\ \/ visible' = visible
           \/ opened[i] \in Tables /\ visible' = [visible EXCEPT ![opened[i]] =
                                                   [loaded |-> TRUE, files |-> @.files \cup Actions(i)]]
    BY <1>0, CommitTasks
  <1>2. UNCHANGED <<rpc, outcome>>
    BY <1>1 DEF readerVars
  <1>3. Target' = Target /\ Phase' = Phase
    BY <1>1, <1>2, FedStands DEF Target, Phase
  <1>4. CASE visible' = visible
    BY <1>1, <1>3, <1>4, ContentsAre, ContentsAreNext, FedStands
  <1>5. CASE visible' # visible
    <2>1. commits[i] = "running"
      BY <1>5 DEF Commit, CommitStart, CommitDone
    <2>2. rpc = "commit" /\ outcome = "running" /\ i \in DOMAIN opened /\ DOMAIN visible = Tables
      BY <1>0, <2>1 DEF CommitInv, OutcomeInv
    <2>3. PICK t \in Tables : t = opened[i] /\ t \in Wanted
      BY <1>0, <1>1, <1>5, <2>2 DEF OpenedInv, TargetInv
    <2>4. /\ \A u \in Tables \ {t} : visible'[u] = visible[u]
          /\ visible'[t].loaded
      BY <1>1, <1>5, <2>2, <2>3
    <2>5. CASE visible[t].loaded \/ ~FedOnce(t)
      <3>1. \A u \in Tables : visible'[u].loaded /\ FedOnce(u)' <=> visible[u].loaded /\ FedOnce(u)
        BY <1>1, <2>4, <2>5, FedStands
      <3> QED
        BY <1>3, <3>1, ContentsAre, ContentsAreNext
    <2>6. CASE ~visible[t].loaded /\ FedOnce(t)
      <3>1. Contents[t] = "old" /\ t \in Target
        BY <2>3, <2>6, ContentsAre DEF Target
      <3>2. Contents' = [Contents EXCEPT ![t] = "new"]
        BY <1>1, <2>4, <2>6, ContentsAre, ContentsAreNext, FedStands
      <3> QED
        BY <1>3, <2>2, <3>1, <3>2, PhaseIs
    <2> QED
      BY <2>5, <2>6
  <1> QED
    BY <1>4, <1>5

LEMMA StepRefines ==
    ASSUME IInv, CommittedIsWhole, CommittedIsWhole', [Next]_vars
    PROVE  [Contract!Next]_(Contract!vars)
  <1>1. CASE Reader
    <2>1. /\ Target' = Target /\ Contents' = Contents
          /\ \/ Phase' = Phase
             \/ Phase = "reading" /\ Phase' = "publishing"
             \/ Phase \in {"reading", "publishing"} /\ Phase' = "failed"
             \/ /\ Phase = "publishing" /\ Phase' = "ok"
                /\ \A t \in Target : Contents[t] = "new"
      BY <1>1, ReaderRefines
    <2> QED
      BY <2>1 DEF Contract!Next, Contract!vars, Contract!StartPublishing, Contract!Succeed, Contract!Fail,
                  Target, Phase, Contents
  <1>2. CASE \E i \in DOMAIN commits : Commit(i)
    <2>1. /\ Target' = Target /\ Phase' = Phase
          /\ \/ Contents' = Contents
             \/ \E t \in Target : /\ Phase = "publishing" /\ Contents[t] = "old"
                                  /\ Contents' = [Contents EXCEPT ![t] = "new"]
      BY <1>2, CommitRefines
    <2> QED
      BY <2>1 DEF Contract!Next, Contract!vars, Contract!Publish, Target, Phase, Contents
  <1>3. CASE UNCHANGED vars \/ (\E t \in Tables : PreloadDone(t)) \/ (\E w \in Workers : Worker(w))
    <2>1. UNCHANGED <<dump, rpc, outcome, visible>>
      BY <1>3 DEF vars, readerVars, PreloadDone, Worker, WorkerRecv, WorkerOpen, WorkerRows, WorkerClose,
                  WorkerSend, WorkerExit
    <2>2. Target' = Target /\ Phase' = Phase /\ Contents' = Contents
      BY <2>1, ContentsAre, ContentsAreNext, FedStands DEF Target, Phase
    <2> QED
      BY <2>2 DEF Contract!Next, Contract!vars, Target, Phase, Contents
  <1> QED
    BY <1>1, <1>2, <1>3 DEF Next

(* Every load, however it goes, does only what AllOrNothing allows to the  *)
(* tables fed by one COPY block: they stay as they were while the dump is  *)
(* read, each then goes from its old contents to the whole new ones, and   *)
(* success means all of them.                                              *)
THEOREM LoadIsAllOrNothing == Spec => Contract!Init /\ [][Contract!Next]_(Contract!vars)
  <1>1. Init => Contract!Init
    <2> SUFFICES ASSUME Init PROVE Contract!Init
      OBVIOUS
    <2>1. outcome = "running" /\ rpc = "start" /\ \A t \in Tables : ~visible[t].loaded
      BY DEF Init
    <2>2. Phase = "reading" /\ Contents = [t \in Tables |-> "old"] /\ Target \in SUBSET Tables
      BY <2>1, PhaseIs, TablesAssumption DEF Contents, Target
    <2> QED
      BY <2>2 DEF Contract!Init, Target, Phase, Contents
  <1>2. IInv /\ CommittedIsWhole /\ CommittedIsWhole' /\ [Next]_vars => [Contract!Next]_(Contract!vars)
    BY StepRefines
  <1> QED
    BY <1>1, <1>2, PayloadInvariant, CommittedWhole, PTL DEF Spec
=============================================================================
