------------------------- MODULE OutputQueueProofs -------------------------
(***************************************************************************)
(* Machine-checked proofs about OutputQueue, for any number of slots,      *)
(* flows, publishers and readers and any packet sizes and credits: slots   *)
(* and flows are conserved, the flow store suffices, no packet is stranded *)
(* and a closed queue ends empty.                                          *)
(***************************************************************************)
EXTENDS OutputQueue, FiniteSetTheorems, SequenceTheorems, WellFoundedInduction, TLAPS

(* The inductive invariant. *)

Distinct(q) == \A i, j \in 1 .. Len(q) : q[i] = q[j] => i = j

\* Where goroutines of each kind may be, and where they hold a slot.
PlaceInv ==
    /\ \A p \in Publishers : pc[p] \in {"idle", "reserve", "failed", "retry", "displace", "reserved",
                                        "published", "discard", "drop"}
    /\ \A r \in Readers : pc[r] \in {"idle", "try", "wait", "batch", "copy"}
    /\ \A c \in Closers : pc[c] \in {"idle", "closing", "discard", "drop"}
    /\ \A t \in Threads : held[t] # NoSlot <=> pc[t] \in {"reserved", "copy", "drop"}

\* Whoever is in the dequeue loop looks for a packet that is there, or has
\* served one and finishes a demotion.
LoopInv ==
    /\ demoted # NoFlow => mu # Nobody
    /\ mu # Nobody => pc[mu] \in {"try", "batch", "discard", "copy", "drop"}
    /\ mu # Nobody /\ held[mu] = NoSlot => QueuedSlots # {}
    /\ mu # Nobody /\ held[mu] # NoSlot => demoted # NoFlow

\* No slot is queued twice.
QueuedOnce ==
    \A f, g \in FlowKeys : \A i \in 1 .. Len(backlog[f]), j \in 1 .. Len(backlog[g]) :
        backlog[f][i].slot = backlog[g][j].slot => f = g /\ i = j

\* A slot is in exactly one place.
SlotInv ==
    /\ \A s \in Slots : s \in free \/ s \in QueuedSlots \/ \E t \in Threads : held[t] = s
    /\ \A s \in free : s \notin QueuedSlots /\ \A t \in Threads : held[t] # s
    /\ \A t, u \in Threads : held[t] = held[u] /\ held[t] # NoSlot => t = u
    /\ \A t \in Threads : held[t] \notin QueuedSlots
    /\ QueuedOnce

\* The flows that have an object of the fixed store.
Stored == Known \cup ({demoted} \ {NoFlow})

\* No list has a flow twice.
Listed ==
    /\ newFlows \in Seq(FlowKeys) /\ oldFlows \in Seq(FlowKeys) /\ detached \in Seq(FlowKeys)
    /\ Distinct(newFlows) /\ Distinct(oldFlows) /\ Distinct(detached)

\* A flow is on one list; those with packets are on a ready list, or being
\* demoted.
ListInv ==
    /\ Listed
    /\ Elements(newFlows) \cap Elements(oldFlows) = {}
    /\ Elements(newFlows) \cap Elements(detached) = {}
    /\ Elements(oldFlows) \cap Elements(detached) = {}
    /\ demoted \notin Known
    /\ oldDue \subseteq Elements(newFlows)
    /\ \A f \in Elements(newFlows) : backlog[f] # <<>>
    /\ \A f \in FlowKeys :
          backlog[f] # <<>> => f \in Elements(newFlows) \cup Elements(oldFlows) \cup {demoted}

\* There are as many flow objects as slots.
StoreInv == IsFiniteSet(Stored) /\ Cardinality(Stored) <= Cardinality(Slots)

\* A queued packet has been announced, or a reader is about to look for it.
Announced == QueuedSlots # {} => ready \/ \E r \in Readers : pc[r] = "try"

IndInv ==
    /\ TypeOK /\ PlaceInv /\ LoopInv /\ SlotInv /\ ListInv /\ StoreInv
    /\ Announced /\ ClosedQueueIsEmpty
-----------------------------------------------------------------------------
(* Lists and backlogs. *)

LEMMA ListMembers ==
    ASSUME NEW S, NEW q \in Seq(S)
    PROVE  Elements(q) \subseteq S
  <1>1. \A i \in DOMAIN q : q[i] \in S
    OBVIOUS
  <1> QED
    BY <1>1 DEF Elements

\* What appending to a list does to its contents.
LEMMA ListAppend ==
    ASSUME NEW S, NEW q \in Seq(S), NEW e \in S
    PROVE  /\ Append(q, e) \in Seq(S)
           /\ Elements(Append(q, e)) = Elements(q) \cup {e}
           /\ Distinct(q) /\ e \notin Elements(q) => Distinct(Append(q, e))
  <1>1. /\ Len(Append(q, e)) = Len(q) + 1 /\ DOMAIN Append(q, e) = 1 .. (Len(q) + 1)
        /\ DOMAIN q = 1 .. Len(q) /\ Len(q) \in Nat /\ Append(q, e) \in Seq(S)
    OBVIOUS
  <1>2. \A i \in 1 .. Len(q) : Append(q, e)[i] = q[i]
    OBVIOUS
  <1>3. Append(q, e)[Len(q) + 1] = e /\ Len(q) + 1 \in DOMAIN Append(q, e)
    BY <1>1
  <1>4. \A i \in DOMAIN Append(q, e) : i \in 1 .. Len(q) \/ i = Len(q) + 1
    BY <1>1
  <1>5. \A x : x \in Elements(Append(q, e)) => x \in Elements(q) \cup {e}
    BY <1>1, <1>2, <1>3, <1>4 DEF Elements
  <1>6. \A x : x \in Elements(q) => x \in Elements(Append(q, e))
    BY <1>1, <1>2 DEF Elements
  <1>7. e \in Elements(Append(q, e))
    BY <1>3 DEF Elements
  <1>8. ASSUME Distinct(q), e \notin Elements(q)
        PROVE  Distinct(Append(q, e))
    <2>1. \A i \in 1 .. Len(q) : q[i] # e
      BY <1>1, <1>8 DEF Elements
    <2> QED
      BY <1>1, <1>2, <1>3, <1>4, <1>8, <2>1 DEF Distinct
  <1> QED
    BY <1>1, <1>5, <1>6, <1>7, <1>8

\* What taking the element at position i from a list does to its contents.
LEMMA ListRemoveAt ==
    ASSUME NEW S, NEW q \in Seq(S), Distinct(q), NEW i \in 1 .. Len(q), NEW r \in Seq(S),
           Len(r) = Len(q) - 1,
           \A k \in 1 .. Len(r) : (k < i => r[k] = q[k]) /\ (k >= i => r[k] = q[k + 1])
    PROVE  Distinct(r) /\ Elements(r) = Elements(q) \ {q[i]}
  <1>1. /\ DOMAIN q = 1 .. Len(q) /\ DOMAIN r = 1 .. Len(r) /\ Len(q) \in Nat /\ Len(r) \in Nat
        /\ Len(q) = Len(r) + 1 /\ i \in Int /\ 1 <= i /\ i <= Len(q)
    OBVIOUS
  <1> DEFINE at(k) == IF k < i THEN k ELSE k + 1
  <1>2. \A k \in 1 .. Len(r) : at(k) \in 1 .. Len(q) /\ at(k) # i /\ r[k] = q[at(k)]
    BY <1>1
  <1>3. \A j, k \in 1 .. Len(r) : at(j) = at(k) => j = k
    BY <1>1
  <1>4. \A j \in 1 .. Len(q) : j # i => \E k \in 1 .. Len(r) : at(k) = j
    <2> SUFFICES ASSUME NEW j \in 1 .. Len(q), j # i
                 PROVE  \E k \in 1 .. Len(r) : at(k) = j
      OBVIOUS
    <2>1. CASE j < i
      <3>1. j \in 1 .. Len(r) /\ at(j) = j
        BY <1>1, <2>1
      <3> QED
        BY <3>1
    <2>2. CASE j > i
      <3>1. j - 1 \in 1 .. Len(r) /\ at(j - 1) = j
        BY <1>1, <2>2
      <3> QED
        BY <3>1
    <2> QED
      BY <1>1, <2>1, <2>2
  <1> HIDE DEF at
  <1>5. Distinct(r)
    BY <1>2, <1>3 DEF Distinct
  <1>6. \A x : x \in Elements(r) => x \in Elements(q) /\ x # q[i]
    BY <1>1, <1>2 DEF Distinct, Elements
  <1>7. \A x : x \in Elements(q) /\ x # q[i] => x \in Elements(r)
    <2> SUFFICES ASSUME NEW j \in 1 .. Len(q), q[j] # q[i]
                 PROVE  q[j] \in Elements(r)
      BY <1>1 DEF Elements
    <2>1. PICK k \in 1 .. Len(r) : at(k) = j
      BY <1>4
    <2> QED
      BY <1>1, <1>2, <2>1 DEF Elements
  <1> QED
    BY <1>5, <1>6, <1>7

\* What taking the head of a list does.
LEMMA ListTail ==
    ASSUME NEW S, NEW q \in Seq(S), q # <<>>
    PROVE  /\ Head(q) \in S /\ Head(q) \in Elements(q) /\ Tail(q) \in Seq(S)
           /\ Len(Tail(q)) = Len(q) - 1 /\ Len(q) \in Nat \ {0} /\ Head(q) = q[1]
           /\ \A k \in 1 .. Len(Tail(q)) : Tail(q)[k] = q[k + 1]
           /\ Distinct(q) => Distinct(Tail(q)) /\ Elements(Tail(q)) = Elements(q) \ {Head(q)}
  <1>1. /\ Len(q) \in Nat \ {0} /\ DOMAIN q = 1 .. Len(q) /\ Head(q) = q[1] /\ Tail(q) \in Seq(S)
        /\ Len(Tail(q)) = Len(q) - 1
        /\ \A k \in 1 .. Len(Tail(q)) : Tail(q)[k] = q[k + 1]
    OBVIOUS
  <1>2. 1 \in 1 .. Len(q)
    BY <1>1
  <1>3. Head(q) \in Elements(q) /\ Head(q) \in S
    BY <1>1, <1>2 DEF Elements
  <1>4. ASSUME Distinct(q)
        PROVE  Distinct(Tail(q)) /\ Elements(Tail(q)) = Elements(q) \ {q[1]}
    <2> DEFINE r == Tail(q)
    <2>1. r \in Seq(S) /\ Len(r) = Len(q) - 1
      BY <1>1
    <2>2. \A k \in 1 .. Len(r) : (k < 1 => r[k] = q[k]) /\ (k >= 1 => r[k] = q[k + 1])
      BY <1>1
    <2> HIDE DEF r
    <2>3. Distinct(r) /\ Elements(r) = Elements(q) \ {q[1]}
      BY <1>2, <1>4, <2>1, <2>2, ListRemoveAt
    <2> QED
      BY <2>3 DEF r
  <1> QED
    BY <1>1, <1>3, <1>4

\* What outputFlowList.remove does to a list.
LEMMA ListWithout ==
    ASSUME NEW S, NEW q \in Seq(S), Distinct(q), NEW f
    PROVE  Without(q, f) \in Seq(S) /\ Distinct(Without(q, f)) /\ Elements(Without(q, f)) = Elements(q) \ {f}
  <1>1. CASE f \notin Elements(q)
    BY <1>1 DEF Without
  <1>2. CASE f \in Elements(q)
    <2> DEFINE i == CHOOSE i \in DOMAIN q : q[i] = f
    <2>1. DOMAIN q = 1 .. Len(q) /\ Len(q) \in Nat
      OBVIOUS
    <2>2. i \in 1 .. Len(q) /\ q[i] = f
      BY <1>2, <2>1 DEF Elements
    <2>3. Without(q, f) = RemoveAt(q, i)
      BY <1>2 DEF Without
    <2> HIDE DEF i
    <2> DEFINE a == SubSeq(q, 1, i - 1)
               b == SubSeq(q, i + 1, Len(q))
    <2>4. i \in Int /\ 1 <= i /\ i <= Len(q)
      BY <2>1, <2>2
    <2>5. a \in Seq(S) /\ Len(a) = i - 1 /\ \A k \in 1 .. (i - 1) : a[k] = q[k]
      <3>1. 1 \in 1 .. Len(q) + 1 /\ i - 1 \in (1 - 1) .. Len(q)
        BY <2>1, <2>4
      <3>2. /\ a \in Seq(S) /\ Len(a) = (i - 1) - 1 + 1
            /\ \A k \in 1 .. (i - 1) - 1 + 1 : a[k] = q[1 + k - 1]
        BY <3>1, SubSeqProperties
      <3> QED
        BY <2>4, <3>2
    <2>6. b \in Seq(S) /\ Len(b) = Len(q) - i /\ \A k \in 1 .. (Len(q) - i) : b[k] = q[i + k]
      <3>1. i + 1 \in 1 .. Len(q) + 1 /\ Len(q) \in (i + 1 - 1) .. Len(q)
        BY <2>1, <2>4
      <3>2. /\ b \in Seq(S) /\ Len(b) = Len(q) - (i + 1) + 1
            /\ \A k \in 1 .. Len(q) - (i + 1) + 1 : b[k] = q[i + 1 + k - 1]
        BY <3>1, SubSeqProperties
      <3>3. /\ Len(q) - (i + 1) + 1 = Len(q) - i
            /\ \A k \in 1 .. (Len(q) - i) : i + 1 + k - 1 = i + k
        BY <2>1, <2>4
      <3> QED
        BY <3>2, <3>3
    <2> HIDE DEF a, b
    <2> DEFINE r == a \o b
    <2>7. /\ r \in Seq(S) /\ Len(r) = Len(q) - 1
          /\ \A k \in 1 .. Len(r) : r[k] = IF k <= Len(a) THEN a[k] ELSE b[k - Len(a)]
      <3>1. /\ r \in Seq(S) /\ Len(r) = Len(a) + Len(b)
            /\ \A k \in 1 .. Len(a) + Len(b) : r[k] = IF k <= Len(a) THEN a[k] ELSE b[k - Len(a)]
        BY <2>5, <2>6, ConcatProperties
      <3> HIDE DEF r
      <3>2. Len(a) + Len(b) = Len(q) - 1
        BY <2>1, <2>4, <2>5, <2>6
      <3> QED
        BY <3>1, <3>2
    <2> HIDE DEF r
    <2>8. \A k \in 1 .. Len(r) : (k < i => r[k] = q[k]) /\ (k >= i => r[k] = q[k + 1])
      <3> SUFFICES ASSUME NEW k \in 1 .. Len(r)
                   PROVE  (k < i => r[k] = q[k]) /\ (k >= i => r[k] = q[k + 1])
        OBVIOUS
      <3>1. CASE k < i
        BY <2>1, <2>4, <2>5, <2>7, <3>1
      <3>2. CASE k >= i
        <4> DEFINE m == k - Len(a)
        <4>1. m \in 1 .. (Len(q) - i) /\ i + m = k + 1 /\ ~(k <= Len(a)) /\ ~(k < i)
          BY <2>1, <2>4, <2>5, <2>7, <3>2
        <4>2. r[k] = b[m]
          BY <2>7, <4>1
        <4> HIDE DEF m
        <4>3. b[m] = q[i + m]
          BY <2>6, <4>1
        <4> QED
          BY <4>1, <4>2, <4>3
      <3> QED
        BY <2>4, <3>1, <3>2
    <2>9. Distinct(r) /\ Elements(r) = Elements(q) \ {f}
      BY <2>2, <2>7, <2>8, ListRemoveAt
    <2>10. Without(q, f) = r
      BY <2>3 DEF RemoveAt, r, a, b
    <2> QED
      BY <2>7, <2>9, <2>10
  <1> QED
    BY <1>1, <1>2

\* A list without repetition is as long as its contents.
LEMMA ListLength ==
    ASSUME NEW S, NEW q \in Seq(S), Distinct(q)
    PROVE  IsFiniteSet(Elements(q)) /\ Cardinality(Elements(q)) = Len(q)
  <1>1. Len(q) \in Nat /\ DOMAIN q = 1 .. Len(q) /\ q \in [1 .. Len(q) -> Elements(q)]
    BY DEF Elements
  <1>2. q \in Bijection(1 .. Len(q), Elements(q))
    BY <1>1 DEF Bijection, Injection, Surjection, IsInjective, Distinct, Elements
  <1>3. ExistsBijection(1 .. Len(q), Elements(q))
    BY <1>2 DEF ExistsBijection
  <1>4. IsFiniteSet(Elements(q))
    BY <1>1, <1>3, FS_NatBijection
  <1>5. Cardinality(Elements(q)) = Len(q)
    BY <1>1, <1>3, FS_CountingElements
  <1> QED
    BY <1>4, <1>5

\* A slot is queued when it is at some place of some flow's backlog.
LEMMA QueuedPlaces ==
    \A s : s \in QueuedSlots <=>
        \E f \in FlowKeys : \E e \in Elements(backlog[f]) : e.slot = s
  BY DEF QueuedSlots, QueuedIn

LEMMA BacklogPlaces ==
    ASSUME FlowTypeOK, NEW f \in FlowKeys
    PROVE  /\ backlog[f] \in Seq(Packets) /\ Len(backlog[f]) \in Nat
           /\ backlog[f] = <<>> <=> Len(backlog[f]) = 0
           /\ \A i \in 1 .. Len(backlog[f]) :
                 /\ backlog[f][i] \in Packets /\ backlog[f][i].slot \in Slots
                 /\ backlog[f][i].slot \in QueuedIn(f) /\ backlog[f][i].slot \in QueuedSlots
           /\ \A s \in QueuedIn(f) : \E i \in 1 .. Len(backlog[f]) : backlog[f][i].slot = s
  <1>1. backlog[f] \in Seq(Packets)
    BY DEF FlowTypeOK
  <1>2. /\ Len(backlog[f]) \in Nat /\ DOMAIN backlog[f] = 1 .. Len(backlog[f])
        /\ backlog[f] = <<>> <=> Len(backlog[f]) = 0
        /\ \A i \in 1 .. Len(backlog[f]) : backlog[f][i] \in Packets
    BY <1>1
  <1>3. \A e \in Packets : e.slot \in Slots
    BY DEF Packets
  <1>4. \A i \in 1 .. Len(backlog[f]) : backlog[f][i].slot \in QueuedIn(f)
    BY <1>2 DEF QueuedIn, Elements
  <1>5. \A s \in QueuedIn(f) : \E i \in 1 .. Len(backlog[f]) : backlog[f][i].slot = s
    BY <1>2 DEF QueuedIn, Elements
  <1> QED
    BY <1>1, <1>2, <1>3, <1>4, <1>5 DEF QueuedSlots

\* The queued slots, by flow and place.
LEMMA QueuedAt ==
    ASSUME FlowTypeOK
    PROVE  /\ QueuedSlots \subseteq Slots
           /\ \A s : s \in QueuedSlots <=>
                 \E f \in FlowKeys : \E i \in 1 .. Len(backlog[f]) : backlog[f][i].slot = s
           /\ QueuedSlots # {} <=> \E f \in FlowKeys : backlog[f] # <<>>
  <1>1. \A s \in QueuedSlots : \E f \in FlowKeys : s \in QueuedIn(f)
    BY DEF QueuedSlots
  <1>2. \A s : s \in QueuedSlots <=>
            \E f \in FlowKeys : \E i \in 1 .. Len(backlog[f]) : backlog[f][i].slot = s
    BY <1>1, BacklogPlaces
  <1>3. QueuedSlots \subseteq Slots
    BY <1>2, BacklogPlaces
  <1>4. ASSUME NEW f \in FlowKeys, backlog[f] # <<>>
        PROVE  QueuedSlots # {}
    <2>1. 1 \in 1 .. Len(backlog[f])
      BY <1>4, BacklogPlaces
    <2> QED
      BY <2>1, BacklogPlaces
  <1>5. ASSUME NEW f \in FlowKeys, NEW i \in 1 .. Len(backlog[f])
        PROVE  backlog[f] # <<>>
    BY BacklogPlaces
  <1> QED
    BY <1>2, <1>3, <1>4, <1>5

\* removeHead: the first packet of a flow leaves the queue, and only that.
LEMMA HeadLeaves ==
    ASSUME FlowTypeOK, QueuedOnce, NEW f \in FlowKeys, backlog[f] # <<>>,
           backlog' = [backlog EXCEPT ![f] = Tail(@)]
    PROVE  /\ backlog' \in [FlowKeys -> Seq(Packets)] /\ QueuedOnce'
           /\ Head(backlog[f]).slot \in QueuedSlots /\ Head(backlog[f]) \in Packets
           /\ QueuedSlots' = QueuedSlots \ {Head(backlog[f]).slot}
           /\ backlog'[f] = <<>> <=> Len(backlog[f]) = 1
           /\ \A g \in FlowKeys : g # f => backlog'[g] = backlog[g]
  <1> DEFINE q == backlog[f]
             r == backlog'[f]
  <1>1. /\ q \in Seq(Packets) /\ Len(q) \in Nat \ {0} /\ Tail(q) \in Seq(Packets)
        /\ Len(Tail(q)) = Len(q) - 1 /\ Head(q) = q[1] /\ Head(q) \in Packets
        /\ \A k \in 1 .. Len(Tail(q)) : Tail(q)[k] = q[k + 1]
    BY BacklogPlaces, ListTail
  <1>2. r = Tail(q) /\ \A g \in FlowKeys : g # f => backlog'[g] = backlog[g]
    BY DEF FlowTypeOK
  <1>3. backlog' \in [FlowKeys -> Seq(Packets)]
    BY <1>1 DEF FlowTypeOK
  <1> HIDE DEF q, r
  <1>4. Len(r) = Len(q) - 1 /\ \A k \in 1 .. Len(r) : r[k] = q[k + 1] /\ k + 1 \in 1 .. Len(q)
    BY <1>1, <1>2
  <1>5. 1 \in 1 .. Len(q) /\ q[1].slot \in QueuedSlots
    BY <1>1, BacklogPlaces DEF q
  <1>6. r = <<>> <=> Len(q) = 1
    <2>1. r \in Seq(Packets)
      BY <1>1, <1>2
    <2>2. r = <<>> <=> Len(r) = 0
      BY <2>1
    <2> QED
      BY <1>1, <1>4, <2>2
  <1>7. QueuedOnce'
    <2> SUFFICES ASSUME NEW g \in FlowKeys, NEW h \in FlowKeys,
                        NEW i \in 1 .. Len(backlog'[g]), NEW j \in 1 .. Len(backlog'[h]),
                        backlog'[g][i].slot = backlog'[h][j].slot
                 PROVE  g = h /\ i = j
      BY DEF QueuedOnce
    <2> DEFINE at(k, n) == IF k = f THEN n + 1 ELSE n
    <2>1. /\ at(g, i) \in 1 .. Len(backlog[g]) /\ backlog'[g][i] = backlog[g][at(g, i)]
          /\ at(h, j) \in 1 .. Len(backlog[h]) /\ backlog'[h][j] = backlog[h][at(h, j)]
      BY <1>2, <1>4 DEF q, r
    <2> HIDE DEF at
    <2>2. g = h /\ at(g, i) = at(h, j)
      BY <2>1 DEF QueuedOnce
    <2>3. i \in Int /\ j \in Int
      OBVIOUS
    <2> QED
      BY <2>2, <2>3 DEF at
  <1>8. ASSUME NEW s, s \in QueuedSlots'
        PROVE  s \in QueuedSlots /\ s # q[1].slot
    <2>a. PICK g \in FlowKeys : \E i \in 1 .. Len(backlog'[g]) : backlog'[g][i].slot = s
      <3>1. PICK g \in FlowKeys : \E e \in Elements(backlog'[g]) : e.slot = s
        BY <1>8 DEF QueuedSlots, QueuedIn
      <3>2. backlog'[g] \in Seq(Packets)
        BY <1>3
      <3>3. DOMAIN backlog'[g] = 1 .. Len(backlog'[g])
        BY <3>2
      <3> QED
        BY <3>1, <3>3 DEF Elements
    <2>1. PICK i \in 1 .. Len(backlog'[g]) : backlog'[g][i].slot = s
      BY <2>a
    <2>2. CASE g = f
      <3>1. i \in 1 .. Len(r) /\ i \in Int /\ 1 <= i /\ r[i].slot = s
        BY <2>1, <2>2 DEF r
      <3>2. s = q[i + 1].slot /\ i + 1 \in 1 .. Len(q)
        BY <1>4, <3>1
      <3>3. i + 1 # 1
        BY <3>1
      <3> QED
        BY <1>5, <3>2, <3>3, BacklogPlaces DEF QueuedOnce, q
    <2>3. CASE g # f
      <3>1. s = backlog[g][i].slot /\ i \in 1 .. Len(backlog[g])
        BY <1>2, <2>1, <2>3
      <3> QED
        BY <1>5, <2>3, <3>1, BacklogPlaces DEF QueuedOnce, q
    <2> QED
      BY <2>2, <2>3
  <1>9. ASSUME NEW s \in QueuedSlots, s # q[1].slot
        PROVE  s \in QueuedSlots'
    <2>a. PICK g \in FlowKeys : \E i \in 1 .. Len(backlog[g]) : backlog[g][i].slot = s
      BY QueuedAt
    <2>1. PICK i \in 1 .. Len(backlog[g]) : backlog[g][i].slot = s
      BY <2>a
    <2>2. \E j \in 1 .. Len(backlog'[g]) : backlog'[g][j].slot = s
      <3>1. CASE g = f
        <4>1. i - 1 \in 1 .. Len(r) /\ (i - 1) + 1 = i
          BY <1>1, <1>4, <1>9, <2>1, <3>1 DEF q
        <4>2. r[i - 1] = q[i]
          BY <1>4, <4>1
        <4> QED
          BY <2>1, <3>1, <4>1, <4>2 DEF q, r
      <3>2. CASE g # f
        BY <1>2, <2>1, <3>2
      <3> QED
        BY <3>1, <3>2
    <2>3. backlog'[g] \in Seq(Packets)
      BY <1>3
    <2>4. DOMAIN backlog'[g] = 1 .. Len(backlog'[g])
      BY <2>3
    <2>5. \E e \in Elements(backlog'[g]) : e.slot = s
      BY <2>2, <2>4 DEF Elements
    <2> QED
      BY <2>5 DEF QueuedSlots, QueuedIn
  <1> QED
    BY <1>1, <1>2, <1>3, <1>5, <1>6, <1>7, <1>8, <1>9 DEF q, r

\* enqueue: a packet joins its flow's backlog.
LEMMA TailJoins ==
    ASSUME FlowTypeOK, QueuedOnce, NEW f \in FlowKeys, NEW e \in Packets, e.slot \notin QueuedSlots,
           backlog' = [backlog EXCEPT ![f] = Append(@, e)]
    PROVE  /\ backlog' \in [FlowKeys -> Seq(Packets)] /\ QueuedOnce'
           /\ QueuedSlots' = QueuedSlots \cup {e.slot}
           /\ backlog'[f] # <<>>
           /\ \A g \in FlowKeys : g # f => backlog'[g] = backlog[g]
  <1> DEFINE q == backlog[f]
             r == backlog'[f]
  <1>1. q \in Seq(Packets) /\ Len(q) \in Nat /\ Append(q, e) \in Seq(Packets)
    BY BacklogPlaces
  <1>2. r = Append(q, e) /\ \A g \in FlowKeys : g # f => backlog'[g] = backlog[g]
    BY DEF FlowTypeOK
  <1>3. backlog' \in [FlowKeys -> Seq(Packets)]
    BY <1>1 DEF FlowTypeOK
  <1>4. Len(r) = Len(q) + 1 /\ r[Len(q) + 1] = e /\ \A k \in 1 .. Len(q) : r[k] = q[k]
    BY <1>1, <1>2
  <1>5. r # <<>>
    BY <1>1, <1>4
  <1>6. \A g \in FlowKeys : \A i \in 1 .. Len(backlog[g]) : backlog[g][i].slot # e.slot
    BY BacklogPlaces
  <1> HIDE DEF q, r
  <1>7. \A g \in FlowKeys : \A i \in 1 .. Len(backlog'[g]) :
            \/ i \in 1 .. Len(backlog[g]) /\ backlog'[g][i] = backlog[g][i]
            \/ g = f /\ i = Len(q) + 1 /\ backlog'[g][i] = e
    BY <1>1, <1>2, <1>4 DEF q, r
  <1>8. QueuedOnce'
    <2> SUFFICES ASSUME NEW g \in FlowKeys, NEW h \in FlowKeys,
                        NEW i \in 1 .. Len(backlog'[g]), NEW j \in 1 .. Len(backlog'[h]),
                        backlog'[g][i].slot = backlog'[h][j].slot
                 PROVE  g = h /\ i = j
      BY DEF QueuedOnce
    <2> QED
      BY <1>6, <1>7 DEF QueuedOnce
  <1>9. ASSUME NEW s, s \in QueuedSlots'
        PROVE  s \in QueuedSlots \cup {e.slot}
    <2>a. PICK g \in FlowKeys : \E i \in 1 .. Len(backlog'[g]) : backlog'[g][i].slot = s
      <3>1. PICK g \in FlowKeys : \E x \in Elements(backlog'[g]) : x.slot = s
        BY <1>9 DEF QueuedSlots, QueuedIn
      <3>2. backlog'[g] \in Seq(Packets)
        BY <1>3
      <3>3. DOMAIN backlog'[g] = 1 .. Len(backlog'[g])
        BY <3>2
      <3> QED
        BY <3>1, <3>3 DEF Elements
    <2>1. PICK i \in 1 .. Len(backlog'[g]) : backlog'[g][i].slot = s
      BY <2>a
    <2> QED
      BY <1>7, <2>1, BacklogPlaces
  <1>10. ASSUME NEW s \in QueuedSlots \cup {e.slot}
         PROVE  s \in QueuedSlots'
    <2>1. PICK g \in FlowKeys : \E j \in 1 .. Len(backlog'[g]) : backlog'[g][j].slot = s
      <3>1. CASE s = e.slot
        <4>1. Len(q) + 1 \in 1 .. Len(r)
          BY <1>1, <1>4
        <4> QED
          BY <1>4, <3>1, <4>1 DEF r
      <3>2. CASE s \in QueuedSlots
        <4>a. PICK g \in FlowKeys : \E i \in 1 .. Len(backlog[g]) : backlog[g][i].slot = s
          BY <3>2, QueuedAt
        <4>1. PICK i \in 1 .. Len(backlog[g]) : backlog[g][i].slot = s
          BY <4>a
        <4>2. i \in 1 .. Len(backlog'[g]) /\ backlog'[g][i] = backlog[g][i]
          BY <1>1, <1>2, <1>4, <4>1 DEF q, r
        <4> QED
          BY <4>1, <4>2
      <3> QED
        BY <3>1, <3>2
    <2>2. backlog'[g] \in Seq(Packets)
      BY <1>3
    <2>3. DOMAIN backlog'[g] = 1 .. Len(backlog'[g])
      BY <2>2
    <2> QED
      BY <2>1, <2>3 DEF QueuedSlots, QueuedIn, Elements
  <1> QED
    BY <1>2, <1>3, <1>5, <1>8, <1>9, <1>10 DEF r
-----------------------------------------------------------------------------
(* The flow lists. *)

\* demoteNewFlow: a new flow goes to the old list, or is about to.
LEMMA DemoteMoves ==
    ASSUME Listed, NEW f \in FlowKeys, f \notin Elements(oldFlows), demoted = NoFlow, Demote(f)
    PROVE  /\ Listed' /\ oldDue' = oldDue
           /\ Elements(newFlows') = Elements(newFlows) \ {f} /\ Elements(detached') = Elements(detached)
           /\ \/ demoted' = f /\ Elements(oldFlows') = Elements(oldFlows)
              \/ demoted' = NoFlow /\ Elements(oldFlows') = Elements(oldFlows) \cup {f}
  <1>1. /\ newFlows' \in Seq(FlowKeys) /\ Distinct(newFlows')
        /\ Elements(newFlows') = Elements(newFlows) \ {f}
    BY ListWithout DEF Demote, Listed
  <1>2. detached' = detached /\ oldDue' = oldDue
    BY DEF Demote
  <1>3. CASE NeedsOldTurn
    BY <1>1, <1>2, <1>3 DEF Demote, Listed
  <1>4. CASE ~NeedsOldTurn
    <2>1. oldFlows' = Append(oldFlows, f) /\ demoted' = NoFlow
      BY <1>4 DEF Demote
    <2>2. /\ oldFlows' \in Seq(FlowKeys) /\ Distinct(oldFlows')
          /\ Elements(oldFlows') = Elements(oldFlows) \cup {f}
      BY <2>1, ListAppend DEF Listed
    <2> QED
      BY <1>1, <1>2, <2>1, <2>2 DEF Listed
  <1> QED
    BY <1>3, <1>4

\* An exhausted flow goes behind the other old flows.
LEMMA TailMoves ==
    ASSUME Listed, NEW f \in FlowKeys, MoveToOldTail(f)
    PROVE  /\ Listed' /\ oldDue' = oldDue \ {f} /\ demoted' = demoted
           /\ Elements(newFlows') = Elements(newFlows) \ {f}
           /\ Elements(oldFlows') = Elements(oldFlows) \cup {f}
           /\ Elements(detached') = Elements(detached)
  <1>1. /\ newFlows' \in Seq(FlowKeys) /\ Distinct(newFlows')
        /\ Elements(newFlows') = Elements(newFlows) \ {f}
    BY ListWithout DEF MoveToOldTail, Listed
  <1> DEFINE q == Without(oldFlows, f)
  <1>2. q \in Seq(FlowKeys) /\ Distinct(q) /\ Elements(q) = Elements(oldFlows) \ {f}
    BY ListWithout DEF Listed
  <1>3. oldFlows' = Append(q, f)
    BY DEF MoveToOldTail
  <1> HIDE DEF q
  <1>4. /\ oldFlows' \in Seq(FlowKeys) /\ Distinct(oldFlows')
        /\ Elements(oldFlows') = Elements(q) \cup {f}
    BY <1>2, <1>3, ListAppend
  <1> QED
    BY <1>1, <1>2, <1>4 DEF MoveToOldTail, Listed

\* A flow leaves the ready lists for the detached one.
LEMMA DetachMoves ==
    ASSUME Listed, NEW f \in FlowKeys, f \notin Elements(detached),
           newFlows' = Without(newFlows, f), oldFlows' = Without(oldFlows, f),
           detached' = Append(detached, f)
    PROVE  /\ Listed' /\ Elements(newFlows') = Elements(newFlows) \ {f}
           /\ Elements(oldFlows') = Elements(oldFlows) \ {f}
           /\ Elements(detached') = Elements(detached) \cup {f}
  <1>1. /\ newFlows' \in Seq(FlowKeys) /\ Distinct(newFlows')
        /\ Elements(newFlows') = Elements(newFlows) \ {f}
    BY ListWithout DEF Listed
  <1>2. /\ oldFlows' \in Seq(FlowKeys) /\ Distinct(oldFlows')
        /\ Elements(oldFlows') = Elements(oldFlows) \ {f}
    BY ListWithout DEF Listed
  <1>3. /\ detached' \in Seq(FlowKeys) /\ Distinct(detached')
        /\ Elements(detached') = Elements(detached) \cup {f}
    BY ListAppend DEF Listed
  <1> QED
    BY <1>1, <1>2, <1>3 DEF Listed

\* The last packet of a ready flow was displaced: a new flow keeps its pass
\* through the old list, any other is detached.
LEMMA EmptiedMoves ==
    ASSUME FlowTypeOK, ListInv, NEW f \in Elements(newFlows) \cup Elements(oldFlows), EmptiedLists(f)
    PROVE  /\ Listed' /\ oldDue' = oldDue \ {f}
           /\ Elements(newFlows') = Elements(newFlows) \ {f}
           /\ \/ /\ Elements(oldFlows') = Elements(oldFlows) \cup {f}
                 /\ Elements(detached') = Elements(detached)
              \/ /\ Elements(oldFlows') = Elements(oldFlows) \ {f}
                 /\ Elements(detached') = Elements(detached) \cup {f}
  <1>1. f \in FlowKeys /\ f \notin Elements(detached)
    BY ListMembers DEF ListInv, Listed
  <1>2. CASE f \in Elements(newFlows) /\ f \notin oldDue
    <2>1. /\ newFlows' = Without(newFlows, f) /\ oldFlows' = Append(oldFlows, f)
          /\ UNCHANGED <<detached, oldDue>>
      BY <1>2 DEF EmptiedLists
    <2>2. /\ newFlows' \in Seq(FlowKeys) /\ Distinct(newFlows')
          /\ Elements(newFlows') = Elements(newFlows) \ {f}
      BY <2>1, ListWithout DEF ListInv, Listed
    <2>3. /\ oldFlows' \in Seq(FlowKeys) /\ Distinct(oldFlows')
          /\ Elements(oldFlows') = Elements(oldFlows) \cup {f}
      BY <1>1, <1>2, <2>1, ListAppend DEF ListInv, Listed
    <2> QED
      BY <1>2, <2>1, <2>2, <2>3 DEF ListInv, Listed
  <1>3. CASE ~(f \in Elements(newFlows) /\ f \notin oldDue)
    <2>1. /\ newFlows' = Without(newFlows, f) /\ oldFlows' = Without(oldFlows, f)
          /\ detached' = Append(detached, f) /\ oldDue' = oldDue \ {f}
      BY <1>3 DEF EmptiedLists
    <2> QED
      BY <1>1, <2>1, DetachMoves DEF ListInv
  <1> QED
    BY <1>2, <1>3

\* One turn of scheduleOldFlowTurn moves the first old flow, and at the end the
\* demoted one.
LEMMA OldTurnMoves ==
    ASSUME FlowTypeOK, ListInv, demoted # NoFlow, OldFlowTurn
    PROVE  /\ Listed'
           /\ \/ /\ demoted' = NoFlow /\ oldDue' = oldDue /\ UNCHANGED newFlows
                 /\ Elements(oldFlows') = {demoted} /\ Elements(oldFlows) = {} /\ UNCHANGED detached
              \/ \E f \in Elements(oldFlows) :
                    /\ backlog[f] = <<>> /\ demoted' = demoted /\ oldDue' = oldDue /\ UNCHANGED newFlows
                    /\ Elements(oldFlows') = Elements(oldFlows) \ {f}
                    /\ Elements(detached') = Elements(detached) \cup {f}
              \/ /\ demoted' = demoted /\ oldDue' = oldDue /\ UNCHANGED <<newFlows, detached>>
                 /\ Elements(oldFlows') = Elements(oldFlows)
              \/ \E f \in Elements(oldFlows) :
                    /\ backlog[f] # <<>> /\ demoted' = NoFlow /\ oldDue' = oldDue \cup {f}
                    /\ Elements(newFlows') = Elements(newFlows) \cup {f}
                    /\ Elements(oldFlows') = (Elements(oldFlows) \ {f}) \cup {demoted}
                    /\ UNCHANGED detached
  <1>a. Listed /\ demoted \in FlowKeys /\ demoted \notin Elements(oldFlows)
    BY DEF ListInv, FlowTypeOK, Known
  <1>1. CASE oldFlows = <<>>
    <2>1. /\ oldFlows' = <<demoted>> /\ demoted' = NoFlow /\ UNCHANGED <<newFlows, detached, oldDue>>
      BY <1>1 DEF OldFlowTurn
    <2>2. oldFlows' = Append(oldFlows, demoted) /\ Elements(oldFlows) = {}
      BY <1>1, <2>1 DEF Elements
    <2>3. /\ oldFlows' \in Seq(FlowKeys) /\ Distinct(oldFlows')
          /\ Elements(oldFlows') = Elements(oldFlows) \cup {demoted}
      BY <1>a, <2>2, ListAppend DEF Listed
    <2> QED
      BY <1>a, <2>1, <2>2, <2>3 DEF Listed
  <1>2. CASE oldFlows # <<>>
    <2> DEFINE f == Head(oldFlows)
               q == Tail(oldFlows)
    <2>1. /\ f \in FlowKeys /\ f \in Elements(oldFlows) /\ q \in Seq(FlowKeys) /\ Distinct(q)
          /\ Elements(q) = Elements(oldFlows) \ {f}
      BY <1>a, <1>2, ListTail DEF Listed
    <2>2. f \notin Elements(newFlows) /\ f \notin Elements(detached)
      BY <2>1 DEF ListInv
    <2>3. \/ /\ backlog[f] = <<>> /\ oldFlows' = q /\ detached' = Append(detached, f)
             /\ UNCHANGED <<newFlows, oldDue, demoted>>
          \/ oldFlows' = Append(q, f) /\ UNCHANGED <<newFlows, detached, oldDue, demoted>>
          \/ /\ backlog[f] # <<>> /\ oldFlows' = Append(q, demoted) /\ newFlows' = Append(newFlows, f)
             /\ oldDue' = oldDue \cup {f} /\ demoted' = NoFlow /\ UNCHANGED detached
      BY <1>2 DEF OldFlowTurn
    <2> HIDE DEF f, q
    <2>4. CASE /\ backlog[f] = <<>> /\ oldFlows' = q /\ detached' = Append(detached, f)
               /\ UNCHANGED <<newFlows, oldDue, demoted>>
      <3>1. /\ detached' \in Seq(FlowKeys) /\ Distinct(detached')
            /\ Elements(detached') = Elements(detached) \cup {f}
        BY <1>a, <2>1, <2>2, <2>4, ListAppend DEF Listed
      <3> QED
        BY <1>a, <2>1, <2>4, <3>1 DEF Listed
    <2>5. CASE oldFlows' = Append(q, f) /\ UNCHANGED <<newFlows, detached, oldDue, demoted>>
      <3>1. /\ oldFlows' \in Seq(FlowKeys) /\ Distinct(oldFlows')
            /\ Elements(oldFlows') = Elements(q) \cup {f}
        BY <2>1, <2>5, ListAppend
      <3> QED
        BY <1>a, <2>1, <2>5, <3>1 DEF Listed
    <2>6. CASE /\ backlog[f] # <<>> /\ oldFlows' = Append(q, demoted) /\ newFlows' = Append(newFlows, f)
               /\ oldDue' = oldDue \cup {f} /\ demoted' = NoFlow /\ UNCHANGED detached
      <3>1. /\ oldFlows' \in Seq(FlowKeys) /\ Distinct(oldFlows')
            /\ Elements(oldFlows') = Elements(q) \cup {demoted}
        BY <1>a, <2>1, <2>6, ListAppend
      <3>2. /\ newFlows' \in Seq(FlowKeys) /\ Distinct(newFlows')
            /\ Elements(newFlows') = Elements(newFlows) \cup {f}
        BY <1>a, <2>1, <2>2, <2>6, ListAppend DEF Listed
      <3> QED
        BY <1>a, <2>1, <2>6, <3>1, <3>2 DEF Listed
    <2> QED
      BY <2>3, <2>4, <2>5, <2>6
  <1> QED
    BY <1>1, <1>2

\* The flow the dequeue loop looks at is on a ready list.
LEMMA SelectedIsReady ==
    ASSUME TypeOK, LoopInv, ListInv, Looking
    PROVE  /\ mu \in Threads /\ held[mu] = NoSlot /\ demoted = NoFlow /\ QueuedSlots # {}
           /\ Selected \in FlowKeys
           /\ Selected \in Elements(newFlows) \cup Elements(oldFlows)
           /\ Selected \notin Elements(newFlows) => newFlows = <<>>
  <1>1. mu \in Threads /\ held[mu] = NoSlot /\ demoted = NoFlow /\ QueuedSlots # {}
    BY DEF TypeOK, SlotTypeOK, LoopInv, Looking
  <1>2. CASE newFlows # <<>>
    BY <1>1, <1>2, ListTail DEF Selected, ListInv, Listed
  <1>3. CASE newFlows = <<>>
    <2>1. PICK f \in FlowKeys : backlog[f] # <<>>
      BY <1>1, QueuedAt DEF TypeOK
    <2>2. f \in Elements(newFlows) \cup Elements(oldFlows)
      BY <1>1, <2>1, SlotsFinite DEF ListInv
    <2>3. oldFlows # <<>>
      BY <1>3, <2>2 DEF Elements
    <2> QED
      BY <1>1, <1>3, <2>3, ListTail DEF Selected, ListInv, Listed
  <1> QED
    BY <1>2, <1>3

\* acquireFlow finds a flow object to take over: a publisher that holds a slot
\* leaves a flow without packets when every object is in use.
LEMMA EvictableExists ==
    ASSUME TypeOK, SlotInv, ListInv, StoreInv, demoted = NoFlow, StoreFull,
           NEW p \in Threads, held[p] # NoSlot
    PROVE  /\ Evictable \in FlowKeys /\ backlog[Evictable] = <<>>
           /\ detached # <<>> => Evictable \in Elements(detached)
           /\ detached = <<>> => Evictable \in Elements(oldFlows)
  <1>a. Listed /\ FlowTypeOK
    BY DEF ListInv, TypeOK
  <1>1. CASE detached # <<>>
    <2>1. Evictable = Head(detached)
      BY <1>1 DEF Evictable
    <2>2. Evictable \in FlowKeys /\ Evictable \in Elements(detached)
      BY <1>a, <1>1, <2>1, ListTail DEF Listed
    <2>3. Evictable \notin Elements(newFlows) \cup Elements(oldFlows) \cup {demoted}
      BY <2>2, SlotsFinite DEF ListInv
    <2> QED
      BY <1>1, <2>2, <2>3 DEF ListInv
  <1>2. CASE detached = <<>> /\ EmptyOld # {}
    <2> DEFINE R == OpToRel(<, Nat)
    <2>1. DOMAIN oldFlows = 1 .. Len(oldFlows) /\ Len(oldFlows) \in Nat /\ EmptyOld \subseteq Nat
      BY <1>a DEF Listed, EmptyOld
    <2>2. \A x, y \in Nat : x < y => <<x, y>> \in R
      BY DEF OpToRel
    <2>3. IsWellFoundedOn(R, Nat)
      BY NatLessThanWellFounded
    <2> HIDE DEF R
    <2>4. PICK x \in EmptyOld : \A y \in EmptyOld : ~ (<<y, x>> \in R)
      BY <1>2, <2>1, <2>3, WFMin
    <2>5. ASSUME NEW y \in EmptyOld
          PROVE  x <= y
      <3>1. x \in Nat /\ y \in Nat
        BY <2>1
      <3>2. ~(y < x)
        BY <2>2, <2>4, <3>1
      <3> QED
        BY <3>1, <3>2
    <2>6. Min(EmptyOld) \in EmptyOld
      BY <2>4, <2>5 DEF Min
    <2>7. Evictable = oldFlows[Min(EmptyOld)]
      BY <1>2 DEF Evictable
    <2>8. backlog[Evictable] = <<>> /\ Evictable \in Elements(oldFlows)
      BY <2>6, <2>7 DEF EmptyOld, Elements
    <2>9. Evictable \in FlowKeys
      BY <1>a, <2>8, ListMembers DEF Listed
    <2> QED
      BY <1>2, <2>8, <2>9
  <1>3. CASE detached = <<>> /\ EmptyOld = {}
    <2>1. Elements(detached) = {}
      BY <1>3 DEF Elements
    <2>2. \A f \in Elements(oldFlows) : backlog[f] # <<>>
      BY <1>3 DEF EmptyOld, Elements
    <2>3. \A f \in Known : f \in FlowKeys /\ backlog[f] # <<>>
      BY <1>a, <2>1, <2>2, ListMembers DEF ListInv, Known, Listed
    <2> DEFINE T == Slots \ {held[p]}
               h == [f \in Known |-> backlog[f][1].slot]
    <2>4. \A f \in Known : /\ 1 \in 1 .. Len(backlog[f]) /\ backlog[f][1].slot \in Slots
                           /\ backlog[f][1].slot \in QueuedSlots
      <3> SUFFICES ASSUME NEW f \in Known
                   PROVE  /\ 1 \in 1 .. Len(backlog[f]) /\ backlog[f][1].slot \in Slots
                          /\ backlog[f][1].slot \in QueuedSlots
        OBVIOUS
      <3>1. 1 \in 1 .. Len(backlog[f])
        BY <1>a, <2>3, BacklogPlaces
      <3> QED
        BY <1>a, <2>3, <3>1, BacklogPlaces
    <2>5. held[p] \notin QueuedSlots /\ held[p] \in Slots
      BY DEF SlotInv, TypeOK, SlotTypeOK
    <2>6. h \in [Known -> T]
      BY <2>4, <2>5
    <2>7. \A f, g \in Known : h[f] = h[g] => f = g
      BY <2>3, <2>4 DEF SlotInv, QueuedOnce
    <2> HIDE DEF h
    <2>8. h \in Injection(Known, T)
      BY <2>6, <2>7 DEF Injection, IsInjective
    <2>9. IsFiniteSet(Slots) /\ IsFiniteSet(T) /\ Cardinality(T) = Cardinality(Slots) - 1
      BY <2>5, SlotsFinite, FS_RemoveElement
    <2>10. Cardinality(Known) <= Cardinality(T)
      BY <2>8, <2>9, FS_Injection
    <2>11. Cardinality(Slots) \in Nat
      BY <2>9, FS_CardinalityType
    <2> QED
      BY <2>9, <2>10, <2>11 DEF StoreFull
  <1> QED
    BY <1>1, <1>2, <1>3

\* The lists after a packet of flow f was published: reactivateFlow and
\* acquireFlow give f a place on a ready list and take one only from a flow
\* without packets.
LEMMA ActivateMoves ==
    ASSUME TypeOK, SlotInv, ListInv, StoreInv, demoted = NoFlow, NEW p \in Threads, held[p] # NoSlot,
           NEW f \in FlowKeys, ActivateFlow(f), UNCHANGED demoted
    PROVE  /\ Listed' /\ credit' \in [FlowKeys -> Int] /\ f \in Elements(newFlows') \cup Elements(oldFlows')
           /\ Elements(newFlows) \subseteq Elements(newFlows')
           /\ Elements(newFlows') \subseteq Elements(newFlows) \cup {f}
           /\ Elements(newFlows') \cap Elements(oldFlows') = {}
           /\ Elements(newFlows') \cap Elements(detached') = {}
           /\ Elements(oldFlows') \cap Elements(detached') = {}
           /\ \A g \in Elements(oldFlows) : backlog[g] # <<>> => g \in Elements(oldFlows')
           /\ StoreInv'
  <1>a. /\ Listed /\ FlowTypeOK /\ credit \in [FlowKeys -> Int]
        /\ Elements(newFlows) \cap Elements(oldFlows) = {}
        /\ Elements(newFlows) \cap Elements(detached) = {}
        /\ Elements(oldFlows) \cap Elements(detached) = {}
    BY DEF ListInv, TypeOK, FlowTypeOK
  <1>b. Quantum \in Int /\ InitialCredit \in Int
    BY CreditPositive
  <1>c. Stored = Known /\ Stored' = Known' /\ IsFiniteSet(Known) /\ Cardinality(Known) <= Cardinality(Slots)
    BY DEF Stored, StoreInv
  <1>1. CASE /\ f \in Elements(newFlows) \cup Elements(oldFlows)
             /\ UNCHANGED <<newFlows, oldFlows, detached, credit>>
    BY <1>a, <1>c, <1>1 DEF Listed, StoreInv, Known
  <1>2. CASE /\ f \in Elements(detached)
             /\ newFlows' = Append(newFlows, f) /\ detached' = Without(detached, f)
             /\ credit' \in {credit, [credit EXCEPT ![f] = IF @ < Quantum THEN Quantum ELSE @]}
             /\ UNCHANGED oldFlows
    <2>1. /\ newFlows' \in Seq(FlowKeys) /\ Distinct(newFlows')
          /\ Elements(newFlows') = Elements(newFlows) \cup {f}
      BY <1>a, <1>2, ListAppend DEF Listed
    <2>2. /\ detached' \in Seq(FlowKeys) /\ Distinct(detached')
          /\ Elements(detached') = Elements(detached) \ {f}
      BY <1>a, <1>2, ListWithout DEF Listed
    <2>3. credit' \in [FlowKeys -> Int]
      BY <1>a, <1>b, <1>2
    <2>4. Known' = Known
      BY <1>2, <2>1, <2>2 DEF Known
    <2>5. Listed'
      BY <1>a, <1>2, <2>1, <2>2 DEF Listed
    <2> QED
      BY <1>a, <1>c, <1>2, <2>1, <2>2, <2>3, <2>4, <2>5 DEF StoreInv
  <1>3. CASE /\ f \notin Known
             /\ newFlows' = Append(newFlows, f)
             /\ credit' = [credit EXCEPT ![f] = InitialCredit]
             /\ IF StoreFull
                THEN /\ detached' = Without(detached, Evictable)
                     /\ oldFlows' = IF detached = <<>> THEN Without(oldFlows, Evictable) ELSE oldFlows
                ELSE UNCHANGED <<oldFlows, detached>>
    <2>1. /\ newFlows' \in Seq(FlowKeys) /\ Distinct(newFlows')
          /\ Elements(newFlows') = Elements(newFlows) \cup {f}
      BY <1>a, <1>3, ListAppend DEF Listed, Known
    <2>2. credit' \in [FlowKeys -> Int]
      BY <1>a, <1>b, <1>3
    <2>3. Cardinality(Slots) \in Nat /\ Cardinality(Known) \in Nat
      BY <1>c, SlotsFinite, FS_CardinalityType
    <2>4. CASE ~StoreFull
      <3>1. Known' = Known \cup {f} /\ Listed'
        BY <1>a, <1>3, <2>1, <2>4 DEF Known, Listed
      <3>2. Cardinality(Known) < Cardinality(Slots)
        BY <1>c, <2>3, <2>4 DEF StoreFull
      <3>3. IsFiniteSet(Known') /\ Cardinality(Known') = Cardinality(Known) + 1
        BY <1>c, <1>3, <3>1, FS_AddElement
      <3>4. StoreInv'
        BY <1>c, <2>3, <3>2, <3>3 DEF StoreInv
      <3> QED
        BY <1>a, <1>3, <2>1, <2>2, <2>4, <3>1, <3>4 DEF Known
    <2>5. CASE StoreFull
      <3> DEFINE e == Evictable
      <3>1. /\ e \in FlowKeys /\ backlog[e] = <<>>
            /\ detached # <<>> => e \in Elements(detached)
            /\ detached = <<>> => e \in Elements(oldFlows)
        BY <2>5, EvictableExists
      <3>2. /\ detached' = Without(detached, e)
            /\ oldFlows' = IF detached = <<>> THEN Without(oldFlows, e) ELSE oldFlows
        BY <1>3, <2>5
      <3> HIDE DEF e
      <3>3. /\ detached' \in Seq(FlowKeys) /\ Distinct(detached')
            /\ Elements(detached') = Elements(detached) \ {e}
        BY <1>a, <3>2, ListWithout DEF Listed
      <3>4. /\ oldFlows' \in Seq(FlowKeys) /\ Distinct(oldFlows')
            /\ Elements(oldFlows') = Elements(oldFlows) \ {e}
        <4>1. CASE detached = <<>>
          BY <1>a, <3>2, <4>1, ListWithout DEF Listed
        <4>2. CASE detached # <<>>
          BY <1>a, <3>1, <3>2, <4>2 DEF Listed
        <4> QED
          BY <4>1, <4>2
      <3>5. e \in Known /\ e \notin Elements(newFlows)
        BY <1>a, <3>1 DEF Known
      <3>6. Known' = (Known \ {e}) \cup {f} /\ Listed'
        BY <2>1, <3>3, <3>4, <3>5 DEF Known, Listed
      <3>7. IsFiniteSet(Known \ {e}) /\ Cardinality(Known \ {e}) = Cardinality(Known) - 1
        BY <1>c, <3>5, FS_RemoveElement
      <3>8. IsFiniteSet(Known') /\ Cardinality(Known') = Cardinality(Known) - 1 + 1
        BY <1>3, <3>6, <3>7, FS_AddElement
      <3>9. StoreInv'
        BY <1>c, <2>3, <3>8 DEF StoreInv
      <3> QED
        BY <1>a, <1>3, <2>1, <2>2, <3>1, <3>3, <3>4, <3>6, <3>9 DEF Known
    <2> QED
      BY <2>4, <2>5
  <1> QED
    BY <1>1, <1>2, <1>3 DEF ActivateFlow
-----------------------------------------------------------------------------
(* The steps. *)

\* A step that leaves the scheduler's lists and backlogs alone.
LEMMA FlowFrame ==
    ASSUME UNCHANGED <<flowVars, demoted>>
    PROVE  /\ QueuedSlots' = QueuedSlots /\ (FlowTypeOK' <=> FlowTypeOK) /\ (QueuedOnce' <=> QueuedOnce)
           /\ (ListInv' <=> ListInv) /\ (StoreInv' <=> StoreInv)
  <1>1. UNCHANGED <<newFlows, oldFlows, detached, oldDue, backlog, credit, demoted>>
    BY DEF flowVars
  <1>2. QueuedSlots' = QueuedSlots
    BY <1>1 DEF QueuedSlots, QueuedIn
  <1>3. (FlowTypeOK' <=> FlowTypeOK) /\ (QueuedOnce' <=> QueuedOnce)
    BY <1>1 DEF FlowTypeOK, QueuedOnce
  <1>4. (ListInv' <=> ListInv) /\ (StoreInv' <=> StoreInv)
    BY <1>1 DEF ListInv, Listed, Known, StoreInv, Stored
  <1> QED
    BY <1>2, <1>3, <1>4

\* Where a goroutine of each kind may go without a slot.
MayGo(t, label) ==
    /\ t \in Publishers => label \in {"idle", "reserve", "failed", "retry", "displace", "published", "discard"}
    /\ t \in Readers => label \in {"idle", "try", "wait", "batch"}
    /\ t \in Closers => label \in {"idle", "closing", "discard"}

\* A goroutine outside the dequeue loop that holds no slot goes on.
LEMMA ControlPreserves ==
    ASSUME IndInv, NEW t \in Threads, t # mu, NEW label, MayGo(t, label), Goto(t, label),
           pc[t] \notin {"reserved", "copy", "drop"},
           UNCHANGED <<free, held, flowVars, mu, demoted>>,
           ready' \in BOOLEAN, closing' \in BOOLEAN, closed' \in BOOLEAN,
           Announced', ClosedQueueIsEmpty'
    PROVE  IndInv'
  <1>a. TypeOK /\ PlaceInv /\ LoopInv /\ SlotInv /\ ListInv /\ StoreInv
    BY DEF IndInv
  <1>b. /\ QueuedSlots' = QueuedSlots /\ FlowTypeOK' /\ QueuedOnce' /\ ListInv' /\ StoreInv'
    BY <1>a, FlowFrame DEF TypeOK, SlotInv
  <1>1. \A u \in Threads : pc'[u] = IF u = t THEN label ELSE pc[u]
    BY <1>a DEF Goto, TypeOK, SlotTypeOK
  <1>2. /\ label \notin {"reserved", "copy", "drop"}
        /\ label \in {"idle", "reserve", "failed", "retry", "displace", "published", "discard", "try",
                      "batch", "wait", "closing"}
    BY DEF MayGo, Threads
  <1>3. TypeOK'
    BY <1>a, <1>b, <1>2 DEF TypeOK, SlotTypeOK, Goto
  <1>4. PlaceInv'
    BY <1>a, <1>1, <1>2 DEF PlaceInv, MayGo, Threads
  <1>5. LoopInv'
    BY <1>a, <1>b, <1>1 DEF LoopInv, TypeOK, SlotTypeOK
  <1>6. SlotInv'
    BY <1>a, <1>b DEF SlotInv
  <1> QED
    BY <1>b, <1>3, <1>4, <1>5, <1>6 DEF IndInv

\* A goroutine in the dequeue loop is at its beginning or has served a packet.
LEMMA OutsideLoop ==
    ASSUME LoopInv, NEW t \in Threads, pc[t] \notin {"try", "batch", "discard", "copy", "drop"}
    PROVE  t # mu
  BY ThreadsDisjoint DEF LoopInv

\* The starts of calls, failed reservations, and the check after a publication.
LEMMA PublisherControl ==
    ASSUME IndInv, NEW p \in Publishers,
           BeginWrite(p) \/ ReserveFails(p) \/ RejectCandidate(p) \/ CheckClosed(p)
    PROVE  IndInv'
  <1>a. TypeOK /\ LoopInv /\ Announced /\ ClosedQueueIsEmpty /\ p \in Threads /\ p \notin Readers \cup Closers
    BY ThreadsDisjoint DEF IndInv, Threads
  <1>1. PICK label \in {"idle", "reserve", "failed", "retry", "displace", "discard"} :
            /\ Goto(p, label) /\ pc[p] \in {"idle", "reserve", "failed", "retry", "displace", "published"}
            /\ pc[p] = "published" /\ closed => label = "discard"
            /\ UNCHANGED <<free, held, flowVars, ready, mu, demoted, closing, closed>>
    BY DEF BeginWrite, ReserveFails, RejectCandidate, CheckClosed
  <1>2. QueuedSlots' = QueuedSlots
    BY <1>1, FlowFrame
  <1>3. \A u \in Threads : pc'[u] = IF u = p THEN label ELSE pc[u]
    BY <1>a, <1>1 DEF Goto, TypeOK, SlotTypeOK
  <1>4. Announced'
    BY <1>a, <1>1, <1>2, <1>3 DEF Announced, Threads
  <1>5. ClosedQueueIsEmpty'
    BY <1>a, <1>1, <1>2, <1>3 DEF ClosedQueueIsEmpty, Threads
  <1>6. p # mu /\ MayGo(p, label)
    BY <1>a, <1>1, OutsideLoop DEF MayGo
  <1> QED
    BY <1>a, <1>1, <1>4, <1>5, <1>6, ControlPreserves DEF TypeOK

\* Read starts, is woken or is cancelled.
LEMMA ReaderControl ==
    ASSUME IndInv, NEW r \in Readers, ReaderStep(r)
    PROVE  IndInv'
  <1>a. TypeOK /\ LoopInv /\ Announced /\ ClosedQueueIsEmpty /\ r \in Threads /\ r \notin Publishers \cup Closers
    BY ThreadsDisjoint DEF IndInv, Threads
  <1>1. PICK label \in {"idle", "try"} :
            /\ Goto(r, label) /\ pc[r] \in {"idle", "wait"} /\ ready' \in BOOLEAN
            /\ label = "try" \/ ready' = ready
            /\ UNCHANGED <<free, held, flowVars, mu, demoted, closing, closed>>
    BY <1>a DEF ReaderStep, BeginRead, TakeReady, ReadCancelled, TypeOK
  <1>2. QueuedSlots' = QueuedSlots
    BY <1>1, FlowFrame
  <1>3. \A u \in Threads : pc'[u] = IF u = r THEN label ELSE pc[u]
    BY <1>a, <1>1 DEF Goto, TypeOK, SlotTypeOK
  <1>4. Announced'
    BY <1>a, <1>1, <1>2, <1>3 DEF Announced, Threads
  <1>5. ClosedQueueIsEmpty'
    BY <1>a, <1>1, <1>2, <1>3 DEF ClosedQueueIsEmpty, Threads
  <1>6. r # mu /\ MayGo(r, label)
    BY <1>a, <1>1, OutsideLoop DEF MayGo
  <1> QED
    BY <1>a, <1>1, <1>4, <1>5, <1>6, ControlPreserves DEF TypeOK

\* Stack.Close and packetQueue.close.
LEMMA CloserControl ==
    ASSUME IndInv, NEW c \in Closers, BeginClose(c) \/ CloseQueue(c)
    PROVE  IndInv'
  <1>a. TypeOK /\ LoopInv /\ Announced /\ ClosedQueueIsEmpty /\ c \in Threads /\ c \notin Publishers \cup Readers
    BY ThreadsDisjoint DEF IndInv, Threads
  <1>1. PICK label \in {"closing", "discard"} :
            /\ Goto(c, label) /\ pc[c] \in {"idle", "closing"} /\ ready' = ready
            /\ closing' \in BOOLEAN /\ closed' \in BOOLEAN
            /\ label = "discard" \/ closed' = closed
            /\ UNCHANGED <<free, held, flowVars, mu, demoted>>
    BY <1>a DEF BeginClose, CloseQueue, TypeOK
  <1>2. QueuedSlots' = QueuedSlots
    BY <1>1, FlowFrame
  <1>3. \A u \in Threads : pc'[u] = IF u = c THEN label ELSE pc[u]
    BY <1>a, <1>1 DEF Goto, TypeOK, SlotTypeOK
  <1>4. Announced'
    BY <1>a, <1>1, <1>2, <1>3 DEF Announced, Threads
  <1>5. ClosedQueueIsEmpty'
    BY <1>a, <1>1, <1>2, <1>3 DEF ClosedQueueIsEmpty, Threads
  <1>6. c # mu /\ MayGo(c, label)
    BY <1>a, <1>1, OutsideLoop DEF MayGo
  <1> QED
    BY <1>a, <1>1, <1>4, <1>5, <1>6, ControlPreserves DEF TypeOK

\* tryDequeue finds the queue empty.
LEMMA FindEmptyPreserves ==
    ASSUME IndInv, NEW t \in Threads, FindEmpty(t)
    PROVE  IndInv'
  <1>a. TypeOK /\ PlaceInv
    BY DEF IndInv
  <1>1. PICK label \in {"idle", "wait"} :
            /\ Goto(t, label) /\ pc[t] \in {"try", "batch", "discard"} /\ (label = "wait" <=> pc[t] = "try")
            /\ mu = Nobody /\ QueuedSlots = {}
            /\ UNCHANGED <<free, held, flowVars, ready, mu, demoted, closing, closed>>
    BY DEF FindEmpty
  <1>2. QueuedSlots' = {}
    BY <1>1, FlowFrame
  <1>3. Announced' /\ ClosedQueueIsEmpty'
    BY <1>2 DEF Announced, ClosedQueueIsEmpty
  <1>4. t # mu /\ MayGo(t, label)
    BY <1>a, <1>1, ThreadsDisjoint DEF MayGo, PlaceInv
  <1> QED
    BY <1>a, <1>1, <1>3, <1>4, ControlPreserves DEF TypeOK

\* The scheduler is locked with packets queued.
LEMMA LockPreserves ==
    ASSUME IndInv, NEW t \in Threads, LockQueue(t)
    PROVE  IndInv'
  <1> USE DEF LockQueue
  <1>a. TypeOK /\ PlaceInv /\ LoopInv /\ SlotInv /\ ListInv /\ StoreInv /\ Announced /\ ClosedQueueIsEmpty
    BY DEF IndInv
  <1>b. QueuedSlots' = QueuedSlots /\ FlowTypeOK' /\ QueuedOnce' /\ ListInv' /\ StoreInv'
    BY <1>a, FlowFrame DEF TypeOK, SlotInv
  <1>1. TypeOK' /\ PlaceInv'
    BY <1>a, <1>b DEF TypeOK, SlotTypeOK, PlaceInv
  <1>2. held[t] = NoSlot /\ t # Nobody
    BY <1>a, ThreadsDisjoint DEF PlaceInv
  <1>3. LoopInv'
    BY <1>a, <1>b, <1>2 DEF LoopInv
  <1>4. SlotInv' /\ Announced' /\ ClosedQueueIsEmpty'
    BY <1>a, <1>b DEF SlotInv, Announced, ClosedQueueIsEmpty
  <1> QED
    BY <1>b, <1>1, <1>3, <1>4 DEF IndInv


\* A slot is taken, from the free ones or from a backlog, by a goroutine that
\* had none.
LEMMA SlotTaken ==
    ASSUME SlotInv, NEW t \in Threads, held[t] = NoSlot, NEW s \in Slots, s # NoSlot,
           s \in free \/ s \in QueuedSlots, free' = free \ {s}, QueuedSlots' = QueuedSlots \ {s}, QueuedOnce',
           held'[t] = s, \A u \in Threads : u # t => held'[u] = held[u]
    PROVE  SlotInv'
  <1>a. \A u \in Threads : held[u] # s
    BY DEF SlotInv
  <1>1. \A x \in Slots : x \in free' \/ x \in QueuedSlots' \/ \E u \in Threads : held'[u] = x
    BY SlotsFinite DEF SlotInv
  <1>2. \A x \in free' : x \notin QueuedSlots' /\ \A u \in Threads : held'[u] # x
    BY DEF SlotInv
  <1>3. \A u, v \in Threads : held'[u] = held'[v] /\ held'[u] # NoSlot => u = v
    BY <1>a DEF SlotInv
  <1>4. \A u \in Threads : held'[u] \notin QueuedSlots'
    BY DEF SlotInv
  <1> QED
    BY <1>1, <1>2, <1>3, <1>4 DEF SlotInv

\* tryReserve: a free slot is taken.
LEMMA ReservePreserves ==
    ASSUME IndInv, NEW p \in Publishers, NEW s \in Slots, Reserve(p, s)
    PROVE  IndInv'
  <1>a. TypeOK /\ PlaceInv /\ LoopInv /\ SlotInv /\ ListInv /\ StoreInv /\ Announced /\ ClosedQueueIsEmpty
    BY DEF IndInv
  <1>b. p \in Threads /\ p \notin Readers \cup Closers
    BY ThreadsDisjoint DEF Threads
  <1>1. /\ pc[p] \in {"reserve", "retry"} /\ s \in free /\ free' = free \ {s}
        /\ held' = [held EXCEPT ![p] = s] /\ pc' = [pc EXCEPT ![p] = "reserved"]
        /\ UNCHANGED <<flowVars, ready, mu, demoted, closing, closed>>
    BY DEF Reserve, Hold, Goto
  <1>2. /\ QueuedSlots' = QueuedSlots /\ FlowTypeOK' /\ QueuedOnce' /\ ListInv' /\ StoreInv'
    BY <1>a, <1>1, FlowFrame DEF TypeOK, SlotInv
  <1>3. \A u \in Threads : /\ pc'[u] = IF u = p THEN "reserved" ELSE pc[u]
                           /\ held'[u] = IF u = p THEN s ELSE held[u]
    BY <1>a, <1>1 DEF TypeOK, SlotTypeOK
  <1>4. p # mu /\ held[p] = NoSlot /\ s # NoSlot
    BY <1>a, <1>b, <1>1, OutsideLoop, SlotsFinite DEF PlaceInv
  <1>5. TypeOK'
    BY <1>a, <1>1, <1>2 DEF TypeOK, SlotTypeOK
  <1>6. PlaceInv'
    BY <1>a, <1>b, <1>3, <1>4 DEF PlaceInv, Threads
  <1>7. LoopInv'
    BY <1>a, <1>1, <1>2, <1>3, <1>4 DEF LoopInv, TypeOK, SlotTypeOK
  <1>8. SlotInv'
    <2>1. QueuedSlots' = QueuedSlots \ {s}
      BY <1>a, <1>1, <1>2 DEF SlotInv
    <2> QED
      BY <1>a, <1>b, <1>1, <1>2, <1>3, <1>4, <2>1, SlotTaken
  <1>9. Announced' /\ ClosedQueueIsEmpty'
    BY <1>a, <1>b, <1>1, <1>2, <1>3 DEF Announced, ClosedQueueIsEmpty, Threads
  <1> QED
    BY <1>2, <1>5, <1>6, <1>7, <1>8, <1>9 DEF IndInv

\* releaseReserved and release: a slot becomes free.
LEMMA ReleasePreserves ==
    ASSUME IndInv, NEW t \in Threads, (t \in Publishers /\ ReleaseReserved(t)) \/ ReleaseEntry(t)
    PROVE  IndInv'
  <1>a. TypeOK /\ PlaceInv /\ LoopInv /\ SlotInv /\ ListInv /\ StoreInv /\ Announced /\ ClosedQueueIsEmpty
    BY DEF IndInv
  <1>1. PICK label \in {"idle", "batch", "discard"} :
            /\ pc[t] \in {"reserved", "copy", "drop"} /\ (pc[t] = "drop" <=> label = "discard")
            /\ pc[t] # "copy" => label # "batch"
            /\ t # mu
            /\ free' = free \cup {held[t]}
            /\ held' = [held EXCEPT ![t] = NoSlot] /\ pc' = [pc EXCEPT ![t] = label]
            /\ UNCHANGED <<flowVars, ready, mu, demoted, closing, closed>>
    <2>1. CASE t \in Publishers /\ ReleaseReserved(t)
      BY <1>a, <2>1, OutsideLoop DEF ReleaseReserved, Hold, Goto
    <2>2. CASE ReleaseEntry(t)
      BY <2>2 DEF ReleaseEntry, Hold, Goto
    <2> QED
      BY <2>1, <2>2
  <1>2. /\ QueuedSlots' = QueuedSlots /\ FlowTypeOK' /\ QueuedOnce' /\ ListInv' /\ StoreInv'
    BY <1>a, <1>1, FlowFrame DEF TypeOK, SlotInv
  <1>3. \A u \in Threads : /\ pc'[u] = IF u = t THEN label ELSE pc[u]
                           /\ held'[u] = IF u = t THEN NoSlot ELSE held[u]
    BY <1>a, <1>1 DEF TypeOK, SlotTypeOK
  <1>4. held[t] \in Slots /\ held[t] # NoSlot
    BY <1>a, <1>1 DEF PlaceInv, TypeOK, SlotTypeOK
  <1>5. TypeOK'
    BY <1>a, <1>1, <1>2, <1>4 DEF TypeOK, SlotTypeOK
  <1>6. PlaceInv'
    BY <1>a, <1>1, <1>3, ThreadsDisjoint DEF PlaceInv, Threads
  <1>7. LoopInv'
    BY <1>a, <1>1, <1>2, <1>3 DEF LoopInv, TypeOK, SlotTypeOK
  <1>8. SlotInv'
    <2>1. NoSlot \notin Slots /\ QueuedSlots \subseteq Slots
      BY <1>a, SlotsFinite, QueuedAt DEF TypeOK
    <2> QED
      BY <1>a, <1>1, <1>2, <1>3, <1>4, <2>1 DEF SlotInv, TypeOK, SlotTypeOK
  <1>9. Announced' /\ ClosedQueueIsEmpty'
    BY <1>a, <1>1, <1>2, <1>3, ThreadsDisjoint DEF Announced, ClosedQueueIsEmpty, Threads
  <1> QED
    BY <1>2, <1>5, <1>6, <1>7, <1>8, <1>9 DEF IndInv

\* replaceBestEffort: a queued packet gives up its slot.
LEMMA DisplacePreserves ==
    ASSUME IndInv, NEW p \in Publishers, NEW f \in FlowKeys, Displace(p, f)
    PROVE  IndInv'
  <1>a. TypeOK /\ PlaceInv /\ LoopInv /\ SlotInv /\ ListInv /\ StoreInv /\ Announced /\ ClosedQueueIsEmpty
    BY DEF IndInv
  <1>b. p \in Threads /\ p \notin Readers \cup Closers /\ FlowTypeOK /\ NoFlow \notin FlowKeys
    BY <1>a, ThreadsDisjoint, SlotsFinite DEF Threads, TypeOK
  <1> DEFINE s == Head(backlog[f]).slot
  <1>1. /\ pc[p] = "displace" /\ mu = Nobody /\ backlog[f] # <<>>
        /\ backlog' = [backlog EXCEPT ![f] = Tail(@)]
        /\ held' = [held EXCEPT ![p] = s] /\ pc' = [pc EXCEPT ![p] = "reserved"]
        /\ UNCHANGED <<free, credit, ready, mu, demoted, closing, closed>>
    BY DEF Displace, Hold, Goto, Fattest
  <1>2. IF Len(backlog[f]) = 1 THEN EmptiedLists(f) ELSE UNCHANGED <<newFlows, oldFlows, detached, oldDue>>
    BY DEF Displace
  <1>3. /\ backlog' \in [FlowKeys -> Seq(Packets)] /\ QueuedOnce'
        /\ s \in QueuedSlots /\ QueuedSlots' = QueuedSlots \ {s}
        /\ backlog'[f] = <<>> <=> Len(backlog[f]) = 1
        /\ \A g \in FlowKeys : g # f => backlog'[g] = backlog[g]
    BY <1>a, <1>b, <1>1, HeadLeaves DEF SlotInv
  <1> HIDE DEF s
  <1>4. s \in Slots /\ s # NoSlot /\ held[p] = NoSlot /\ demoted = NoFlow
    <2>1. s \in Slots /\ s # NoSlot
      BY <1>b, <1>3, QueuedAt, SlotsFinite
    <2>2. held[p] = NoSlot /\ demoted = NoFlow
      BY <1>a, <1>b, <1>1 DEF PlaceInv, LoopInv
    <2> QED
      BY <2>1, <2>2
  <1>5. \A u \in Threads : /\ pc'[u] = IF u = p THEN "reserved" ELSE pc[u]
                           /\ held'[u] = IF u = p THEN s ELSE held[u]
    BY <1>a, <1>1 DEF TypeOK, SlotTypeOK
  <1>6. f \in Elements(newFlows) \cup Elements(oldFlows)
    BY <1>a, <1>b, <1>1, <1>4 DEF ListInv
  <1>7. \/ /\ backlog'[f] = <<>> /\ Listed' /\ oldDue' = oldDue \ {f}
           /\ Elements(newFlows') = Elements(newFlows) \ {f}
           /\ \/ /\ Elements(oldFlows') = Elements(oldFlows) \cup {f}
                 /\ Elements(detached') = Elements(detached)
              \/ /\ Elements(oldFlows') = Elements(oldFlows) \ {f}
                 /\ Elements(detached') = Elements(detached) \cup {f}
        \/ backlog'[f] # <<>> /\ UNCHANGED <<newFlows, oldFlows, detached, oldDue>>
    BY <1>a, <1>b, <1>2, <1>3, <1>6, EmptiedMoves
  <1>8. Listed' /\ oldDue' \subseteq oldDue
    BY <1>a, <1>7 DEF ListInv, Listed
  <1>9. TypeOK'
    <2>1. FlowTypeOK'
      BY <1>b, <1>1, <1>3, <1>8 DEF FlowTypeOK, Listed
    <2>2. SlotTypeOK'
      BY <1>a, <1>1, <1>4 DEF TypeOK, SlotTypeOK
    <2> QED
      BY <1>a, <1>1, <2>1, <2>2 DEF TypeOK
  <1>10. PlaceInv' /\ LoopInv'
    BY <1>a, <1>b, <1>1, <1>4, <1>5 DEF PlaceInv, LoopInv, Threads
  <1>11. SlotInv'
    <2>1. free' = free \ {s}
      BY <1>a, <1>1, <1>3 DEF SlotInv
    <2> QED
      BY <1>a, <1>b, <1>3, <1>4, <1>5, <2>1, SlotTaken
  <1>12. ListInv'
    BY <1>a, <1>b, <1>1, <1>3, <1>4, <1>6, <1>7, <1>8 DEF ListInv, Known
  <1>13. StoreInv'
    <2>1. Known' = Known
      BY <1>6, <1>7 DEF Known
    <2> QED
      BY <1>a, <1>1, <2>1 DEF StoreInv, Stored
  <1>14. Announced' /\ ClosedQueueIsEmpty'
    BY <1>a, <1>b, <1>1, <1>3, <1>5 DEF Announced, ClosedQueueIsEmpty, Threads
  <1> QED
    BY <1>9, <1>10, <1>11, <1>12, <1>13, <1>14 DEF IndInv

\* publishReserved: the reserved slot joins its flow's backlog.
LEMMA PublishPreserves ==
    ASSUME IndInv, NEW p \in Publishers, NEW f \in FlowKeys, NEW n \in PacketSizes, Publish(p, f, n)
    PROVE  IndInv'
  <1>a. TypeOK /\ PlaceInv /\ LoopInv /\ SlotInv /\ ListInv /\ StoreInv /\ Announced /\ ClosedQueueIsEmpty
    BY DEF IndInv
  <1>b. p \in Threads /\ p \notin Readers \cup Closers /\ FlowTypeOK /\ NoFlow \notin FlowKeys
    BY <1>a, ThreadsDisjoint, SlotsFinite DEF Threads, TypeOK
  <1> DEFINE e == [slot |-> held[p], size |-> n]
  <1>1. /\ pc[p] = "reserved" /\ mu = Nobody /\ ActivateFlow(f)
        /\ backlog' = [backlog EXCEPT ![f] = Append(@, e)]
        /\ ready' = (ready \/ EnqueueSignals(Cardinality(QueuedSlots)))
        /\ held' = [held EXCEPT ![p] = NoSlot] /\ pc' = [pc EXCEPT ![p] = "published"]
        /\ UNCHANGED <<free, oldDue, mu, demoted, closing, closed>>
    BY DEF Publish, Hold, Goto
  <1>2. held[p] \in Slots /\ held[p] # NoSlot /\ demoted = NoFlow /\ held[p] \notin QueuedSlots
    BY <1>a, <1>b, <1>1 DEF PlaceInv, LoopInv, TypeOK, SlotTypeOK, SlotInv
  <1>3. e \in Packets /\ e.slot = held[p]
    BY <1>2 DEF Packets
  <1> HIDE DEF e
  <1>4. /\ backlog' \in [FlowKeys -> Seq(Packets)] /\ QueuedOnce'
        /\ QueuedSlots' = QueuedSlots \cup {held[p]}
        /\ backlog'[f] # <<>>
        /\ \A g \in FlowKeys : g # f => backlog'[g] = backlog[g]
    <2>1. QueuedOnce /\ e.slot \notin QueuedSlots
      BY <1>a, <1>2, <1>3 DEF SlotInv
    <2>2. /\ backlog' \in [FlowKeys -> Seq(Packets)] /\ QueuedOnce'
          /\ QueuedSlots' = QueuedSlots \cup {e.slot}
          /\ backlog'[f] # <<>>
          /\ \A g \in FlowKeys : g # f => backlog'[g] = backlog[g]
      BY <1>b, <1>1, <1>3, <2>1, TailJoins
    <2> QED
      BY <1>3, <2>2
  <1>5. /\ Listed' /\ credit' \in [FlowKeys -> Int] /\ f \in Elements(newFlows') \cup Elements(oldFlows')
        /\ Elements(newFlows) \subseteq Elements(newFlows')
        /\ Elements(newFlows') \subseteq Elements(newFlows) \cup {f}
        /\ Elements(newFlows') \cap Elements(oldFlows') = {}
        /\ Elements(newFlows') \cap Elements(detached') = {}
        /\ Elements(oldFlows') \cap Elements(detached') = {}
        /\ \A g \in Elements(oldFlows) : backlog[g] # <<>> => g \in Elements(oldFlows')
        /\ StoreInv'
    BY <1>a, <1>b, <1>1, <1>2, ActivateMoves
  <1>6. \A u \in Threads : /\ pc'[u] = IF u = p THEN "published" ELSE pc[u]
                           /\ held'[u] = IF u = p THEN NoSlot ELSE held[u]
    BY <1>a, <1>1 DEF TypeOK, SlotTypeOK
  <1>7. TypeOK'
    <2>1. FlowTypeOK'
      BY <1>b, <1>1, <1>4, <1>5 DEF FlowTypeOK, Listed
    <2>2. SlotTypeOK'
      BY <1>a, <1>1 DEF TypeOK, SlotTypeOK
    <2>3. ready' \in BOOLEAN
      BY <1>a, <1>1 DEF TypeOK, EnqueueSignals
    <2> QED
      BY <1>a, <1>1, <2>1, <2>2, <2>3 DEF TypeOK
  <1>8. PlaceInv' /\ LoopInv'
    BY <1>a, <1>b, <1>1, <1>2, <1>6 DEF PlaceInv, LoopInv, Threads
  <1>9. SlotInv'
    <2>1. NoSlot \notin Slots /\ QueuedSlots \subseteq Slots
      BY <1>b, SlotsFinite, QueuedAt
    <2> QED
      BY <1>a, <1>b, <1>1, <1>2, <1>4, <1>6, <2>1 DEF SlotInv, TypeOK, SlotTypeOK
  <1>10. ListInv'
    <2>1. NoFlow \notin Known'
      BY <1>b, <1>5, ListMembers DEF Known, Listed
    <2> QED
      BY <1>a, <1>b, <1>1, <1>2, <1>4, <1>5, <2>1 DEF ListInv
  <1>11. Announced'
    <2>1. QueuedSlots = {} => Cardinality(QueuedSlots) = 0
      BY FS_EmptySet
    <2> QED
      BY <1>a, <1>b, <1>1, <1>6, <2>1 DEF Announced, EnqueueSignals, Threads
  <1>12. ClosedQueueIsEmpty'
    BY <1>b, <1>6 DEF ClosedQueueIsEmpty
  <1> QED
    BY <1>5, <1>7, <1>8, <1>9, <1>10, <1>11, <1>12 DEF IndInv

\* What a turn of the dequeue loop does to the lists.  A flow that changes its
\* list is on one afterwards, or being demoted; no flow joins the new list
\* without packets and none leaves the ready ones with packets.
ListStep ==
    /\ Listed'
    /\ Elements(newFlows') \cap Elements(oldFlows') = {}
    /\ Elements(newFlows') \cap Elements(detached') = {}
    /\ Elements(oldFlows') \cap Elements(detached') = {}
    /\ demoted' \in FlowKeys \cup {NoFlow} /\ demoted' \notin Known'
    /\ oldDue' \subseteq Elements(newFlows')
    /\ Stored' = Stored

LEMMA DemoteStep ==
    ASSUME FlowTypeOK, ListInv, demoted = NoFlow, NEW f \in FlowKeys, f \in Elements(newFlows), f \notin oldDue,
           Demote(f)
    PROVE  /\ ListStep /\ f \notin Elements(newFlows')
           /\ Elements(newFlows') \subseteq Elements(newFlows)
           /\ \A g \in Elements(newFlows) \cup Elements(oldFlows) :
                 g \in Elements(newFlows') \cup Elements(oldFlows') \cup {demoted'}
  <1>a. /\ Listed /\ f \notin Elements(oldFlows) /\ f \notin Elements(detached) /\ f # NoFlow
        /\ NoFlow \notin FlowKeys
    BY SlotsFinite DEF ListInv
  <1>1. /\ Listed' /\ oldDue' = oldDue
        /\ Elements(newFlows') = Elements(newFlows) \ {f} /\ Elements(detached') = Elements(detached)
        /\ \/ demoted' = f /\ Elements(oldFlows') = Elements(oldFlows)
           \/ demoted' = NoFlow /\ Elements(oldFlows') = Elements(oldFlows) \cup {f}
    BY <1>a, DemoteMoves
  <1>2. NoFlow \notin Known /\ NoFlow \notin Known'
    BY <1>a, <1>1, ListMembers DEF Known, Listed
  <1>3. demoted' \notin Known' /\ demoted' \in FlowKeys \cup {NoFlow}
    BY <1>a, <1>1, <1>2 DEF Known
  <1>4. Stored' = Stored
    BY <1>a, <1>1 DEF Stored, Known
  <1>5. oldDue' \subseteq Elements(newFlows')
    BY <1>1 DEF ListInv
  <1> QED
    BY <1>a, <1>1, <1>3, <1>4, <1>5 DEF ListStep, ListInv

LEMMA TailStep ==
    ASSUME FlowTypeOK, ListInv, demoted = NoFlow, NEW f \in FlowKeys,
           f \in Elements(newFlows) \cup Elements(oldFlows), MoveToOldTail(f)
    PROVE  /\ ListStep /\ f \notin Elements(newFlows') /\ demoted' = NoFlow
           /\ Elements(newFlows') \subseteq Elements(newFlows)
           /\ \A g \in Elements(newFlows) \cup Elements(oldFlows) :
                 g \in Elements(newFlows') \cup Elements(oldFlows')
  <1>a. Listed /\ f \notin Elements(detached) /\ NoFlow \notin FlowKeys
    BY SlotsFinite DEF ListInv
  <1>1. /\ Listed' /\ oldDue' = oldDue \ {f} /\ demoted' = NoFlow
        /\ Elements(newFlows') = Elements(newFlows) \ {f}
        /\ Elements(oldFlows') = Elements(oldFlows) \cup {f}
        /\ Elements(detached') = Elements(detached)
    BY <1>a, TailMoves
  <1>2. demoted' \notin Known'
    BY <1>a, <1>1, ListMembers DEF Known, Listed
  <1>3. Known' = Known
    BY <1>1 DEF Known
  <1>4. Stored' = Stored
    BY <1>1, <1>3 DEF Stored
  <1> QED
    BY <1>a, <1>1, <1>2, <1>4 DEF ListStep, ListInv

LEMMA DetachStep ==
    ASSUME FlowTypeOK, ListInv, demoted = NoFlow, NEW f \in FlowKeys,
           f \in Elements(newFlows) \cup Elements(oldFlows), Detach(f)
    PROVE  /\ ListStep /\ f \notin Elements(newFlows') /\ demoted' = NoFlow
           /\ Elements(newFlows') \subseteq Elements(newFlows)
           /\ \A g \in Elements(newFlows) \cup Elements(oldFlows) : g # f =>
                 g \in Elements(newFlows') \cup Elements(oldFlows')
  <1>a. Listed /\ f \notin Elements(detached) /\ NoFlow \notin FlowKeys
    BY SlotsFinite DEF ListInv
  <1>1. /\ Listed' /\ Elements(newFlows') = Elements(newFlows) \ {f}
        /\ Elements(oldFlows') = Elements(oldFlows) \ {f}
        /\ Elements(detached') = Elements(detached) \cup {f}
    BY <1>a, DetachMoves DEF Detach
  <1>2. oldDue' = oldDue \ {f} /\ demoted' = NoFlow
    BY DEF Detach
  <1>3. demoted' \notin Known'
    BY <1>a, <1>1, <1>2, ListMembers DEF Known, Listed
  <1>4. Known' = Known
    BY <1>1 DEF Known
  <1>5. Stored' = Stored
    BY <1>2, <1>4 DEF Stored
  <1> QED
    BY <1>a, <1>1, <1>2, <1>3, <1>5 DEF ListStep, ListInv

\* What such a turn preserves when it takes no packet.
LEMMA TurnPreserves ==
    ASSUME IndInv, ListStep, UNCHANGED <<free, held, pc, backlog, ready, closing, closed>>,
           credit' \in [FlowKeys -> Int], mu' \in Threads \cup {Nobody},
           \A f \in Elements(newFlows') : f \in FlowKeys => backlog[f] # <<>>,
           \A f \in FlowKeys : backlog[f] # <<>> =>
                 f \in Elements(newFlows') \cup Elements(oldFlows') \cup {demoted'},
           LoopInv'
    PROVE  IndInv'
  <1>a. TypeOK /\ PlaceInv /\ SlotInv /\ StoreInv /\ Announced /\ ClosedQueueIsEmpty
    BY DEF IndInv
  <1>1. QueuedSlots' = QueuedSlots
    BY DEF QueuedSlots, QueuedIn
  <1>2. Elements(newFlows') \subseteq FlowKeys
    BY ListMembers DEF ListStep, Listed
  <1>3. FlowTypeOK'
    BY <1>a, <1>2 DEF TypeOK, FlowTypeOK, ListStep, Listed
  <1>4. TypeOK'
    BY <1>a, <1>3 DEF TypeOK, SlotTypeOK
  <1>5. PlaceInv' /\ SlotInv'
    BY <1>a, <1>1 DEF PlaceInv, SlotInv, QueuedOnce
  <1>6. ListInv'
    BY <1>2 DEF ListInv, ListStep
  <1>7. StoreInv'
    BY <1>a DEF StoreInv, ListStep
  <1>8. Announced' /\ ClosedQueueIsEmpty'
    BY <1>a, <1>1 DEF Announced, ClosedQueueIsEmpty
  <1> QED
    BY <1>4, <1>5, <1>6, <1>7, <1>8 DEF IndInv

\* The first ready flow has no packet and is detached.
LEMMA SkipPreserves ==
    ASSUME IndInv, SkipEmptyFlow
    PROVE  IndInv'
  <1> DEFINE f == Selected
  <1>a. TypeOK /\ FlowTypeOK /\ LoopInv /\ ListInv /\ Looking
    BY DEF IndInv, SkipEmptyFlow, TypeOK
  <1>1. /\ mu \in Threads /\ held[mu] = NoSlot /\ demoted = NoFlow /\ QueuedSlots # {}
        /\ f \in FlowKeys /\ f \in Elements(newFlows) \cup Elements(oldFlows)
    BY <1>a, SelectedIsReady
  <1>2. /\ backlog[f] = <<>> /\ (IF IsNew(f) THEN Demote(f) ELSE Detach(f))
        /\ UNCHANGED <<free, held, pc, backlog, credit, ready, mu, closing, closed>>
    BY DEF SkipEmptyFlow
  <1> HIDE DEF f
  <1>3. Detach(f)
    BY <1>a, <1>2 DEF IsNew, ListInv
  <1>4. /\ ListStep /\ demoted' = NoFlow
        /\ Elements(newFlows') \subseteq Elements(newFlows)
        /\ \A g \in Elements(newFlows) \cup Elements(oldFlows) : g # f =>
              g \in Elements(newFlows') \cup Elements(oldFlows')
    BY <1>a, <1>1, <1>3, DetachStep
  <1>5. LoopInv'
    <2>1. QueuedSlots' = QueuedSlots
      BY <1>2 DEF QueuedSlots, QueuedIn
    <2> QED
      BY <1>a, <1>1, <1>2, <1>4, <2>1 DEF LoopInv
  <1>6. \A g \in FlowKeys : backlog[g] # <<>> =>
            g \in Elements(newFlows') \cup Elements(oldFlows') \cup {demoted'}
    BY <1>a, <1>1, <1>2, <1>4, SlotsFinite DEF ListInv
  <1>7. \A g \in Elements(newFlows') : g \in FlowKeys => backlog[g] # <<>>
    BY <1>a, <1>4 DEF ListInv
  <1>8. credit' \in [FlowKeys -> Int] /\ mu' \in Threads \cup {Nobody}
    BY <1>a, <1>1, <1>2 DEF FlowTypeOK
  <1> QED
    BY <1>2, <1>4, <1>5, <1>6, <1>7, <1>8, TurnPreserves

\* The first ready flow has no credit and is refilled.
LEMMA RefillPreserves ==
    ASSUME IndInv, RefillFlow
    PROVE  IndInv'
  <1> DEFINE f == Selected
  <1>a. TypeOK /\ FlowTypeOK /\ LoopInv /\ ListInv /\ Looking
    BY DEF IndInv, RefillFlow, TypeOK
  <1>1. /\ mu \in Threads /\ held[mu] = NoSlot /\ demoted = NoFlow /\ QueuedSlots # {}
        /\ f \in FlowKeys /\ f \in Elements(newFlows) \cup Elements(oldFlows)
    BY <1>a, SelectedIsReady
  <1>2. /\ backlog[f] # <<>> /\ credit' = [credit EXCEPT ![f] = Refilled(@)]
        /\ IF f \in oldDue THEN UNCHANGED <<newFlows, oldFlows, detached, oldDue, demoted>>
           ELSE IF IsNew(f) THEN Demote(f) ELSE MoveToOldTail(f)
        /\ UNCHANGED <<free, held, pc, backlog, ready, mu, closing, closed>>
    BY DEF RefillFlow
  <1> HIDE DEF f
  <1>3. /\ ListStep
        /\ Elements(newFlows') \subseteq Elements(newFlows)
        /\ \A g \in Elements(newFlows) \cup Elements(oldFlows) :
              g \in Elements(newFlows') \cup Elements(oldFlows') \cup {demoted'}
    <2>1. CASE f \in oldDue
      <3>1. UNCHANGED <<newFlows, oldFlows, detached, oldDue, demoted>>
        BY <1>2, <2>1
      <3>2. Stored' = Stored /\ Known' = Known
        BY <3>1 DEF Stored, Known
      <3> QED
        BY <1>a, <1>1, <3>1, <3>2 DEF ListStep, ListInv, Listed
    <2>2. CASE f \notin oldDue /\ IsNew(f)
      BY <1>a, <1>1, <1>2, <2>2, DemoteStep DEF IsNew
    <2>3. CASE f \notin oldDue /\ ~IsNew(f)
      BY <1>a, <1>1, <1>2, <2>3, TailStep
    <2> QED
      BY <2>1, <2>2, <2>3
  <1>4. LoopInv'
    <2>1. QueuedSlots' = QueuedSlots
      BY <1>2 DEF QueuedSlots, QueuedIn
    <2> QED
      BY <1>a, <1>1, <1>2, <2>1, ThreadsDisjoint DEF LoopInv
  <1>5. \A g \in FlowKeys : backlog[g] # <<>> =>
            g \in Elements(newFlows') \cup Elements(oldFlows') \cup {demoted'}
    BY <1>a, <1>1, <1>3, SlotsFinite DEF ListInv
  <1>6. \A g \in Elements(newFlows') : g \in FlowKeys => backlog[g] # <<>>
    BY <1>a, <1>3 DEF ListInv
  <1>7. credit' \in [FlowKeys -> Int] /\ mu' \in Threads \cup {Nobody}
    <2>1. credit[f] + Quantum \in Int
      BY <1>a, <1>1, CreditPositive DEF FlowTypeOK
    <2> QED
      BY <1>a, <1>1, <1>2, <2>1 DEF FlowTypeOK, Refilled
  <1> QED
    BY <1>2, <1>3, <1>4, <1>5, <1>6, <1>7, TurnPreserves

\* A turn of scheduleOldFlowTurn.
LEMMA OldTurnPreserves ==
    ASSUME IndInv, OldFlowTurn
    PROVE  IndInv'
  <1>a. TypeOK /\ FlowTypeOK /\ LoopInv /\ ListInv /\ mu # Nobody /\ demoted # NoFlow
    BY DEF IndInv, OldFlowTurn, TypeOK
  <1>b. demoted \in FlowKeys /\ NoFlow \notin FlowKeys /\ demoted \notin Known /\ Listed
    BY <1>a, SlotsFinite DEF FlowTypeOK, ListInv
  <1>1. /\ mu' = IF demoted' = NoFlow /\ held[mu] # NoSlot THEN Nobody ELSE mu
        /\ UNCHANGED <<free, held, pc, backlog, ready, closing, closed>>
    BY DEF OldFlowTurn
  <1>2. /\ ListStep
        /\ \A f \in Elements(newFlows') : f \in FlowKeys => backlog[f] # <<>>
        /\ \A f \in FlowKeys : backlog[f] # <<>> =>
              f \in Elements(newFlows') \cup Elements(oldFlows') \cup {demoted'}
    <2> DEFINE Join == /\ demoted' = NoFlow /\ oldDue' = oldDue /\ UNCHANGED newFlows
                       /\ Elements(oldFlows') = {demoted} /\ Elements(oldFlows) = {} /\ UNCHANGED detached
               Drop(f) == /\ backlog[f] = <<>> /\ demoted' = demoted /\ oldDue' = oldDue /\ UNCHANGED newFlows
                          /\ Elements(oldFlows') = Elements(oldFlows) \ {f}
                          /\ Elements(detached') = Elements(detached) \cup {f}
               Rotate == /\ demoted' = demoted /\ oldDue' = oldDue /\ UNCHANGED <<newFlows, detached>>
                         /\ Elements(oldFlows') = Elements(oldFlows)
               Turn(f) == /\ backlog[f] # <<>> /\ demoted' = NoFlow /\ oldDue' = oldDue \cup {f}
                          /\ Elements(newFlows') = Elements(newFlows) \cup {f}
                          /\ Elements(oldFlows') = (Elements(oldFlows) \ {f}) \cup {demoted}
                          /\ UNCHANGED detached
               Goal == /\ ListStep
                       /\ \A f \in Elements(newFlows') : f \in FlowKeys => backlog[f] # <<>>
                       /\ \A f \in FlowKeys : backlog[f] # <<>> =>
                             f \in Elements(newFlows') \cup Elements(oldFlows') \cup {demoted'}
    <2>1. /\ Listed'
          /\ Join \/ (\E f \in Elements(oldFlows) : Drop(f)) \/ Rotate \/ \E f \in Elements(oldFlows) : Turn(f)
      BY <1>a, OldTurnMoves
    <2>2. NoFlow \notin Known'
      BY <1>b, <2>1, ListMembers DEF Known, Listed
    <2>3. CASE Join
      <3>1. demoted' \notin Known' /\ Stored' = Stored
        BY <1>b, <2>2, <2>3 DEF Known, Stored
      <3> QED
        BY <1>a, <1>b, <2>1, <2>3, <3>1 DEF ListStep, ListInv, Known
    <2>4. ASSUME NEW f \in Elements(oldFlows), Drop(f)
          PROVE  Goal
      <3>1. Known' = Known
        BY <2>4 DEF Known
      <3>2. demoted' \notin Known' /\ Stored' = Stored
        BY <1>b, <2>4, <3>1 DEF Stored
      <3> QED
        BY <1>a, <1>b, <2>1, <2>4, <3>2 DEF ListStep, ListInv
    <2>5. CASE Rotate
      <3>1. Known' = Known
        BY <2>5 DEF Known
      <3>2. demoted' \notin Known' /\ Stored' = Stored
        BY <1>b, <2>5, <3>1 DEF Stored
      <3> QED
        BY <1>a, <1>b, <2>1, <2>5, <3>2 DEF ListStep, ListInv
    <2>6. ASSUME NEW f \in Elements(oldFlows), Turn(f)
          PROVE  Goal
      <3>1. demoted' \notin Known' /\ Stored' = Stored
        BY <1>b, <2>2, <2>6 DEF Known, Stored
      <3> QED
        BY <1>a, <1>b, <2>1, <2>6, <3>1 DEF ListStep, ListInv, Known
    <2>7. (\E f \in Elements(oldFlows) : Drop(f)) => Goal
      BY <2>4
    <2>8. (\E f \in Elements(oldFlows) : Turn(f)) => Goal
      BY <2>6
    <2> QED
      BY <2>1, <2>3, <2>5, <2>7, <2>8
  <1>3. LoopInv'
    <2>1. QueuedSlots' = QueuedSlots
      BY <1>1 DEF QueuedSlots, QueuedIn
    <2> QED
      BY <1>a, <1>1, <2>1 DEF LoopInv
  <1>4. mu' \in Threads \cup {Nobody}
    BY <1>a, <1>1 DEF TypeOK, SlotTypeOK
  <1>5. credit' \in [FlowKeys -> Int]
    <2>1. CASE oldFlows = <<>>
      BY <1>a, <2>1 DEF OldFlowTurn, FlowTypeOK
    <2>2. CASE oldFlows # <<>>
      <3> DEFINE f == Head(oldFlows)
      <3>1. f \in FlowKeys
        BY <1>b, <2>2, ListTail DEF Listed
      <3>2. credit[f] + Quantum \in Int
        BY <1>a, <3>1, CreditPositive DEF FlowTypeOK
      <3>3. credit' = credit \/ credit' = [credit EXCEPT ![f] = credit[f] + Quantum]
        BY <2>2 DEF OldFlowTurn, Refilled
      <3> QED
        BY <1>a, <3>2, <3>3 DEF FlowTypeOK
    <2> QED
      BY <2>1, <2>2
  <1> QED
    BY <1>1, <1>2, <1>3, <1>4, <1>5, TurnPreserves

\* One packet is served.
LEMMA ServePreserves ==
    ASSUME IndInv, ServeFlow
    PROVE  IndInv'
  <1> DEFINE f == Selected
             e == Head(backlog[f])
             empty == Len(backlog[f]) = 1
             left == credit[f] - e.size
             label == IF pc[mu] = "discard" THEN "drop" ELSE "copy"
             s == e.slot
  <1>a. TypeOK /\ PlaceInv /\ LoopInv /\ SlotInv /\ ListInv /\ StoreInv /\ Announced /\ ClosedQueueIsEmpty
    BY DEF IndInv
  <1>b. FlowTypeOK /\ Looking /\ QueuedOnce
    BY <1>a DEF ServeFlow, TypeOK, SlotInv
  <1>1. /\ mu \in Threads /\ held[mu] = NoSlot /\ demoted = NoFlow /\ QueuedSlots # {}
        /\ f \in FlowKeys /\ f \in Elements(newFlows) \cup Elements(oldFlows)
    BY <1>a, <1>b, SelectedIsReady
  <1>2. /\ backlog[f] # <<>> /\ backlog' = [backlog EXCEPT ![f] = Tail(@)]
        /\ credit' = [credit EXCEPT ![f] = IF left <= 0 /\ ~empty THEN Refilled(left) ELSE left]
    BY DEF ServeFlow
  <1>3. IF empty /\ ~IsNew(f) THEN Detach(f)
        ELSE IF IsNew(f) /\ (empty \/ left <= 0) THEN Demote(f)
        ELSE IF left <= 0 THEN MoveToOldTail(f)
        ELSE UNCHANGED <<newFlows, oldFlows, detached, oldDue, demoted>>
    BY DEF ServeFlow
  <1>4. /\ held' = [held EXCEPT ![mu] = s] /\ pc' = [pc EXCEPT ![mu] = label]
        /\ ready' = (ready \/ DequeueSignals(mu))
        /\ IF demoted' = NoFlow THEN mu' = Nobody ELSE mu' = mu
        /\ UNCHANGED <<free, closing, closed>>
    BY DEF ServeFlow, Hold, Goto
  <1>5. /\ backlog' \in [FlowKeys -> Seq(Packets)] /\ QueuedOnce'
        /\ s \in QueuedSlots /\ e \in Packets /\ QueuedSlots' = QueuedSlots \ {s}
        /\ backlog'[f] = <<>> <=> empty
        /\ \A g \in FlowKeys : g # f => backlog'[g] = backlog[g]
    BY <1>b, <1>1, <1>2, HeadLeaves
  <1>6. credit' \in [FlowKeys -> Int]
    <2>a. \A x \in Packets : x.size \in Int
      <3>1. \A x \in Packets : x.size \in PacketSizes
        BY DEF Packets
      <3>2. \A n \in PacketSizes : n \in Int
        BY SizesPositive
      <3> QED
        BY <3>1, <3>2
    <2>b. credit[f] \in Int /\ Quantum \in Int
      BY <1>b, <1>1, CreditPositive DEF FlowTypeOK
    <2>1. e.size \in Int /\ credit[f] \in Int /\ Quantum \in Int
      BY <1>5, <2>a, <2>b
    <2>2. left \in Int /\ Refilled(left) \in Int
      BY <2>1 DEF Refilled
    <2> HIDE DEF left
    <2> QED
      BY <1>b, <1>2, <2>2 DEF FlowTypeOK
  <1> HIDE DEF f, e, empty, left, s
  <1>7. /\ ListStep
        /\ Elements(newFlows') \subseteq Elements(newFlows)
        /\ f \in Elements(newFlows') => ~empty
        /\ \A g \in Elements(newFlows) \cup Elements(oldFlows) : (g = f => ~empty) =>
              g \in Elements(newFlows') \cup Elements(oldFlows') \cup {demoted'}
    <2>1. CASE empty /\ ~IsNew(f)
      <3>1. /\ ListStep /\ f \notin Elements(newFlows')
            /\ Elements(newFlows') \subseteq Elements(newFlows)
            /\ \A g \in Elements(newFlows) \cup Elements(oldFlows) : g # f =>
                  g \in Elements(newFlows') \cup Elements(oldFlows')
        BY <1>a, <1>b, <1>1, <1>3, <2>1, DetachStep
      <3> QED
        BY <2>1, <3>1
    <2>2. CASE IsNew(f) /\ (empty \/ left <= 0)
      BY <1>a, <1>b, <1>1, <1>3, <2>2, DemoteStep DEF IsNew
    <2>3. CASE ~(empty /\ ~IsNew(f)) /\ ~(IsNew(f) /\ (empty \/ left <= 0)) /\ left <= 0
      BY <1>a, <1>b, <1>1, <1>3, <2>3, TailStep
    <2>4. CASE ~(empty /\ ~IsNew(f)) /\ ~(IsNew(f) /\ (empty \/ left <= 0)) /\ ~(left <= 0)
      <3>1. UNCHANGED <<newFlows, oldFlows, detached, oldDue, demoted>>
        BY <1>3, <2>4
      <3>2. Stored' = Stored /\ Known' = Known
        BY <3>1 DEF Stored, Known
      <3> QED
        BY <1>a, <1>1, <2>4, <3>1, <3>2 DEF ListStep, ListInv, Listed
    <2> QED
      BY <2>1, <2>2, <2>3, <2>4
  <1>8. /\ s \in Slots /\ s # NoSlot /\ mu # Nobody
        /\ pc[mu] \in {"try", "batch", "discard"}
    <2>1. s \in Slots /\ s # NoSlot
      BY <1>b, <1>5, QueuedAt, SlotsFinite
    <2>2. mu # Nobody /\ pc[mu] \in {"try", "batch", "discard"}
      BY <1>a, <1>b, <1>1 DEF PlaceInv, LoopInv, Looking
    <2> QED
      BY <2>1, <2>2
  <1>9. \A u \in Threads : /\ pc'[u] = IF u = mu THEN label ELSE pc[u]
                           /\ held'[u] = IF u = mu THEN s ELSE held[u]
    BY <1>a, <1>4 DEF TypeOK, SlotTypeOK
  <1>10. Elements(newFlows') \subseteq FlowKeys
    BY <1>7, ListMembers DEF ListStep, Listed
  <1>11. TypeOK'
    <2>1. FlowTypeOK'
      BY <1>5, <1>6, <1>7, <1>10 DEF FlowTypeOK, ListStep, Listed
    <2>2. SlotTypeOK'
      BY <1>a, <1>1, <1>4, <1>8 DEF TypeOK, SlotTypeOK
    <2>3. ready' \in BOOLEAN
      BY <1>a, <1>4 DEF TypeOK, DequeueSignals
    <2> QED
      BY <1>a, <1>4, <2>1, <2>2, <2>3 DEF TypeOK
  <1>12. PlaceInv'
    <2>1. \A p \in Publishers : p = mu => label = "drop"
      BY <1>a, <1>8 DEF PlaceInv
    <2>2. \A r \in Readers : r = mu => label = "copy"
      BY <1>a, <1>8 DEF PlaceInv
    <2>3. \A c \in Closers : c = mu => label = "drop"
      BY <1>a, <1>8 DEF PlaceInv
    <2>4. label \in {"copy", "drop"}
      OBVIOUS
    <2> HIDE DEF label
    <2> QED
      BY <1>a, <1>8, <1>9, <2>1, <2>2, <2>3, <2>4 DEF PlaceInv, Threads
  <1>13. LoopInv'
    BY <1>1, <1>4, <1>8, <1>9 DEF LoopInv
  <1>14. SlotInv'
    <2>1. free' = free \ {s}
      BY <1>a, <1>4, <1>5 DEF SlotInv
    <2> QED
      BY <1>a, <1>1, <1>5, <1>8, <1>9, <2>1, SlotTaken
  <1>15. ListInv'
    <2>1. \A g \in Elements(newFlows') : backlog'[g] # <<>>
      BY <1>a, <1>5, <1>7, <1>10 DEF ListInv
    <2>2. \A g \in FlowKeys : backlog'[g] # <<>> => backlog[g] # <<>> /\ (g = f => ~empty)
      BY <1>2, <1>5
    <2>3. \A g \in FlowKeys : backlog'[g] # <<>> =>
              g \in Elements(newFlows') \cup Elements(oldFlows') \cup {demoted'}
      BY <1>a, <1>1, <1>7, <2>2, SlotsFinite DEF ListInv
    <2> QED
      BY <1>7, <2>1, <2>3 DEF ListInv, ListStep
  <1>16. StoreInv'
    BY <1>a, <1>7 DEF StoreInv, ListStep
  <1>17. Announced'
    <2> SUFFICES ASSUME QueuedSlots' # {}, ~ready
                 PROVE  ready' \/ \E r \in Readers : pc'[r] = "try"
      BY <1>4 DEF Announced
    <2>1. PICK r \in Readers : pc[r] = "try"
      BY <1>a, <1>1 DEF Announced
    <2>2. CASE r # mu
      BY <1>9, <2>1, <2>2 DEF Threads
    <2>3. CASE r = mu
      <3>1. IsFiniteSet(QueuedSlots)
        BY <1>b, QueuedAt, SlotsFinite, FS_Subset
      <3>2. IsFiniteSet(QueuedSlots') /\ Cardinality(QueuedSlots') = Cardinality(QueuedSlots) - 1
        BY <1>5, <3>1, FS_RemoveElement
      <3>3. Cardinality(QueuedSlots') \in Nat /\ Cardinality(QueuedSlots') # 0 /\ Cardinality(QueuedSlots) \in Nat
        BY <3>1, <3>2, FS_EmptySet, FS_CardinalityType
      <3>4. Cardinality(QueuedSlots) > 1
        BY <3>2, <3>3
      <3> QED
        BY <1>4, <2>1, <2>3, <3>4 DEF DequeueSignals
    <2> QED
      BY <2>2, <2>3
  <1>18. ClosedQueueIsEmpty'
    <2>1. CASE mu \in Readers
      BY <1>a, <1>4, <1>5, <1>9, <2>1, ThreadsDisjoint DEF ClosedQueueIsEmpty, Threads
    <2>2. CASE mu \in Publishers \cup Closers
      <3>1. pc'[mu] = "drop"
        BY <1>a, <1>1, <1>8, <1>9, <2>2 DEF PlaceInv
      <3> QED
        BY <2>2, <3>1 DEF ClosedQueueIsEmpty
    <2> QED
      BY <1>1, <2>1, <2>2 DEF Threads
  <1> QED
    BY <1>11, <1>12, <1>13, <1>14, <1>15, <1>16, <1>17, <1>18 DEF IndInv
-----------------------------------------------------------------------------
(* The theorems. *)

LEMMA InitEstablishes ==
    Init => IndInv
  <1> SUFFICES ASSUME Init
               PROVE  IndInv
    OBVIOUS
  <1> USE DEF Init
  <1>1. <<>> \in Seq(FlowKeys) /\ <<>> \in Seq(Packets) /\ Len(<<>>) = 0 /\ Elements(<<>>) = {} /\ Distinct(<<>>)
    BY DEF Elements, Distinct
  <1>2. QueuedSlots = {}
    BY <1>1 DEF QueuedSlots, QueuedIn
  <1>3. TypeOK
    <2>1. SlotTypeOK
      BY DEF SlotTypeOK
    <2>2. FlowTypeOK
      BY <1>1 DEF FlowTypeOK
    <2> QED
      BY <2>1, <2>2 DEF TypeOK
  <1>4. PlaceInv /\ LoopInv
    BY DEF PlaceInv, LoopInv, Threads
  <1>5. SlotInv
    BY <1>1, <1>2, SlotsFinite DEF SlotInv, QueuedOnce
  <1>6. ListInv
    BY <1>1 DEF ListInv, Listed, Known
  <1>7. StoreInv
    <2>1. Stored = {}
      BY <1>1 DEF Stored, Known
    <2>2. Cardinality(Slots) \in Nat /\ IsFiniteSet({}) /\ Cardinality({}) = 0
      BY SlotsFinite, FS_CardinalityType, FS_EmptySet
    <2> QED
      BY <2>1, <2>2 DEF StoreInv
  <1>8. Announced /\ ClosedQueueIsEmpty
    BY <1>2 DEF Announced, ClosedQueueIsEmpty
  <1> QED
    BY <1>3, <1>4, <1>5, <1>6, <1>7, <1>8 DEF IndInv

LEMMA StepPreserves ==
    IndInv /\ [Next]_vars => IndInv'
  <1> SUFFICES ASSUME IndInv, [Next]_vars
               PROVE  IndInv'
    OBVIOUS
  <1>1. ASSUME NEW p \in Publishers, PublisherStep(p)
        PROVE  IndInv'
    <2>a. p \in Threads
      BY DEF Threads
    <2>1. CASE BeginWrite(p) \/ ReserveFails(p) \/ RejectCandidate(p) \/ CheckClosed(p)
      BY <2>1, PublisherControl
    <2>2. CASE \E s \in Slots : Reserve(p, s)
      BY <2>2, ReservePreserves
    <2>3. CASE ReleaseReserved(p)
      BY <2>a, <2>3, ReleasePreserves
    <2>4. CASE \E f \in FlowKeys : Displace(p, f)
      BY <2>4, DisplacePreserves
    <2>5. CASE \E f \in FlowKeys : \E n \in PacketSizes : Publish(p, f, n)
      BY <2>5, PublishPreserves
    <2> QED
      BY <1>1, <2>1, <2>2, <2>3, <2>4, <2>5 DEF PublisherStep
  <1>2. CASE Scheduler
    BY <1>2, SkipPreserves, RefillPreserves, ServePreserves, OldTurnPreserves DEF Scheduler
  <1>3. ASSUME NEW t \in Threads, Consume(t)
        PROVE  IndInv'
    BY <1>3, LockPreserves, FindEmptyPreserves, ReleasePreserves DEF Consume
  <1>4. ASSUME NEW r \in Readers, ReaderStep(r)
        PROVE  IndInv'
    BY <1>4, ReaderControl
  <1>5. ASSUME NEW c \in Closers, BeginClose(c) \/ CloseQueue(c)
        PROVE  IndInv'
    BY <1>5, CloserControl
  <1>6. CASE UNCHANGED vars
    <2>1. UNCHANGED <<flowVars, demoted>> /\ UNCHANGED <<free, held, pc, ready, mu, closing, closed>>
      BY <1>6 DEF vars
    <2>2. QueuedSlots' = QueuedSlots /\ FlowTypeOK' /\ QueuedOnce' /\ ListInv' /\ StoreInv'
      BY <2>1, FlowFrame DEF IndInv, TypeOK, SlotInv
    <2>3. TypeOK' /\ PlaceInv' /\ LoopInv' /\ SlotInv'
      BY <2>1, <2>2 DEF IndInv, TypeOK, SlotTypeOK, PlaceInv, LoopInv, SlotInv
    <2>4. Announced' /\ ClosedQueueIsEmpty'
      BY <2>1, <2>2 DEF IndInv, Announced, ClosedQueueIsEmpty
    <2> QED
      BY <2>2, <2>3, <2>4 DEF IndInv
  <1> QED
    BY <1>1, <1>2, <1>3, <1>4, <1>5, <1>6 DEF Next

\* Slots, flows and the readiness token stay consistent under every
\* interleaving of publishers, readers, the dequeue loop and Close.
THEOREM QueueInvariant == Spec => []IndInv
  <1>1. Init => IndInv
    BY InitEstablishes
  <1>2. IndInv /\ [Next]_vars => IndInv'
    BY StepPreserves
  <1> QED
    BY <1>1, <1>2, PTL DEF Spec

\* No packet is stranded behind a blocked Read, for any number of readers: the
\* wake-ups of enqueue and of the blocking dequeue are enough.
THEOREM PacketsAreNotStranded == Spec => []NoStrandedPacket
  <1>1. IndInv => NoStrandedPacket
    BY DEF IndInv, Announced, NoStrandedPacket
  <1> QED
    BY <1>1, QueueInvariant, PTL

\* Every slot is in one place and once in a backlog.
LEMMA SlotsAreConserved ==
    IndInv => SlotsConserved
  <1> SUFFICES ASSUME IndInv
               PROVE  SlotsConserved
    OBVIOUS
  <1>a. TypeOK /\ FlowTypeOK /\ SlotInv /\ QueuedOnce
    BY DEF IndInv, TypeOK, SlotInv
  <1>b. /\ Cardinality({}) = 0 /\ \A x : Cardinality({x}) = 1
    BY FS_EmptySet, FS_Singleton
  <1>1. ASSUME NEW s \in Slots
        PROVE  Cardinality({t \in Threads : held[t] = s}) + (IF s \in free THEN 1 ELSE 0)
               + Cardinality({f \in FlowKeys : s \in QueuedIn(f)}) = 1
    <2> DEFINE H == {t \in Threads : held[t] = s}
               Q == {f \in FlowKeys : s \in QueuedIn(f)}
    <2>1. s \in QueuedSlots <=> Q # {}
      BY DEF QueuedSlots
    <2>2. \A f, g \in Q : f = g
      <3> SUFFICES ASSUME NEW f \in Q, NEW g \in Q
                   PROVE  f = g
        OBVIOUS
      <3>1. f \in FlowKeys /\ g \in FlowKeys /\ s \in QueuedIn(f) /\ s \in QueuedIn(g)
        OBVIOUS
      <3> HIDE DEF Q
      <3>2. PICK i \in 1 .. Len(backlog[f]) : backlog[f][i].slot = s
        BY <1>a, <3>1, BacklogPlaces
      <3>3. PICK j \in 1 .. Len(backlog[g]) : backlog[g][j].slot = s
        BY <1>a, <3>1, BacklogPlaces
      <3> QED
        BY <1>a, <3>1, <3>2, <3>3 DEF QueuedOnce
    <2>3. s # NoSlot
      BY SlotsFinite
    <2>4. /\ s \in free => H = {} /\ Q = {}
          /\ s \in QueuedSlots => H = {}
          /\ s \in free \/ s \in QueuedSlots \/ H # {}
          /\ \A t, u \in H : t = u
      BY <1>a, <2>1, <2>3 DEF SlotInv
    <2> HIDE DEF H, Q
    <2>5. CASE s \in free
      <3>1. Cardinality(H) = 0 /\ Cardinality(Q) = 0
        BY <1>b, <2>4, <2>5
      <3> QED
        BY <2>5, <3>1 DEF H, Q
    <2>6. CASE s \notin free /\ s \in QueuedSlots
      <3>1. PICK f : Q = {f}
        BY <2>1, <2>2, <2>6
      <3>2. Cardinality(Q) = 1 /\ Cardinality(H) = 0
        BY <1>b, <2>4, <2>6, <3>1
      <3> QED
        BY <2>6, <3>2 DEF H, Q
    <2>7. CASE s \notin free /\ s \notin QueuedSlots
      <3>1. PICK t : H = {t}
        BY <2>4, <2>7
      <3>2. Cardinality(H) = 1 /\ Cardinality(Q) = 0
        BY <1>b, <2>1, <2>7, <3>1
      <3> QED
        BY <2>7, <3>2 DEF H, Q
    <2> QED
      BY <2>5, <2>6, <2>7
  <1>2. ASSUME NEW f \in FlowKeys
        PROVE  Cardinality(QueuedIn(f)) = Len(backlog[f])
    <2> DEFINE n == Len(backlog[f])
               q == [i \in 1 .. n |-> backlog[f][i].slot]
    <2>1. /\ n \in Nat /\ q \in [1 .. n -> QueuedIn(f)]
          /\ \A s \in QueuedIn(f) : \E i \in 1 .. n : q[i] = s
      BY <1>a, BacklogPlaces
    <2>2. \A i, j \in 1 .. n : q[i] = q[j] => i = j
      BY <1>a DEF QueuedOnce
    <2> HIDE DEF q
    <2>3. q \in Bijection(1 .. n, QueuedIn(f))
      BY <2>1, <2>2 DEF Bijection, Injection, Surjection, IsInjective
    <2>4. ExistsBijection(1 .. n, QueuedIn(f))
      BY <2>3 DEF ExistsBijection
    <2> HIDE DEF n
    <2>5. Cardinality(QueuedIn(f)) = n
      BY <2>1, <2>4, FS_CountingElements
    <2> QED
      BY <2>5 DEF n
  <1> QED
    BY <1>a, <1>1, <1>2 DEF SlotsConserved

\* A flow is on one list, once, and no more flows are known than there are
\* objects for.
LEMMA FlowListsAreSound ==
    IndInv => FlowListsSound
  <1> SUFFICES ASSUME IndInv
               PROVE  FlowListsSound
    OBVIOUS
  <1>a. FlowTypeOK /\ ListInv /\ StoreInv /\ Listed
    BY DEF IndInv, TypeOK, ListInv
  <1> DEFINE A == Elements(newFlows)
             B == Elements(oldFlows)
             C == Elements(detached)
             D == {demoted} \ {NoFlow}
  <1>1. /\ IsFiniteSet(A) /\ Cardinality(A) = Len(newFlows) /\ IsFiniteSet(B) /\ Cardinality(B) = Len(oldFlows)
        /\ IsFiniteSet(C) /\ Cardinality(C) = Len(detached)
    BY <1>a, ListLength DEF Listed
  <1>2. IsFiniteSet(D) /\ Cardinality(D) = IF demoted = NoFlow THEN 0 ELSE 1
    <2>1. CASE demoted = NoFlow
      <3>1. D = {}
        BY <2>1
      <3> QED
        BY <2>1, <3>1, FS_EmptySet
    <2>2. CASE demoted # NoFlow
      <3>1. D = {demoted}
        BY <2>2
      <3> QED
        BY <2>2, <3>1, FS_Singleton
    <2> QED
      BY <2>1, <2>2
  <1> DEFINE U == A \cup B
             V == U \cup C
  <1>3. A \cap B = {} /\ U \cap C = {} /\ V \cap D = {} /\ Stored = V \cup D /\ Known = V
    BY <1>a DEF ListInv, Known, Stored
  <1> HIDE DEF A, B, C, D
  <1>4. IsFiniteSet(U) /\ Cardinality(U) = Cardinality(A) + Cardinality(B) - Cardinality({})
    BY <1>1, <1>3, FS_Union
  <1> HIDE DEF U
  <1>5. IsFiniteSet(V) /\ Cardinality(V) = Cardinality(U) + Cardinality(C) - Cardinality({})
    <2>1. U \cap C = {} /\ IsFiniteSet(U) /\ IsFiniteSet(C)
      BY <1>1, <1>3, <1>4
    <2>2. IsFiniteSet(U \cup C) /\ Cardinality(U \cup C) = Cardinality(U) + Cardinality(C) - Cardinality(U \cap C)
      BY <2>1, FS_Union
    <2> QED
      BY <2>1, <2>2
  <1> HIDE DEF V
  <1>6. Cardinality(Stored) = Cardinality(V) + Cardinality(D) - Cardinality({})
    BY <1>2, <1>3, <1>5, FS_Union
  <1>7. /\ Cardinality({}) = 0 /\ Cardinality(A) \in Nat /\ Cardinality(B) \in Nat /\ Cardinality(C) \in Nat
        /\ Cardinality(D) \in Nat
    BY <1>1, <1>2, FS_EmptySet, FS_CardinalityType
  <1>8. Cardinality(Stored) = Cardinality(A) + Cardinality(B) + Cardinality(C) + Cardinality(D)
    BY <1>4, <1>5, <1>6, <1>7
  <1>9. Len(newFlows) + Len(oldFlows) + Len(detached) + (IF demoted = NoFlow THEN 0 ELSE 1)
            = Cardinality(Stored)
    BY <1>1, <1>2, <1>8
  <1>10. Cardinality(Known) <= Cardinality(Slots)
    <2>1. Cardinality(Slots) \in Nat
      BY SlotsFinite, FS_CardinalityType
    <2>2. Cardinality(Stored) <= Cardinality(Slots)
      BY <1>a DEF StoreInv
    <2> QED
      BY <1>3, <1>4, <1>5, <1>6, <1>7, <2>1, <2>2
  <1> QED
    BY <1>a, <1>9, <1>10 DEF FlowListsSound, ListInv, Stored

\* The whole of QueueSound: slots are conserved, flows are on one list, the
\* store of flow objects, one for each slot, never runs out (the panic of
\* acquireFlow is unreachable), and a closed queue ends empty.
THEOREM QueueIsSound == Spec => []QueueSound
  <1>1. IndInv => FlowStoreSuffices
    <2> SUFFICES ASSUME IndInv, mu = Nobody, NEW p \in Publishers, pc[p] = "reserved", StoreFull
                 PROVE  Evictable # NoFlow
      BY DEF FlowStoreSuffices
    <2>1. p \in Threads /\ held[p] # NoSlot /\ demoted = NoFlow
      BY DEF IndInv, PlaceInv, LoopInv, Threads
    <2>2. Evictable \in FlowKeys
      BY <2>1, EvictableExists DEF IndInv
    <2> QED
      BY <2>2, SlotsFinite
  <1>2. IndInv => QueueSound
    BY <1>1, SlotsAreConserved, FlowListsAreSound DEF QueueSound, IndInv
  <1> QED
    BY <1>2, QueueInvariant, PTL
=============================================================================
