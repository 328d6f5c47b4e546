------------------------- MODULE ActorInboxProofs -------------------------
(***************************************************************************)
(* Machine-checked proofs about ActorInbox: for every set of wakers, flags *)
(* and deadlines, every segment size, byte bound and batch limit, a        *)
(* blocked actor has lost no wakeup, the snapshot a timer yields to is in  *)
(* the queue, and a masked timer waits for that snapshot only.             *)
(***************************************************************************)
EXTENDS ActorInbox, TLAPS

(* The inductive invariant. *)

\* Only finish closes the queue.
ClosedWhenDone == closed <=> pc = "done"

\* The timer snapshot, the length read at the head of the loop and the
\* current batch never exceed what is queued: only the actor dequeues.
CountsBounded ==
    /\ pc # "done" => remaining <= Len(segments)
    /\ pc \in {"select", "take"} => queued <= Len(segments)
    /\ pc = "batch" => batch \in 1 .. Len(segments)

\* While timers are masked the snapshot is not exhausted before the batch is.
MaskedTurn ==
    /\ (pc \in {"select", "take"} /\ drain) => remaining # 0
    /\ (pc = "select" /\ drain) => inboundOpen
    /\ (pc = "batch" /\ drain) => batch <= remaining

\* Outside a batch a non-empty queue has its token.
SegmentsAnnounced == (pc \in {"turn", "select"} /\ segments # <<>>) => notify

\* Set flags are announced, about to be, or about to be taken.
FlagsAnnounced ==
    wakeFlags # {} => notify \/ pc \in {"take", "done"} \/ \E w \in Wakers : waker[w] = "notify"

\* A departure the loop head has not consumed is announced or about to be.
DepartureAnnounced == (pc = "select" /\ departure = "departed") => notify \/ sender

IndInv ==
    /\ TypeOK /\ ClosedWhenDone /\ CountsBounded /\ MaskedTurn
    /\ SegmentsAnnounced /\ FlagsAnnounced /\ DepartureAnnounced
-----------------------------------------------------------------------------
(* Lemmas about the operators. *)

\* receiveBatchLength takes at least one segment of a non-empty queue, at most
\* the length it was given, and no more than an unexhausted snapshot.
LEMMA BatchLengthBounds ==
    ASSUME NEW n \in Nat, remaining \in Nat
    PROVE  /\ BatchLength(n) \in Nat
           /\ BatchLength(n) <= n
           /\ n # 0 => BatchLength(n) # 0
           /\ remaining # 0 => BatchLength(n) <= remaining
  BY BatchPositive DEF BatchLength, Least

\* Removing the head of a non-empty queue shortens it by one.
LEMMA TailShorter ==
    ASSUME NEW S, NEW q \in Seq(S), q # <<>>
    PROVE  /\ Tail(q) \in Seq(S) /\ Head(q) \in S
           /\ Len(q) \in Nat \ {0} /\ Len(Tail(q)) = Len(q) - 1
           /\ Tail(q) # <<>> => Len(q) > 1
  OBVIOUS

\* Adding a segment lengthens the queue by one.
LEMMA AppendLonger ==
    ASSUME NEW S, NEW q \in Seq(S), NEW e \in S
    PROVE  /\ Append(q, e) \in Seq(S)
           /\ Len(q) \in Nat /\ Len(Append(q, e)) = Len(q) + 1
           /\ Append(q, e) # <<>>
  OBVIOUS

\* A queue is empty exactly when its length is zero.
LEMMA EmptyLength ==
    ASSUME NEW S, NEW q \in Seq(S)
    PROVE  Len(q) \in Nat /\ (Len(q) = 0 <=> q = <<>>)
  OBVIOUS
-----------------------------------------------------------------------------
\* Every step of the inbox preserves the inductive invariant.
LEMMA InductiveStep == IndInv /\ [Next]_vars => IndInv'
  <1> SUFFICES ASSUME IndInv, [Next]_vars PROVE IndInv'
    OBVIOUS
  <1> USE DEF IndInv
  <1> USE SizesPositive, BatchPositive, FlagSets
  <1>1. ASSUME NEW s \in Sizes, Enqueue(s) PROVE IndInv'
    <2>1. /\ segments' \in Seq(Sizes) /\ segments' # <<>>
          /\ Len(segments) \in Nat /\ Len(segments') = Len(segments) + 1
      BY <1>1, AppendLonger DEF Enqueue, TypeOK
    <2>2. TypeOK'
      BY <1>1, <2>1 DEF Enqueue, TypeOK, wakeVars, waitVars, timerVars, turnVars, backlogVars
    <2>3. SegmentsAnnounced'
      BY <1>1 DEF Enqueue, EnqueueNotifies, SegmentsAnnounced
    <2>4. FlagsAnnounced' /\ DepartureAnnounced' /\ ClosedWhenDone'
      BY <1>1 DEF Enqueue, FlagsAnnounced, DepartureAnnounced, ClosedWhenDone, wakeVars, waitVars
    <2>5. CountsBounded' /\ MaskedTurn'
      BY <1>1, <2>1 DEF Enqueue, TypeOK, CountsBounded, MaskedTurn, turnVars, backlogVars
    <2> QED
      BY <2>2, <2>3, <2>4, <2>5
  <1>2. ASSUME NEW w \in Wakers, WakeActor(w) PROVE IndInv'
    <2>1. PICK clear, set : PublishWake(w, clear, set) /\ set \subseteq Flags /\ set # {}
      BY <1>2 DEF WakeActor
    <2>2. TypeOK'
      BY <2>1 DEF PublishWake, TypeOK, queueVars, waitVars, timerVars, turnVars, backlogVars
    <2>3. FlagsAnnounced'
      BY <2>1 DEF PublishWake, WakeNotifies, TypeOK, FlagsAnnounced
    <2> QED
      BY <2>1, <2>2, <2>3 DEF PublishWake, ClosedWhenDone, CountsBounded, MaskedTurn, SegmentsAnnounced, DepartureAnnounced, queueVars, waitVars,
         timerVars, turnVars, backlogVars
  <1>3. ASSUME NEW w \in Wakers, SendWake(w) PROVE IndInv'
    BY <1>3 DEF SendWake, TypeOK, ClosedWhenDone, CountsBounded,
       MaskedTurn, SegmentsAnnounced, FlagsAnnounced, DepartureAnnounced, queueVars, waitVars, timerVars, turnVars, backlogVars
  <1>4. CASE Depart
    BY <1>4 DEF Depart, TypeOK, ClosedWhenDone, CountsBounded,
       MaskedTurn, SegmentsAnnounced, FlagsAnnounced, DepartureAnnounced, queueVars, wakeVars, timerVars, turnVars, backlogVars
  <1>5. CASE SendDeparture
    <2>1. TypeOK'
      BY <1>5 DEF SendDeparture, TypeOK, queueVars, wakeVars, timerVars, turnVars, backlogVars
    <2> QED
      BY <1>5, <2>1 DEF SendDeparture, ClosedWhenDone, CountsBounded,
       MaskedTurn, SegmentsAnnounced, FlagsAnnounced, DepartureAnnounced, queueVars, wakeVars, timerVars, turnVars, backlogVars
  <1>6. CASE Expire
    BY <1>6 DEF Expire, TypeOK, ClosedWhenDone, CountsBounded,
       MaskedTurn, SegmentsAnnounced, FlagsAnnounced, DepartureAnnounced, queueVars, wakeVars, waitVars, turnVars, backlogVars
  <1>7. CASE Turn
    <2>1. Len(segments) \in Nat
      BY EmptyLength DEF TypeOK
    <2>2. TypeOK'
      <3>1. /\ departure' \in {"none", "queued", "departed", "abandoned"}
            /\ queued' \in Nat /\ remaining' \in Nat
            /\ backlogDeadline' \in Deadlines \cup {NoDeadline}
        BY <1>7, <2>1 DEF Turn, TypeOK
      <3>2. drain' \in BOOLEAN /\ force' \in BOOLEAN /\ inboundOpen' \in BOOLEAN
        BY <1>7 DEF Turn
      <3>3. /\ pc' = "select"
            /\ UNCHANGED <<segments, bytes, closed, notify, wakeFlags, waker, sender,
                           deadline, expired, batch>>
        BY <1>7 DEF Turn, queueVars, wakeVars, timerVars
      <3> QED
        BY <3>1, <3>2, <3>3 DEF TypeOK
    <2> QED
      BY <1>7, <2>1, <2>2 DEF Turn, FreshSnapshot, TypeOK, ClosedWhenDone, CountsBounded,
       MaskedTurn, SegmentsAnnounced, FlagsAnnounced, DepartureAnnounced, queueVars, wakeVars, timerVars
  <1>8. CASE SelectTimer
    <2>1. TypeOK'
      BY <1>8 DEF SelectTimer, StartWait, TypeOK, queueVars, wakeVars, turnVars, backlogVars
    <2> QED
      BY <1>8, <2>1 DEF SelectTimer, ClosedWhenDone, CountsBounded,
       MaskedTurn, SegmentsAnnounced, FlagsAnnounced, DepartureAnnounced, queueVars, wakeVars, turnVars, backlogVars
  <1>9. CASE SelectNotify
    BY <1>9 DEF SelectNotify, TypeOK, ClosedWhenDone, CountsBounded,
       MaskedTurn, SegmentsAnnounced, FlagsAnnounced, DepartureAnnounced, queueVars, wakeVars, waitVars, timerVars, turnVars,
       backlogVars
  <1>10. CASE Take
    <2> DEFINE length == IF queued = 0 THEN Len(segments) ELSE queued
    <2>1. /\ Len(segments) \in Nat /\ length \in Nat /\ length <= Len(segments)
          /\ length = 0 => segments = <<>>
      BY <1>10, EmptyLength DEF Take, TypeOK, CountsBounded
    <2>2. /\ batch' = BatchLength(length) /\ batch' \in Nat /\ batch' <= Len(segments)
          /\ batch' = 0 => segments = <<>>
          /\ remaining # 0 => batch' <= remaining
      <3> HIDE DEF length
      <3> QED BY <1>10, <2>1, BatchLengthBounds DEF Take, TypeOK, length
    <2>3. TypeOK'
      BY <1>10, <2>2 DEF Take, Rearm, StartWait, TypeOK, queueVars, timerVars, backlogVars
    <2> QED
      BY <1>10, <2>2, <2>3 DEF Take, ClosedWhenDone, CountsBounded, MaskedTurn, SegmentsAnnounced,
         FlagsAnnounced, DepartureAnnounced, queueVars, backlogVars
  <1>11. CASE ProcessSegment
    <2>1. /\ segments' \in Seq(Sizes) /\ Head(segments) \in Sizes
          /\ Len(segments) \in Nat \ {0} /\ Len(segments') = Len(segments) - 1
          /\ segments' # <<>> => Len(segments) > 1
      BY <1>11, TailShorter DEF ProcessSegment, TypeOK
    <2>2. /\ batch \in Nat \ {0} /\ batch' = batch - 1 /\ batch <= Len(segments)
          /\ remaining' \in Nat /\ remaining' <= Len(segments')
      BY <1>11, <2>1 DEF ProcessSegment, Consumed, TypeOK, CountsBounded
    <2>3. bytes' \in Int
      BY <1>11, <2>1 DEF ProcessSegment, TypeOK
    <2>4. notify' \in BOOLEAN
      BY <1>11 DEF ProcessSegment
    <2>5. pc' \in {"turn", "batch"} /\ (pc' = "turn" <=> batch' = 0)
      BY <1>11 DEF ProcessSegment
    <2>6. TypeOK'
      <3>1. Rearm /\ StartWait /\ TypeOK
        BY <1>11 DEF ProcessSegment
      <3>2. deadline' \in Deadlines \cup {NoDeadline} /\ expired' \in BOOLEAN
        BY <3>1 DEF Rearm, TypeOK, timerVars
      <3>3. departure' \in {"none", "queued", "departed", "abandoned"}
        BY <3>1 DEF StartWait, TypeOK
      <3>4. /\ pc' \in {"turn", "select", "take", "batch", "done"}
            /\ queued' \in Nat /\ batch' \in Nat /\ remaining' \in Nat
        BY <1>11, <2>2, <2>5 DEF ProcessSegment, TypeOK
      <3>5. UNCHANGED <<closed, wakeFlags, waker, sender, drain, force, inboundOpen,
                        backlogDeadline>>
        BY <1>11 DEF ProcessSegment, wakeVars
      <3> QED
        BY <2>1, <2>3, <2>4, <3>1, <3>2, <3>3, <3>4, <3>5 DEF TypeOK
    <2>7. SegmentsAnnounced'
      BY <1>11, <2>1 DEF ProcessSegment, DequeueNotifies, SegmentsAnnounced
    <2>8. FlagsAnnounced'
      BY <1>11 DEF ProcessSegment, FlagsAnnounced, wakeVars
    <2>9. CountsBounded'
      BY <2>1, <2>2, <2>5 DEF CountsBounded
    <2>10. MaskedTurn'
      BY <1>11, <2>2, <2>5 DEF ProcessSegment, Consumed, MaskedTurn, TypeOK
    <2>11. ClosedWhenDone' /\ DepartureAnnounced'
      BY <1>11, <2>5 DEF ProcessSegment, ClosedWhenDone, DepartureAnnounced
    <2> QED
      BY <2>6, <2>7, <2>8, <2>9, <2>10, <2>11
  <1>14. CASE SelectOutput
    <2>1. Rearm /\ StartWait /\ TypeOK
      BY <1>14 DEF SelectOutput
    <2>2. deadline' \in Deadlines \cup {NoDeadline} /\ expired' \in BOOLEAN
      BY <2>1 DEF Rearm, TypeOK, timerVars
    <2>3. departure' \in {"none", "queued", "departed", "abandoned"}
      BY <2>1 DEF StartWait, TypeOK
    <2>4. TypeOK'
      BY <1>14, <2>1, <2>2, <2>3
      DEF SelectOutput, TypeOK, queueVars, wakeVars, turnVars, backlogVars
    <2> QED
      BY <1>14, <2>4 DEF SelectOutput, ClosedWhenDone, CountsBounded, MaskedTurn,
         SegmentsAnnounced, FlagsAnnounced, DepartureAnnounced, queueVars, wakeVars, turnVars,
         backlogVars
  <1>12. CASE Finish
    BY <1>12 DEF Finish, TypeOK, ClosedWhenDone, CountsBounded,
       MaskedTurn, SegmentsAnnounced, FlagsAnnounced, DepartureAnnounced, wakeVars, waitVars, timerVars, turnVars, backlogVars
  <1>13. CASE UNCHANGED vars
    BY <1>13 DEF vars, TypeOK, ClosedWhenDone, CountsBounded,
       MaskedTurn, SegmentsAnnounced, FlagsAnnounced, DepartureAnnounced, queueVars, wakeVars, waitVars, timerVars, turnVars, backlogVars
  <1> QED
    BY <1>1, <1>2, <1>3, <1>4, <1>5, <1>6, <1>7, <1>8, <1>9, <1>10, <1>11, <1>12, <1>13, <1>14
    DEF Next, Actor, Reactive, Producers

\* The inductive invariant holds in every reachable state of the inbox.
THEOREM InboxInvariant == Spec => []IndInv
  <1>1. Init => TypeOK
    <2> SUFFICES ASSUME Init PROVE TypeOK
      OBVIOUS
    <2>1. /\ segments \in Seq(Sizes) /\ bytes \in Int
          /\ queued \in Nat /\ batch \in Nat /\ remaining \in Nat
      BY DEF Init
    <2>2. waker \in [Wakers -> {"idle", "notify"}] /\ wakeFlags \subseteq Flags
      BY DEF Init
    <2> QED
      BY <2>1, <2>2 DEF Init, TypeOK
  <1>2. Init => IndInv
    BY <1>1 DEF Init, IndInv, ClosedWhenDone, CountsBounded,
       MaskedTurn, SegmentsAnnounced, FlagsAnnounced, DepartureAnnounced
  <1> QED
    BY <1>2, InductiveStep, PTL DEF Spec

\* The counters, flags and positions of the inbox keep their types.
THEOREM TypeCorrect == Spec => []TypeOK
  BY InboxInvariant, PTL DEF IndInv

\* An actor blocked in its select has missed no segment, wake flag or
\* departure: the token is there, or its sender is between publishing the
\* work and sending it (enqueueLocked, dequeue, updateActorWake, depart).
THEOREM WakeupsAreNotLost == Spec => []NoLostWakeup
  <1>1. IndInv => NoLostWakeup
    BY DEF IndInv, SegmentsAnnounced, FlagsAnnounced, DepartureAnnounced, NoLostWakeup
  <1> QED
    BY <1>1, InboxInvariant, PTL

\* A snapshot that masks the timers is still queued and announced, and a
\* batch never runs past the queue (tcpTimerBacklog, receiveBatchLength).
THEOREM SnapshotsStayQueued == Spec => []SnapshotStillQueued
  <1>1. IndInv => SnapshotStillQueued
    <2> SUFFICES ASSUME IndInv PROVE SnapshotStillQueued
      OBVIOUS
    <2>1. Len(segments) \in Nat /\ (Len(segments) = 0 <=> segments = <<>>)
      BY EmptyLength DEF IndInv, TypeOK
    <2>2. closed \/ remaining <= Len(segments)
      BY DEF IndInv, ClosedWhenDone, CountsBounded
    <2>3. pc = "batch" => batch \in 1 .. Len(segments)
      BY DEF IndInv, CountsBounded
    <2>4. (pc = "select" /\ drain) => segments # <<>>
      BY <2>1 DEF IndInv, TypeOK, CountsBounded, MaskedTurn
    <2>5. (pc = "select" /\ drain) => (notify /\ inboundOpen)
      BY <2>4 DEF IndInv, MaskedTurn, SegmentsAnnounced
    <2> QED
      BY <2>2, <2>3, <2>4, <2>5 DEF SnapshotStillQueued
  <1> QED
    BY <1>1, InboxInvariant, PTL

\* While the timers are masked the actor takes only segments that were queued
\* when the deadline expired: later arrivals never delay a due timer.
THEOREM TimersWaitForTheSnapshotOnly == Spec => LateArrivalsDoNotDelayTimers
  <1>1. IndInv => ((ProcessSegment /\ drain) => remaining > 0)
    BY DEF IndInv, TypeOK, CountsBounded, MaskedTurn, ProcessSegment
  <1>2. IndInv /\ [Next]_vars => [(ProcessSegment /\ drain) => remaining > 0]_vars
    BY <1>1
  <1> QED
    BY <1>2, InboxInvariant, PTL DEF Spec, LateArrivalsDoNotDelayTimers

\* What the actor relies on when it blocks and when it masks its timers holds
\* in every state (enqueueLocked, dequeue, tcpTimerBacklog).
THEOREM InboxIsSound == Spec => []InboxSound
  BY WakeupsAreNotLost, SnapshotsStayQueued, PTL DEF InboxSound
=============================================================================
