------------------------------ MODULE TCPSend ------------------------------
(***************************************************************************)
(* The sending half of an established connection: the send buffer, the     *)
(* retransmission scoreboard, acknowledgement processing, SACK/RACK and    *)
(* timeout recovery with F-RTO and DSACK undo, tail-loss probes, zero-     *)
(* window persist, and the shared retransmission timer, against a network  *)
(* that loses and reorders and a device queue that may be full.            *)
(*                                                                         *)
(* The stream is counted in units of one full segment: 0 .. written-1 are  *)
(* data and unit `written' is the FIN.  Sequence numbers are unbounded     *)
(* naturals.  Every turn of the connection's actor is one action, and the  *)
(* actor's state is one record, so that the steps of a turn compose as     *)
(* operators on that record in the order of the code.                      *)
(*                                                                         *)
(* Time is abstract: an armed deadline passes when nothing else is under   *)
(* way, or earlier as one of the adverse events a behaviour may have.      *)
(* The congestion window and pacing are abstract too: each turn admits a   *)
(* chosen number of units, at least one when nothing is in flight.         *)
(* Timestamps and ECN are not negotiated.                                  *)
(***************************************************************************)
EXTENDS Naturals, Sequences, FiniteSets, SequencesExt, FiniteSetsExt

CONSTANTS Data,        \* units the application writes
          SendCapacity,\* units the send buffer holds
          Slots,       \* slots of the device queue
          Window,      \* receive window of the peer, in units
          DupThresh,   \* tcpDuplicateACKThreshold
          MaxRTOs,     \* tcpMaximumRTOs, the retry budgets
          MaxAcks,     \* acknowledgements in flight at most
          MaxFaults,   \* losses, delays, early timeouts, stalls, reneges, MTU changes
          Paths,       \* the paths of Idle below
          None,        \* no unit
          Probe,       \* the packet of a zero-window probe
          Replaced     \* a generation that a newer transmission superseded

ASSUME SendConstants ==
    /\ {Data, SendCapacity, Slots, Window, DupThresh, MaxRTOs} \subseteq Nat \ {0}
    /\ {MaxAcks, MaxFaults} \subseteq Nat
    /\ Paths \subseteq [sack : BOOLEAN, early : BOOLEAN, late : BOOLEAN, valid : BOOLEAN]

VARIABLES s,           \* tcpEstablishedState and the fields of TCPConn it reads
          net,         \* packets that left the device queue and are delayed
          acks,        \* acknowledgements that travel back
          peer,        \* the receiver: what it holds and its window
          faults       \* adverse events so far

vars == <<s, net, acks, peer, faults>>

FRTO == {"Inactive", "TimeoutPending", "AwaitingACK", "ProbePending",
         "ProbeSent", "FallbackPending"}
Kinds == {"RTO", "Probe", "RACK", "SACKReneging", "PathMTU"}
Units == 0 .. Data     \* the FIN is unit Data at the latest

(***************************************************************************)
(* The scoreboard.                                                         *)
(***************************************************************************)
Flight(t) == t.una .. (t.nxt - 1)
Unsacked(t) == Flight(t) \ t.sacked
LowestOf(S) == CHOOSE u \in S : \A v \in S : u <= v
HighestOf(S) == CHOOSE u \in S : \A v \in S : v <= u

(* The index functions return the fallback of the code when every range is
   SACKed; a caller has a non-empty flight.                                 *)
FirstUnsacked(t) == IF Unsacked(t) = {} THEN t.una ELSE LowestOf(Unsacked(t))
LastUnsacked(t) == IF Unsacked(t) = {} THEN t.nxt - 1 ELSE HighestOf(Unsacked(t))

IsLost(t, u) == \/ u \in t.rackLost
                \/ Cardinality({v \in t.sacked : v > u}) >= DupThresh
UnretriedLosses(t) == {u \in Unsacked(t) \ t.retried : IsLost(t, u)}
UnretriedHoles(t) == {u \in Unsacked(t) \ t.retried :
                        \E v \in t.sacked : u < v}
RACKLosses(t) == t.rackLost \ t.sacked
HasRACKLoss(t) == t.rackLost \ t.retried # {}

(* newer lists, in the order of publication, the ranges whose latest
   transmission is later than the newest one known to be delivered.  A range
   in flight that it does not list is what RACK may declare lost.           *)
RACKEligible(t) == Unsacked(t) \ ToSet(t.newer)
DropThrough(q, S) ==
    LET last == Max({0} \cup {i \in DOMAIN q : q[i] \in S})
    IN  SubSeq(q, last + 1, Len(q))
Delivered(t, S) ==
    LET fresh == {u \in S : u \in ToSet(t.newer) /\ (t.count[u] = 0 \/ t.valid)}
        latest == t.newer[Max({i \in DOMAIN t.newer : t.newer[i] \in fresh})]
    IN  IF fresh = {} THEN t
        ELSE [t EXCEPT !.newer = DropThrough(@, fresh),
                       !.rackRetransmitted = t.count[latest] > 0]

MarkRACKLoss(t, late) ==
    LET lost == IF late THEN RACKEligible(t) ELSE {}
        m == [t EXCEPT !.rackLost = @ \cup lost, !.retried = @ \ lost]
    IN  [m EXCEPT !.haveRACKLoss = HasRACKLoss(m)]

(***************************************************************************)
(* The shared retransmission timer.  timer.due says whether a deadline is  *)
(* set or was consumed; base stands for a nonzero sendTimer.baseDeadline.  *)
(***************************************************************************)
Arm(t, kind) == [t EXCEPT !.timer = [on |-> TRUE, due |-> TRUE, kind |-> kind]]
Consume(t, kind) == [t EXCEPT !.timer = [on |-> TRUE, due |-> FALSE, kind |-> kind]]
Disarm(t) == [t EXCEPT !.timer = [on |-> FALSE, due |-> FALSE, kind |-> "RTO"]]

RenegingSuspected(t) == t.sack /\ t.una \in t.sacked /\ t.wnd # 0
ArmSACKReneging(t) ==
    IF t.timer.kind = "SACKReneging" /\ t.timer.on /\ t.timer.due THEN t
    ELSE Arm(t, "SACKReneging")

ProbeAllowed(t) == /\ t.sack /\ t.wnd # 0 /\ ~t.tlp.active /\ t.rttFresh
                   /\ ~t.fast /\ ~t.rto /\ t.sacked = {}
RACKAllowed(t) == /\ t.sack /\ t.wnd # 0
                  /\ t.sacked # {} \/ t.rackRetransmitted
                  /\ RACKEligible(t) \ t.rackLost # {}

SelectRetransmission(t) ==
    IF Flight(t) = {} THEN [Disarm(t) EXCEPT !.base = FALSE]
    ELSE LET b == [t EXCEPT !.base = TRUE]
         IN  IF RenegingSuspected(t) THEN ArmSACKReneging(b)
             ELSE Arm(b, CASE t.early /\ RACKAllowed(t) -> "RACK"
                           [] t.early /\ ~RACKAllowed(t) /\ ProbeAllowed(t) -> "Probe"
                           [] OTHER -> "RTO")

ReselectRetransmission(t) ==
    IF Flight(t) = {} THEN SelectRetransmission(t)
    ELSE IF RenegingSuspected(t) THEN ArmSACKReneging(t)
    ELSE LET b == [t EXCEPT !.base = TRUE]
             running == t.timer.on /\ t.timer.due /\ t.timer.kind = "Probe"
         IN  IF t.wnd = 0
             THEN IF t.timer.on /\ ~t.timer.due /\ t.timer.kind = "RTO" THEN b
                  ELSE Arm(b, "RTO")
             ELSE Arm(b, CASE t.early /\ RACKAllowed(t) -> "RACK"
                           [] ~(t.early /\ RACKAllowed(t)) /\ running /\ t.sacked = {} -> "Probe"
                           [] OTHER -> "RTO")

DropPersist(t) == [t EXCEPT !.persist = FALSE, !.unanswered = 0, !.closedProbes = 0,
                            !.probeTicket = FALSE]

(* Mutant: an output that preserves the timer does not start a stopped one.  *)
UpdateTimerKeeps(t, update) ==
    CASE t.timer.on /\ t.timer.kind = "PathMTU" -> t
      [] ~(t.timer.on /\ t.timer.kind = "PathMTU") /\ Flight(t) = {} ->
            IF t.persist THEN t ELSE SelectRetransmission(t)
      [] OTHER ->
            LET p == IF t.persist THEN [DropPersist(t) EXCEPT !.base = FALSE] ELSE t
            IN  CASE update = "Restart" -> SelectRetransmission(p)
                  [] update = "Reselect" -> ReselectRetransmission(p)
                  [] update = "Preserve" -> p

UpdateTimer(t, update) ==
    CASE t.timer.on /\ t.timer.kind = "PathMTU" -> t
      [] ~(t.timer.on /\ t.timer.kind = "PathMTU") /\ Flight(t) = {} ->
            IF t.persist THEN t ELSE SelectRetransmission(t)
      [] OTHER ->
            LET p == IF t.persist THEN [DropPersist(t) EXCEPT !.base = FALSE] ELSE t
            IN  CASE update = "Restart" -> SelectRetransmission(p)
                  [] update = "Reselect" -> ReselectRetransmission(p)
                  [] update = "Preserve" ->
                        IF p.timer.on /\ p.timer.due THEN p
                        ELSE SelectRetransmission(p)

(***************************************************************************)
(* Output.  A turn reserves slots of the device queue without blocking.    *)
(***************************************************************************)
Free(t) == Slots - Len(t.queue)

TimerOutputPending(t) ==
    /\ t.wait = None
    /\ t.timer.on /\ ~t.timer.due /\ t.timer.kind \in {"RTO", "Probe"}

PersistOutputPending(t) ==
    /\ t.persist /\ ~t.base /\ t.wait = None
    /\ t.wnd = 0 /\ Flight(t) = {}

Publish(t, u) ==
    [t EXCEPT !.queue = Append(@, u),
              !.newer = IF t.sack THEN Append(Remove(@, u), u) ELSE @,
              !.wait = IF @ = u THEN Replaced ELSE @]

RecordUndo(t, u) ==
    IF ~t.undo.active THEN t
    ELSE [t EXCEPT !.undo.off = @ \/ t.count[u] > 0,
                   !.undo.ranges = IF u \in ToSet(@) THEN @ ELSE Append(@, u)]

Counted(t, u) == [t EXCEPT !.count[u] = IF @ = 2 THEN 2 ELSE @ + 1]

(* One published retransmission of a recovery: its history, the undo record
   of the episode, and the marks of the new generation.                     *)
Retransmit(t, u) ==
    LET r == Counted(RecordUndo(Publish(t, u), u), u)
        m == [r EXCEPT !.retried = @ \cup {u}, !.rackLost = @ \ {u}]
    IN  [m EXCEPT !.haveRACKLoss = IF u \in t.rackLost THEN HasRACKLoss(m) ELSE @]

NoProbe == [active |-> FALSE, retransmit |-> FALSE, end |-> 0]

(* New sequence space: the window of the peer and what was written bound it. *)
Beyond(t, limit) == LET edge == IF t.una + t.wnd < limit THEN t.una + t.wnd ELSE limit
                    IN  IF t.fin \/ edge <= t.nxt THEN 0 ELSE edge - t.nxt
DataAvailable(t) == Beyond(t, t.written)
Available(t) == Beyond(t, IF t.writeClosed THEN t.written + 1 ELSE t.written)

SendUnits(t, n) ==
    LET sent == FoldLeft(Publish, t, [i \in 1 .. n |-> t.nxt + i - 1])
    IN  [sent EXCEPT !.nxt = @ + n,
                     !.fin = @ \/ t.nxt + n > t.written]

(* retransmitRTORecovery; nothing is sent into a closed window.              *)
RTORecoveryBlocked(t) == Flight(t) # {} /\ t.wnd # 0 /\ Free(t) = 0
RetransmitRTORecovery(t, u) ==
    IF Flight(t) = {} \/ t.wnd = 0 THEN t
    ELSE [Retransmit(t, u) EXCEPT !.tlp = NoProbe]

(* F-RTO's second step: up to two new units, or the conventional recovery
   when the application has none.                                           *)
FRTOFallback(t) ==
    IF RTORecoveryBlocked(t) THEN [t EXCEPT !.frto = "FallbackPending", !.budget = 0,
                                            !.recoveryWaiting = TRUE]
    ELSE [(IF Flight(t) = {} THEN t ELSE RetransmitRTORecovery(t, FirstUnsacked(t)))
             EXCEPT !.frto = "Inactive", !.budget = 0]
FRTOProbed(t, blocked) ==
    CASE blocked -> t
      [] ~blocked /\ t.budget = 2 -> FRTOFallback(t)
      [] ~blocked /\ t.budget # 2 -> [t EXCEPT !.frto = "ProbeSent", !.budget = 0]
FRTOProbes(t) ==
    LET want == Min({t.budget, DataAvailable(t)})
        sent == Min({want, Free(t)})
    IN  IF t.frto # "ProbePending" THEN t
        ELSE FRTOProbed([SendUnits(t, sent) EXCEPT !.budget = @ - sent], sent < want)

(* Persist is needed only when nothing is in flight and the closed window
   keeps data or the FIN back.                                              *)
PersistNeeded(t) == /\ Flight(t) = {} /\ ~t.fin
                    /\ t.nxt < t.written \/ t.writeClosed
ArmPersist(t) ==
    CASE PersistNeeded(t) /\ t.wnd = 0 /\ ~t.persist ->
            [t EXCEPT !.persist = TRUE, !.base = TRUE]
      [] t.wnd # 0 \/ ~PersistNeeded(t) ->
            [DropPersist(t) EXCEPT !.base = t.timer.on /\ t.base]
      [] OTHER -> t

ProbesBlocked(t, f) == t.frto = "ProbePending" /\ f.frto \in {"ProbePending", "FallbackPending"}
Admitted(t, room) == Min({Available(t), IF Flight(t) = {} THEN Max({1, room}) ELSE room})
FillOrdinary(t, blocked, want, update) ==
    LET sent == IF blocked THEN 0 ELSE Min({want, Free(t)})
    IN  [ArmPersist(UpdateTimer(SendUnits(t, sent), update))
            EXCEPT !.ordinaryWaiting = t.ordinaryWaiting \/ (~t.fin /\ (blocked \/ sent < want))]
FillAfterProbes(t, f, update, room) ==
    FillOrdinary(f, ProbesBlocked(t, f), Admitted(f, room), update)
FillWindow(t, update, room) ==
    IF TimerOutputPending(t) \/ PersistOutputPending(t) THEN t
    ELSE FillAfterProbes(t, FRTOProbes(t), update, room)

(* One consumed RTO or tail-loss probe, published from current state.        *)
DrainTimerOutput(t) ==
    LET rto == Retransmit(t, t.una)
        resumed == [rto EXCEPT !.frto = IF @ = "TimeoutPending" THEN "AwaitingACK" ELSE @]
        last == LastUnsacked(t)
        fresh == DataAvailable(t) > 0
        probe == IF fresh THEN SendUnits(t, 1) ELSE Counted(Publish(t, last), last)
        marked == [probe EXCEPT !.tlp = [active |-> TRUE, retransmit |-> ~fresh, end |-> probe.nxt],
                                !.rttFresh = FALSE]
    IN  CASE ~TimerOutputPending(t) -> t
          [] TimerOutputPending(t) /\ Flight(t) = {} -> SelectRetransmission(t)
          [] TimerOutputPending(t) /\ Flight(t) # {} /\ Free(t) = 0 -> t
          [] TimerOutputPending(t) /\ Flight(t) # {} /\ Free(t) # 0 ->
                SelectRetransmission(IF t.timer.kind = "RTO" THEN resumed ELSE marked)

(* One due zero-window probe: a byte of acknowledged sequence space.         *)
(* Mutant: a published probe does not arm the next one.                      *)
DrainPersistOnce(t) ==
    LET p == [t EXCEPT !.queue = Append(@, Probe), !.probeTicket = TRUE, !.persist = FALSE,
                       !.unanswered = Min({MaxRTOs, @ + 1}),
                       !.closedProbes = IF t.released THEN Min({MaxRTOs, @ + 1}) ELSE @]
        q == p
    IN  CASE ~PersistOutputPending(t) -> t
          [] PersistOutputPending(t) /\ (IF t.released THEN t.closedProbes ELSE t.unanswered) >= MaxRTOs ->
                [t EXCEPT !.outcome = "failed"]
          [] OTHER -> IF Free(t) = 0 THEN t
                      ELSE [q EXCEPT !.wait = IF ~t.released /\ q.persist /\ q.unanswered = MaxRTOs
                                              THEN Probe ELSE @]

DrainPersistOutput(t) ==
    LET p == [t EXCEPT !.queue = Append(@, Probe), !.probeTicket = TRUE, !.persist = FALSE,
                       !.unanswered = Min({MaxRTOs, @ + 1}),
                       !.closedProbes = IF t.released THEN Min({MaxRTOs, @ + 1}) ELSE @]
        q == ArmPersist(p)
    IN  CASE ~PersistOutputPending(t) -> t
          [] PersistOutputPending(t) /\ (IF t.released THEN t.closedProbes ELSE t.unanswered) >= MaxRTOs ->
                [t EXCEPT !.outcome = "failed"]
          [] OTHER -> IF Free(t) = 0 THEN t
                      ELSE [q EXCEPT !.wait = IF ~t.released /\ q.persist /\ q.unanswered = MaxRTOs
                                              THEN Probe ELSE @]

(***************************************************************************)
(* Recovery episodes and their undo.                                       *)
(***************************************************************************)
NoTransport == [fast |-> FALSE, rto |-> FALSE, frto |-> "Inactive", budget |-> 0,
                reneging |-> FALSE, recoveryPoint |-> 0, rtoPoint |-> 0, attempts |-> 0]
NoUndo == [active |-> FALSE, ranges |-> <<>>, duplicated |-> {}, off |-> FALSE,
           transport |-> NoTransport]

RecoveryTransport(t, timeout) ==
    IF t.fast \/ t.rto \/ t.frto # "Inactive" \/ t.reneging
    THEN [fast |-> t.fast, rto |-> t.rto, frto |-> t.frto, budget |-> t.budget,
          reneging |-> t.reneging, recoveryPoint |-> t.recoveryPoint, rtoPoint |-> t.rtoPoint,
          attempts |-> IF timeout /\ t.attempts # 0 THEN t.attempts - 1 ELSE t.attempts]
    ELSE NoTransport

BeginUndo(t, timeout) ==
    [t EXCEPT !.undo = [NoUndo EXCEPT !.active = TRUE, !.transport = RecoveryTransport(t, timeout)]]

(* prepareRetransmission after a timeout: the recovery point is this timeout's,
   and F-RTO starts unless an earlier episode forbids it.                   *)
PrepareTimeout(t) ==
    LET eligible == ~t.fast /\ ~t.reneging /\ (~t.rto \/ t.attempts > 1)
        u == IF t.rto THEN t ELSE BeginUndo(t, TRUE)
    IN  [u EXCEPT !.tlp = NoProbe, !.rto = TRUE, !.rtoPoint = t.nxt,
                  !.frto = IF eligible THEN "TimeoutPending" ELSE "Inactive", !.budget = 0,
                  !.fast = FALSE, !.retried = {}, !.rackLost = {}, !.haveRACKLoss = FALSE]

(* prepareRetransmission for loss evidence about unit u: the first evidence,
   or a lost retransmission, opens an episode.                              *)
EnterRecovery(t, u) ==
    LET lostAgain == u \in t.rackLost /\ t.count[u] > 0
        opened == [BeginUndo(t, FALSE) EXCEPT !.fast = TRUE, !.recoveryPoint = t.nxt]
    IN  IF Flight(t) = {} THEN t
        ELSE [(IF ~t.fast \/ lostAgain THEN opened ELSE t) EXCEPT !.tlp = NoProbe]
LossTarget(t) == IF UnretriedLosses(t) = {} THEN FirstUnsacked(t) ELSE LowestOf(UnretriedLosses(t))

EndTimeoutRecovery(t) == [t EXCEPT !.rto = FALSE, !.rtoPoint = 0, !.reneging = FALSE]
EndFRTO(t) == [t EXCEPT !.frto = "Inactive", !.budget = 0]

(* Mutant: an enclosing fast recovery is restored although it has ended.     *)
RestoreTransportAsWas(t, advanced) ==
    LET b == t.undo.transport
        rto == b.rto /\ (b.frto # "Inactive" \/ t.una < b.rtoPoint)
    IN  [t EXCEPT !.fast = b.fast, !.recoveryPoint = b.recoveryPoint,
                  !.rto = rto, !.rtoPoint = IF rto THEN b.rtoPoint ELSE 0,
                  !.frto = IF rto THEN b.frto ELSE "Inactive",
                  !.budget = IF rto THEN b.budget ELSE 0,
                  !.reneging = rto /\ b.reneging,
                  !.attempts = IF advanced THEN @ ELSE b.attempts,
                  !.undo.active = FALSE]

(* restoreRecoveryTransportState: back to the enclosing episode, unless the
   acknowledgements that arrived meanwhile have ended it.                   *)
RestoreTransport(t, advanced) ==
    LET b == t.undo.transport
        rto == b.rto /\ (b.frto # "Inactive" \/ t.una < b.rtoPoint)
    IN  [t EXCEPT !.fast = b.fast /\ t.una < b.recoveryPoint, !.recoveryPoint = b.recoveryPoint,
                  !.rto = rto, !.rtoPoint = IF rto THEN b.rtoPoint ELSE 0,
                  !.frto = IF rto THEN b.frto ELSE "Inactive",
                  !.budget = IF rto THEN b.budget ELSE 0,
                  !.reneging = rto /\ b.reneging,
                  !.attempts = IF advanced THEN @ ELSE b.attempts,
                  !.undo.active = FALSE]

RestoreSpurious(t, advanced) ==
    CASE t.undo.active -> RestoreTransport(t, advanced)
      [] ~t.undo.active /\ t.frto # "Inactive" -> EndTimeoutRecovery(EndFRTO(t))
      [] OTHER -> t

PathMTUPending(t) == t.timer.on /\ t.timer.kind = "PathMTU"
RecoveryPending(t) ==
    \/ PathMTUPending(t)
    \/ (t.rto \/ t.fast \/ t.haveRACKLoss) /\ (t.wnd # 0 \/ Flight(t) = {})

DrainPathMTU(t) ==
    LET r == Retransmit(t, FirstUnsacked(t))
        resumed == [r EXCEPT !.haveRACKLoss = HasRACKLoss(r),
                             !.frto = IF @ = "TimeoutPending" THEN "AwaitingACK" ELSE @]
    IN  CASE ~PathMTUPending(t) -> t
          [] PathMTUPending(t) /\ Flight(t) = {} -> SelectRetransmission(t)
          [] OTHER -> IF Free(t) = 0 THEN [t EXCEPT !.recoveryWaiting = TRUE]
                      ELSE SelectRetransmission(resumed)

(* The ranges an RTO recovery without F-RTO retries.                         *)
RTOTargets(t) == CASE t.sack -> RACKLosses(t)
                   [] ~t.sack -> {FirstUnsacked(t)} \ t.retried

DrainRTO(t) ==
    IF ~t.rto \/ t.frto # "Inactive" \/ Flight(t) = {} \/ RTOTargets(t) = {} \/ t.wnd = 0 THEN t
    ELSE IF Free(t) = 0 THEN [t EXCEPT !.recoveryWaiting = TRUE]
    ELSE RetransmitRTORecovery(t, LowestOf(RTOTargets(t)))

Ascending(S) == SetToSortSeq(S, LAMBDA u, v : u < v)

(* SACK recovery: the proven losses in order, then the remaining holes, as far
   as the congestion window and the device queue admit.                     *)
DrainScoreboard(t, room) ==
    LET holes == IF t.fast THEN UnretriedHoles(t) \ UnretriedLosses(t) ELSE {}
        targets == CASE t.sack /\ (t.fast \/ t.haveRACKLoss) ->
                            Ascending(UnretriedLosses(t)) \o Ascending(holes)
                     [] ~t.sack /\ t.fast -> Ascending({FirstUnsacked(t)} \ t.retried)
                     [] OTHER -> <<>>
        want == IF t.sack /\ t.fast THEN Min({Len(targets), room}) ELSE Len(targets)
        sent == Min({want, Free(t)})
        r == FoldLeft(Retransmit, t, SubSeq(targets, 1, sent))
    IN  IF Flight(t) = {} THEN t
        ELSE [r EXCEPT !.recoveryWaiting = @ \/ sent < want]

DrainFallback(t) == IF RTORecoveryBlocked(t) THEN [t EXCEPT !.recoveryWaiting = TRUE]
                    ELSE EndFRTO(IF Flight(t) = {} THEN t
                                 ELSE RetransmitRTORecovery(t, FirstUnsacked(t)))
DrainLosses(t, room) == IF t.rto /\ t.frto = "FallbackPending" THEN DrainFallback(t)
                        ELSE DrainScoreboard(DrainRTO(t), room)
DrainRecovery(t, room) ==
    CASE ~RecoveryPending(t) \/ TimerOutputPending(t) \/ PersistOutputPending(t) -> t
      [] PathMTUPending(t) /\ Flight(t) # {} /\ Free(t) = 0 -> [t EXCEPT !.recoveryWaiting = TRUE]
      [] OTHER -> DrainLosses(DrainPathMTU(t), room)

(***************************************************************************)
(* processAcknowledgment, stage by stage.  b is the state at its entry and *)
(* t the state the earlier stages left; partial is local to the call.      *)
(***************************************************************************)
Advances(b, a) == a.ack > b.una
OldACK(b, a) == a.ack < b.una

(* tcpWindowUpdate.  Its tests of SEG.SEQ are left out: this peer sends no data, so
   every acknowledgement of its has the sequence number of the one before. *)
PeerWindow(b, a) == IF /\ ~OldACK(b, a)
                       /\ Advances(b, a) \/ a.wnd > b.wnd \/ a.wnd = 0
                    THEN [b EXCEPT !.wnd = a.wnd] ELSE b

(* The cumulative part: ranges leave the scoreboard, and the recovery and the
   tail-loss probe they conclude end.                                       *)
RTORecoveryAdvances(t, a) ==
    IF t.rto /\ a.ack >= t.rtoPoint /\ t.frto = "Inactive" THEN EndTimeoutRecovery(t)
    ELSE [t EXCEPT !.partial = t.rto]
RemoveAcked(t, a, acked) ==
    [t EXCEPT !.una = a.ack, !.duplicates = 0, !.attempts = 0,
              !.sacked = @ \ acked, !.retried = @ \ acked, !.rackLost = @ \ acked,
              !.newer = SelectSeq(@, LAMBDA u : u \notin acked),
              !.rttFresh = @ \/ \A u \in acked : t.count[u] = 0,
              !.tlp = IF @.active /\ (IF @.retransmit THEN a.ack > @.end ELSE a.ack >= @.end)
                      THEN NoProbe ELSE @]
FastRecoveryAdvances(t, a) ==
    CASE t.fast /\ a.ack >= t.recoveryPoint -> [t EXCEPT !.fast = FALSE]
      [] t.fast /\ a.ack < t.recoveryPoint /\ ~t.sack /\ Flight(t) # {} ->
            [EnterRecovery(t, FirstUnsacked(t)) EXCEPT !.retried = @ \ {FirstUnsacked(t)}]
      [] OTHER -> t
Cumulative(b, a) ==
    LET acked == b.una .. (a.ack - 1)
        f == IF b.frto = "FallbackPending" THEN EndFRTO(b) ELSE b
    IN  IF Advances(b, a)
        THEN FastRecoveryAdvances(
                RemoveAcked(Delivered(RTORecoveryAdvances(f, a), acked), a, acked), a)
        ELSE [b EXCEPT !.unanswered = IF b.persist /\ ~OldACK(b, a) THEN 0 ELSE @]

Reneging(t, b, a) == Advances(b, a) /\ t.sack /\ Flight(t) # {} /\ t.una \in t.sacked

(* DSACK evidence about one unit (RFC 3708).                                 *)
ObservedDuplicate(t, b, a) ==
    /\ t.undo.active /\ ~t.undo.off
    /\ ~(b.sacked = {} /\ a.dsack = b.una)
    /\ a.dsack \in ToSet(t.undo.ranges)
AllDuplicated(t, a) == \A u \in ToSet(t.undo.ranges) :
                          (u \in t.undo.duplicated \/ u = a.dsack) /\ u < t.una
ProvenSpurious(t, b, a) == /\ a.dsack # None /\ ~t.dsackOff
                           /\ t.count[a.dsack] = 1
                           /\ ObservedDuplicate(t, b, a) /\ AllDuplicated(t, a)

ObserveDSACK(t, b, a) ==
    LET d == a.dsack
        p == IF t.tlp.active /\ t.tlp.retransmit /\ d + 1 = t.tlp.end
             THEN [t EXCEPT !.tlp = NoProbe] ELSE t
    IN  CASE d = None -> t
          [] d # None /\ t.dsackOff -> p
          [] d # None /\ ~t.dsackOff ->
             CASE t.count[d] = 0 -> [p EXCEPT !.dsackOff = TRUE, !.undo.off = TRUE]
               [] t.count[d] = 2 -> [p EXCEPT !.undo.off = TRUE]
               [] OTHER ->
                  CASE ObservedDuplicate(t, b, a) -> [p EXCEPT !.undo.duplicated = @ \cup {d}]
                    [] OTHER -> [p EXCEPT !.undo.off = @ \/ t.undo.active]

(* The selective part.                                                       *)
(* Mutant: selective acknowledgements are not limited to the flight.         *)
ReportedUnchecked(t, a) == IF t.sack THEN a.sack ELSE {}

Reported(t, a) == IF t.sack THEN a.sack \cap Flight(t) ELSE {}
NewlySACKed(t, a) == Reported(t, a) \ t.sacked
ApplySACK(t, a, reneging) ==
    LET new == NewlySACKed(t, a)
        m == Delivered([t EXCEPT !.sacked = @ \cup new,
                                 !.rttFresh = @ \/ \E u \in new : t.count[u] = 0], new)
    IN  IF ~t.sack \/ Flight(t) = {} THEN t
        ELSE IF ~reneging /\ (m.rackRetransmitted \/ m.sacked # {}) THEN MarkRACKLoss(m, m.late)
        ELSE m

DuplicateEvidence(t, b, a, new) ==
    IF t.sack THEN new # {}
    ELSE ~Advances(b, a) /\ a.ack = t.una /\ b.wnd = t.wnd

(* F-RTO's verdict on this acknowledgement (RFC 5682).                       *)
FRTOVerdict(t, b, a, new, duplicate) ==
    LET published == t.frto = "ProbeSent" \/ (t.frto = "ProbePending" /\ t.budget < 2)
        original == \E u \in new : t.count[u] = 0 /\ u < t.rtoPoint
        beyond == a.ack > t.rtoPoint \/ \E u \in Reported(t, a) : u >= t.rtoPoint
        adv == Advances(b, a)
    IN  CASE t.frto = "TimeoutPending" -> IF adv THEN "spurious" ELSE "none"
          [] t.frto # "TimeoutPending" /\ published /\ t.sack ->
                CASE ~beyond /\ (adv \/ original) -> "spurious"
                  [] beyond \/ (duplicate /\ ~original /\ ~adv) -> "fallback"
                  [] OTHER -> "none"
          [] t.frto # "TimeoutPending" /\ published /\ ~t.sack ->
                CASE adv -> "spurious" [] ~adv /\ duplicate -> "fallback" [] OTHER -> "none"
          [] t.frto # "TimeoutPending" /\ ~published ->
                CASE adv /\ (\/ t.undo.ranges = <<>> \/ a.ack <= t.undo.ranges[1]
                             \/ a.ack >= t.rtoPoint) -> "fallback"
                  [] adv /\ t.undo.ranges # <<>> /\ a.ack > t.undo.ranges[1]
                         /\ a.ack < t.rtoPoint -> "probe"
                  [] ~adv /\ ~t.sack /\ duplicate -> "fallback"
                  [] OTHER -> "none"

ApplyFRTO(t, b, a, new, duplicate, reneging) ==
    LET p == IF t.frto = "FallbackPending" /\ (duplicate \/ reneging) THEN EndFRTO(t) ELSE t
        verdict == IF p.frto = "Inactive" \/ reneging THEN "none"
                   ELSE FRTOVerdict(p, b, a, new, duplicate)
    IN  CASE verdict = "none" -> p
          [] verdict = "probe" -> [p EXCEPT !.frto = "ProbePending", !.budget = 2, !.partial = FALSE]
          [] verdict = "spurious" -> [RestoreSpurious(p, Advances(b, a)) EXCEPT !.partial = FALSE]
          [] verdict = "fallback" ->
                IF a.ack >= p.rtoPoint
                THEN [EndFRTO(p) EXCEPT !.rto = FALSE, !.rtoPoint = 0, !.partial = FALSE]
                ELSE [EndFRTO(p) EXCEPT !.partial = TRUE]

(* A partial acknowledgement of an RTO recovery releases its next target.    *)
PartialRTO(t, reneging) ==
    LET target == IF t.sack THEN RACKLosses(t) # {} ELSE Flight(t) # {}
        r == [t EXCEPT !.partial = FALSE]
    IN  IF ~t.partial \/ reneging \/ ~target THEN r
        ELSE [r EXCEPT !.tlp = NoProbe,
                       !.retried = IF t.sack THEN @ ELSE @ \ {FirstUnsacked(t)}]

TimedLossEntersRecovery(t, reneging) ==
    LET e == EnterRecovery(t, LossTarget(t))
    IN  IF reneging \/ t.rto \/ ~t.haveRACKLoss THEN t
        ELSE [e EXCEPT !.haveRACKLoss = HasRACKLoss(e)]

CountDuplicate(t, duplicate) ==
    LET n == Min({DupThresh + 1, t.duplicates + 1})
        c == [t EXCEPT !.duplicates = n]
    IN  IF t.rto \/ Flight(t) = {} \/ ~duplicate \/ (t.sack /\ t.fast) THEN t
        ELSE IF n = DupThresh THEN EnterRecovery(c, FirstUnsacked(c)) ELSE c

TimerUpdate(t, b, a, new, spurious) ==
    CASE Advances(b, a) -> "Restart"
      [] ~Advances(b, a) /\ (\/ ~OldACK(b, a) \/ new # {} \/ a.dsack # None
                             \/ spurious \/ t.haveRACKLoss) -> "Reselect"
      [] OTHER -> "Preserve"

(* The state after processAcknowledgment, and the timer update it returns.   *)
ProbeSettled(t, b, a) ==
    /\ t.tlp.active /\ t.tlp.retransmit /\ ~Advances(b, a)
    /\ a.ack = t.tlp.end /\ b.wnd = t.wnd /\ Reported(t, a) = {}
SettleProbe(t, b, a) == IF ProbeSettled(t, b, a) THEN [t EXCEPT !.tlp = NoProbe] ELSE t
Undo(t, b, a, spurious) ==
    IF spurious THEN RestoreSpurious(ObserveDSACK(t, b, a), Advances(b, a)) ELSE ObserveDSACK(t, b, a)

WithUpdate(t, b, a, new, spurious) == [state |-> t, update |-> TimerUpdate(t, b, a, new, spurious)]
Evidence(t, b, a, new, reneging, duplicate) ==
    CountDuplicate(TimedLossEntersRecovery(
        PartialRTO(ApplyFRTO(t, b, a, new, duplicate, reneging), reneging), reneging), duplicate)
Suspect(t, reneging) == IF reneging THEN ArmSACKReneging(t) ELSE t
Selective(t, b, a, reneging, spurious, new) ==
    WithUpdate(Evidence(Suspect(SettleProbe(ApplySACK(t, a, reneging), b, a), reneging),
                        b, a, new, reneging, DuplicateEvidence(t, b, a, new)),
               b, a, new, spurious)
AfterUndo(t, b, a, reneging, spurious) ==
    Selective(t, b, a, reneging, spurious, NewlySACKed(t, a))
AfterCumulative(t, b, a) ==
    AfterUndo(Undo(t, b, a, ProvenSpurious(t, b, a)), b, a, Reneging(t, b, a),
              ProvenSpurious(t, b, a))
ProcessAcknowledgment(b, a) ==
    AfterCumulative(Cumulative(PeerWindow(b, a), a), b, a)

(***************************************************************************)
(* The head of the actor's loop: the departure wait of an expired timer,   *)
(* and the readiness bits that a changed state made moot.                  *)
(***************************************************************************)
Target(t, kind) == CASE kind = "RTO" -> t.una
                     [] kind = "Probe" -> LastUnsacked(t)
                     [] OTHER -> FirstUnsacked(t)
Departed(t) == t.wait \notin {None, Replaced} /\ t.wait \notin ToSet(t.queue)
WaitMatches(t) == IF t.persist THEN t.wait = Probe /\ t.probeTicket /\ ~t.released
                  ELSE t.timer.on /\ Flight(t) # {} /\ t.wait = Target(t, t.timer.kind)

ReviewWait(t) ==
    LET n == [t EXCEPT !.wait = None]
    IN  CASE t.wait = None -> t
          [] t.wait # None /\ ~Departed(t) /\ WaitMatches(t) ->
                IF t.persist THEN t ELSE [t EXCEPT !.timer.due = FALSE]
          [] t.wait # None /\ (Departed(t) \/ ~WaitMatches(t)) ->
             CASE t.persist -> [n EXCEPT !.base = @ \/ (Departed(t) /\ t.wait = Probe /\ t.probeTicket)]
               [] ~t.persist /\ PathMTUPending(t) -> [n EXCEPT !.timer.due = FALSE]
               [] ~t.persist /\ ~PathMTUPending(t) ->
                     IF \/ Departed(t) /\ WaitMatches(t)
                        \/ Flight(t) # {} /\ ~(t.timer.on /\ t.timer.due)
                     THEN SelectRetransmission(n) ELSE n

RecoveryReady(t) ==
    /\ RecoveryPending(t)
    /\ Flight(t) # {}
    /\ \/ PathMTUPending(t)
       \/ t.rto /\ t.frto = "FallbackPending"
       \/ t.rto /\ t.frto = "Inactive" /\ RTOTargets(t) # {}
       \/ t.sack /\ (t.fast \/ t.haveRACKLoss) /\ UnretriedLosses(t) # {}
       \/ t.sack /\ t.fast /\ UnretriedHoles(t) # {}
       \/ ~t.sack /\ t.fast /\ FirstUnsacked(t) \notin t.retried

Timed(t) == TimerOutputPending(t) \/ PersistOutputPending(t)
OrdinaryReady(t) == IF t.recoveryWaiting THEN t
                    ELSE [t EXCEPT !.ordinaryWaiting = @ /\ Available(t) > 0]
Readiness(t) == IF Timed(t) THEN t
                ELSE OrdinaryReady([t EXCEPT !.recoveryWaiting = @ /\ RecoveryReady(t)])
Settle(t) == IF t.una > t.written THEN [t EXCEPT !.outcome = "complete"]
                    ELSE Readiness(ReviewWait(t))

(* The state of a connection that has sent nothing.  Whether SACK was
   negotiated and how the clocks of the path compare are fixed per behaviour:
   early says that RACK and probe deadlines precede the timeout, late that the
   reordering window has passed when an acknowledgement arrives, and valid
   that the RTT of a retransmission admits it as a RACK sample.              *)
Idle(path) ==
    [una |-> 0, nxt |-> 0, written |-> 0, writeClosed |-> FALSE, released |-> FALSE,
     fin |-> FALSE, wnd |-> Window, duplicates |-> 0,
     sacked |-> {}, retried |-> {}, rackLost |-> {},
     count |-> [u \in Units |-> 0], newer |-> <<>>, rackRetransmitted |-> FALSE,
     rttFresh |-> TRUE, fast |-> FALSE, recoveryPoint |-> 0,
     rto |-> FALSE, rtoPoint |-> 0, attempts |-> 0, frto |-> "Inactive", budget |-> 0,
     reneging |-> FALSE, partial |-> FALSE, undo |-> NoUndo, dsackOff |-> FALSE,
     haveRACKLoss |-> FALSE, tlp |-> NoProbe,
     timer |-> [on |-> FALSE, due |-> FALSE, kind |-> "RTO"], base |-> FALSE,
     persist |-> FALSE, unanswered |-> 0, closedProbes |-> 0, probeTicket |-> FALSE,
     wait |-> None, queue |-> <<>>, ordinaryWaiting |-> FALSE,
     recoveryWaiting |-> FALSE, wake |-> FALSE, 
     sack |-> path.sack, early |-> path.early, late |-> path.late, valid |-> path.valid,
     outcome |-> "open"]

(* The adverse events of a run are bounded by MaxFaults.  A deadline passes
   when nothing else is under way, and earlier only as such an event.       *)
Adverse == faults < MaxFaults /\ faults' = faults + 1
Quiet == s.queue = <<>> /\ acks = {} /\ ~s.wake
DeadlinePasses == (Quiet /\ UNCHANGED faults) \/ (~Quiet /\ Adverse)

(***************************************************************************)
(* The turns of the actor.                                                 *)
(***************************************************************************)
Running == s.outcome = "open"
(* What the code keeps but reads no more is forgotten, so that states that
   differ in it only are one state.                                         *)
Forget(t) ==
    CASE t.outcome = "open" ->
            [t EXCEPT !.recoveryPoint = IF t.fast THEN @ ELSE 0,
                      !.undo = IF t.undo.active \/ t.rto THEN @ ELSE NoUndo]
      [] OTHER -> [Idle(t) EXCEPT !.una = t.una, !.written = t.written,
                        !.writeClosed = t.writeClosed, !.outcome = t.outcome]
Finish(t) == Forget(IF t.outcome = "open" THEN Settle(t) ELSE t)
Turn(t) == s' = Finish(t)

(* An acknowledgement is handled to the end of the turn: a consumed timer it
   replaces, the recovery it authorises, and the window it opens.           *)
Replaces(t, update) == /\ TimerOutputPending(t)
                       /\ update = "Restart" \/ (update = "Reselect" /\ t.timer.kind = "Probe")
AckOutput(t, update, room) ==
    FillWindow(IF RecoveryPending(t) THEN DrainRecovery(t, room) ELSE t, update, room)
AckEnds(t, update, room) ==
    IF Replaces(t, update) THEN AckOutput(UpdateTimer(t, update), "Preserve", room)
    ELSE AckOutput(t, update, room)
AckResult(r, room) == AckEnds(r.state, r.update, room)
AckTurn(a) ==
    /\ Running
    /\ \E room \in 0 .. 1 :
         Turn(AckResult(ProcessAcknowledgment(s, a), room))
    /\ acks' = acks \ {a}
    /\ UNCHANGED <<net, peer, faults>>

(* A wake for new data or a closed write side.                               *)
SendTurn ==
    /\ Running /\ s.wake
    /\ \E room \in 0 .. 1 :
         Turn(FillWindow([s EXCEPT !.wake = FALSE], "Preserve", room))
    /\ UNCHANGED <<net, acks, peer, faults>>

(* Confirmed path feedback lowers the MTU: what is in flight is resegmented
   and its first range retransmitted at once.                               *)
PathMTUTurn ==
    /\ Running /\ Adverse
    /\ LET t == IF Flight(s) = {} THEN s ELSE Arm(s, "PathMTU")
       IN  Turn(DrainPathMTU(t))
    /\ UNCHANGED <<net, acks, peer>>

(* The retransmission timer.  It is not selected while a recovery waits for
   capacity, and it does not retransmit what the device queue still holds.  *)
RACKRecovers(t, room) ==
    LET d == DrainRecovery(EnterRecovery(t, LossTarget(t)), room)
    IN  IF t.haveRACKLoss THEN d ELSE t
RACKExpired(t, room) ==
    LET d == RACKRecovers(MarkRACKLoss(t, TRUE), room)
    IN  SelectRetransmission([d EXCEPT !.haveRACKLoss = HasRACKLoss(d)])

ClearReneged(t, kind) ==
    IF kind = "RTO" /\ t.una \in t.sacked
    THEN [t EXCEPT !.sacked = {}, !.haveRACKLoss = FALSE, !.reneging = TRUE] ELSE t
(* Mutant: timeouts are not counted against the retry budget.                *)
AttemptUncounted(t, zeroWindow) == DrainTimerOutput(Consume(PrepareTimeout(t), "RTO"))

Attempt(t, zeroWindow) ==
    CASE ~zeroWindow /\ t.attempts = MaxRTOs -> [t EXCEPT !.outcome = "failed"]
      [] OTHER -> DrainTimerOutput(Consume(PrepareTimeout(
                     [t EXCEPT !.attempts = IF zeroWindow THEN @ ELSE @ + 1]), "RTO"))

TimerExpired(t, kind, zeroWindow, room) ==
    CASE Flight(t) = {} -> SelectRetransmission(t)
      [] Flight(t) # {} /\ Target(t, kind) \in ToSet(t.queue) -> [t EXCEPT !.wait = Target(t, kind)]
      [] OTHER -> CASE kind = "RACK" -> RACKExpired(t, room)
                    [] kind = "Probe" -> DrainTimerOutput(t)
                    [] OTHER -> Attempt(ClearReneged(t, kind), zeroWindow)

TimerDue == Running /\ s.timer.on /\ s.timer.due /\ ~s.recoveryWaiting
TimerFires(t, room) ==
    LET zeroWindow == t.wnd = 0 /\ Flight(t) # {} /\ t.timer.kind # "PathMTU" /\ ~t.released
        kind == IF t.timer.kind = "SACKReneging" \/ zeroWindow THEN "RTO" ELSE t.timer.kind
    IN  TimerExpired(Consume(t, kind), kind, zeroWindow, room)
TimerTurn ==
    /\ TimerDue
    /\ \E room \in 0 .. 1 : Turn(TimerFires(s, room))
    /\ DeadlinePasses
    /\ UNCHANGED <<net, acks, peer>>

PersistDue == Running /\ s.persist /\ s.base /\ s.wait = None
PersistFires(t) == DrainPersistOutput([t EXCEPT !.base = FALSE])
PersistTurn ==
    /\ PersistDue
    /\ Turn(PersistFires(s))
    /\ DeadlinePasses
    /\ UNCHANGED <<net, acks, peer>>

(* A slot of the device queue came free for the output that waits for one.
   Ordinary data is checked once more afterwards; it stops waiting when the
   congestion window or pacing, and not the queue, holds it back.           *)
DrainOne(t, room) ==
    CASE TimerOutputPending(t) -> DrainTimerOutput(t)
      [] ~TimerOutputPending(t) /\ PersistOutputPending(t) -> DrainPersistOutput(t)
      [] ~Timed(t) /\ t.recoveryWaiting ->
            DrainRecovery([t EXCEPT !.recoveryWaiting = FALSE], room)
      [] ~Timed(t) /\ ~t.recoveryWaiting ->
            FillWindow([t EXCEPT !.ordinaryWaiting = FALSE], "Preserve", room)
OutputDue == /\ Running /\ Free(s) > 0
             /\ Timed(s) \/ s.recoveryWaiting \/ s.ordinaryWaiting
HeldBack(t, room) == ~Timed(t) /\ ~t.recoveryWaiting /\ room = 0 /\ Flight(t) # {}
SlotFreed(t, room) ==
    IF HeldBack(t, room) THEN [t EXCEPT !.ordinaryWaiting = FALSE]
    ELSE [DrainOne(t, room) EXCEPT !.ordinaryWaiting = TRUE]
OutputTurn ==
    /\ OutputDue
    /\ \E room \in 0 .. 1 : Turn(SlotFreed(s, room))
    /\ UNCHANGED <<net, acks, peer, faults>>

(* The packet an expired timer waits for has left the device queue.          *)
HostQueueTurn ==
    /\ Running /\ Departed(s)
    /\ Turn(s)
    /\ UNCHANGED <<net, acks, peer, faults>>

(* The liveness timer gives up a flight held by a closed window.             *)
ZeroWindowTimeout ==
    /\ Running /\ s.wnd = 0 /\ Flight(s) # {}
    /\ s' = Forget([s EXCEPT !.outcome = "failed"])
    /\ UNCHANGED <<net, acks, peer, faults>>

(***************************************************************************)
(* The application.                                                        *)
(***************************************************************************)
Write ==
    /\ Running /\ ~s.writeClosed
    /\ s.written < Data /\ s.written - s.una < SendCapacity
    /\ s' = [s EXCEPT !.written = @ + 1, !.wake = TRUE]
    /\ UNCHANGED <<net, acks, peer, faults>>

CloseWrite ==
    /\ Running /\ ~s.writeClosed
    /\ s' = [s EXCEPT !.writeClosed = TRUE, !.wake = TRUE]
    /\ UNCHANGED <<net, acks, peer, faults>>

Close ==
    /\ Running /\ ~s.released
    /\ s' = [s EXCEPT !.writeClosed = TRUE, !.released = TRUE, !.wake = TRUE]
    /\ UNCHANGED <<net, acks, peer, faults>>

(***************************************************************************)
(* The device, the network and the peer.  An acknowledgement that never    *)
(* arrives is lost.                                                        *)
(***************************************************************************)
Reply(p, dsack) ==
    acks' = IF p.away \/ Cardinality(acks) = MaxAcks THEN acks
            ELSE acks \cup {[ack |-> p.next, sack |-> IF s.sack THEN p.held ELSE {},
                             dsack |-> IF s.sack THEN dsack ELSE None,
                             wnd |-> IF p.stalled THEN 0 ELSE Window]}

Absorb(p) == LET n == CHOOSE n \in p.next .. (Data + 1) :
                        (p.next .. (n - 1)) \subseteq p.held /\ n \notin p.held
             IN  [p EXCEPT !.next = n, !.held = {u \in @ : u > n}]

(* The peer receives packet p and acknowledges it.                           *)
Receive(p) ==
    IF p = Probe THEN peer' = peer /\ Reply(peer, None)
    ELSE IF p < peer.next \/ p \in peer.held THEN peer' = peer /\ Reply(peer, p)
    ELSE IF peer.stalled \/ p >= peer.next + Window THEN peer' = peer /\ Reply(peer, None)
    ELSE /\ peer' = Absorb([peer EXCEPT !.held = @ \cup {p}])
         /\ Reply(peer', None)

(* A packet leaves the device queue; it arrives, it is delayed or
   duplicated, or an outage loses it.                                        *)
Depart ==
    /\ Running /\ s.queue # <<>>
    /\ s' = [s EXCEPT !.queue = Tail(@)]
    /\ \/ peer.away /\ UNCHANGED <<net, acks, peer, faults>>
       \/ ~peer.away /\ Adverse /\ net' = net \cup {Head(s.queue)} /\ UNCHANGED <<acks, peer>>
       \/ ~peer.away /\ Receive(Head(s.queue)) /\ UNCHANGED <<net, faults>>
       \/ ~peer.away /\ Adverse /\ Receive(Head(s.queue)) /\ net' = net \cup {Head(s.queue)}

DeliverLate(p) ==
    /\ Running /\ ~peer.away
    /\ net' = net \ {p}
    /\ Receive(p)
    /\ UNCHANGED <<s, faults>>

(* An outage loses every packet and acknowledgement until it ends, if it does. *)
Outage ==
    /\ Running /\ ~peer.away /\ Adverse
    /\ peer' = [peer EXCEPT !.away = TRUE]
    /\ \E lost \in SUBSET acks : acks' = acks \ lost
    /\ UNCHANGED <<s, net>>

OutageEnds ==
    /\ Running /\ peer.away
    /\ peer' = [peer EXCEPT !.away = FALSE]
    /\ UNCHANGED <<s, net, acks, faults>>

(* The peer's application stops reading, and starts again; the window update
   may be lost like any acknowledgement.                                    *)
Stall ==
    /\ Running /\ ~peer.stalled /\ Adverse
    /\ peer' = [peer EXCEPT !.stalled = TRUE]
    /\ Reply(peer', None)
    /\ UNCHANGED <<s, net>>

Resume ==
    /\ Running /\ peer.stalled
    /\ peer' = [peer EXCEPT !.stalled = FALSE]
    /\ Reply(peer', None)
    /\ UNCHANGED <<s, net, faults>>

(* The peer discards what it has selectively acknowledged (RFC 2018).        *)
Renege ==
    /\ Running /\ peer.held # {} /\ ~peer.reneged
    /\ peer' = [peer EXCEPT !.held = {}, !.reneged = TRUE]
    /\ UNCHANGED <<s, net, acks, faults>>

(***************************************************************************)
(* The specification.                                                      *)
(***************************************************************************)
Init ==
    /\ \E path \in Paths : s = Idle(path)
    /\ net = {} /\ acks = {} /\ faults = 0
    /\ peer = [next |-> 0, held |-> {}, stalled |-> FALSE, reneged |-> FALSE, away |-> FALSE]

ActorTurn == \/ \E a \in acks : AckTurn(a)
             \/ SendTurn \/ PathMTUTurn \/ TimerTurn \/ PersistTurn
             \/ OutputTurn \/ HostQueueTurn \/ ZeroWindowTimeout
Application == Write \/ CloseWrite \/ Close
Environment == \/ Depart \/ Stall \/ Resume \/ Renege
               \/ \E p \in net : DeliverLate(p)
               \/ Outage \/ OutageEnds
Next == ActorTurn \/ Application \/ Environment

(* A runnable actor takes its turn, an armed deadline passes, the device
   drains its queue and a peer that stalls resumes.  The fairness of the actor
   is that of its loop as a whole: Runnable says that a turn that changes
   something is enabled.                                                     *)
Runnable ==
    \/ Running /\ (acks # {} \/ s.wake)
    \/ TimerDue /\ Quiet /\ \E room \in 0 .. 1 : Finish(TimerFires(s, room)) # s
    \/ PersistDue /\ Quiet /\ Finish(PersistFires(s)) # s
    \/ OutputDue /\ \E room \in 0 .. 1 : Finish(SlotFreed(s, room)) # s
    \/ Running /\ Departed(s) /\ Finish(s) # s
Fairness == /\ <>[]Runnable => []<><<TRUE>>_<<s, acks>>
            /\ WF_vars(ZeroWindowTimeout) /\ WF_vars(Depart) /\ WF_vars(Resume)
Spec == Init /\ [][Next]_vars /\ Fairness

(***************************************************************************)
(* Properties.                                                             *)
(***************************************************************************)
(* Whatever is in flight has something that will act on it: a running loss
   deadline, a consumed timer or path-MTU retransmission that waits for a
   slot, or an expired deadline that waits for the packet to leave the device
   queue (selectRetransmission, reselectRetransmission, the actor's head).   *)
LossTimerArmed ==
    (Running /\ Flight(s) # {}) =>
       /\ s.timer.on
       /\ \/ s.timer.due
          \/ s.wait # None
          \/ TimerOutputPending(s)
          \/ s.timer.kind = "PathMTU" /\ s.recoveryWaiting

(* A closed window never leaves the connection waiting for an update that may
   be lost: with nothing in flight and something to send, persist runs, it
   runs only then, and its probe waits for its own departure at most
   (armPersist, drainPersistOutput).                                         *)
ZeroWindowProbed ==
    Running =>
       /\ (PersistNeeded(s) /\ s.wnd = 0 /\ ~s.wake) => s.persist
       /\ s.persist => Flight(s) = {} /\ (s.base \/ s.wait # None \/ PersistOutputPending(s))
       /\ (s.wnd # 0 /\ Available(s) > 0 /\ Flight(s) = {}) => (s.wake \/ s.ordinaryWaiting)

(* Recovery episodes are bounded by what they recover: an episode that every
   acknowledgement has passed is over, and F-RTO runs only inside a timeout
   recovery (processAcknowledgment, restoreRecoveryTransportState).          *)
RecoverySound ==
    Running =>
       /\ s.fast => s.una < s.recoveryPoint /\ s.recoveryPoint <= s.nxt
       /\ (s.rto /\ s.frto = "Inactive") => s.una < s.rtoPoint /\ s.rtoPoint <= s.nxt
       /\ s.frto # "Inactive" => s.rto

(* What the scoreboard says was delivered is or was with the peer, and its
   marks speak of the flight only (applyTCPSACK, trimTCPOutstanding).        *)
ScoreboardTruthful ==
    /\ s.sacked \cup s.retried \cup s.rackLost \cup ToSet(s.newer) \subseteq Flight(s)
    /\ s.una <= peer.next
    /\ ~peer.reneged => s.sacked \subseteq peer.held \cup (0 .. (peer.next - 1))

(* The connection implements a reliable transfer: it confirms in order what
   was handed over, reports the end only when all of it is confirmed, and
   after the application has closed its side it ends, in success or failure.  *)
T == INSTANCE ReliableTransfer WITH
        handed <- s.written,
        confirmed <- IF s.una < s.written THEN s.una ELSE s.written,
        closed <- s.writeClosed,
        outcome <- s.outcome
TransferIsReliable == T!Transfer
=============================================================================
