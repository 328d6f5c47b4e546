---------------------------- MODULE ActorInbox ----------------------------
(***************************************************************************)
(* How work reaches a TCP connection's actor (tcp.go): the byte-bounded    *)
(* inbound segment queue, the coalesced wake flags, the departure of the   *)
(* packet the actor waits for, and the timers.  Packets, flags and         *)
(* departures share one notification token; an expired timer lets a fixed  *)
(* snapshot of the queue go first.                                         *)
(***************************************************************************)
EXTENDS Integers, Sequences, SequencesExt

CONSTANTS
    Sizes,          \* retained sizes of segments, metadata included
    ByteCapacity,   \* tcpInboundByteCapacity
    ReceiveBatch,   \* tcpActorReceiveBatch
    Wakers,         \* goroutines that publish wake flags
    Flags,          \* the wake bits
    QuickACKMask,   \* the mutually exclusive bits among them
    Deadlines       \* names of timer deadlines

NoDeadline == "none"

ASSUME SizesPositive == Sizes \subseteq Nat \ {0} /\ ByteCapacity \in Nat
ASSUME BatchPositive == ReceiveBatch \in Nat \ {0}
ASSUME FlagSets == QuickACKMask \subseteq Flags /\ NoDeadline \notin Deadlines

VARIABLES
    segments,     \* q.segments from q.head on: the retained sizes
    bytes,        \* q.bytes
    closed,       \* q.closed
    notify,       \* the token of the one-slot channel q.notify
    wakeFlags,    \* c.actorWakeFlags
    waker,        \* per waker: "idle", or "notify" between the CAS and the send
    departure,    \* hostQueueWait's packet: "none", "queued", "departed", or
                  \* "abandoned" while a packet no longer waited for is queued
    sender,       \* the device reader between a departure and its notification
    deadline,     \* earliestTimer
    expired,      \* the clock has reached it
    pc,           \* where the actor is
    queued,       \* its local queuedSegments
    batch,        \* its remaining batchLength
    drain, force, \* what tcpTimerBacklog.order reported this turn
    inboundOpen,  \* inboundNotify is not nil this turn
    backlogDeadline, remaining   \* tcpTimerBacklog

queueVars   == <<segments, bytes, closed>>
wakeVars    == <<wakeFlags, waker>>
waitVars    == <<departure, sender>>
timerVars   == <<deadline, expired>>
turnVars    == <<queued, batch, drain, force, inboundOpen>>
backlogVars == <<backlogDeadline, remaining>>
vars == <<queueVars, notify, wakeVars, waitVars, timerVars, pc, turnVars, backlogVars>>

Least(a, b) == IF a <= b THEN a ELSE b

Init ==
    /\ segments = <<>> /\ bytes = 0 /\ closed = FALSE
    /\ notify = FALSE
    /\ wakeFlags = {} /\ waker = [w \in Wakers |-> "idle"]
    /\ departure = "none" /\ sender = FALSE
    /\ deadline = NoDeadline /\ expired = FALSE
    /\ pc = "turn"
    /\ queued = 0 /\ batch = 0 /\ drain = FALSE /\ force = FALSE /\ inboundOpen = TRUE
    /\ backlogDeadline = NoDeadline /\ remaining = 0
-----------------------------------------------------------------------------
(* Producers. *)

\* enqueueLocked sends the token when it found the queue empty.
EnqueueNotifies(q) == q = <<>>

\* enqueueLocked's admission test
Fits(size) == bytes <= ByteCapacity - size

\* enqueue and enqueueCopy: check the bound, append and notify under q.mu.
\* A segment over the bound is dropped.
Enqueue(size) ==
    /\ ~closed
    /\ Fits(size)
    /\ segments' = Append(segments, size)
    /\ bytes' = bytes + size
    /\ notify' = (notify \/ EnqueueNotifies(segments))
    /\ UNCHANGED <<closed, wakeVars, waitVars, timerVars, pc, turnVars, backlogVars>>

\* Only the caller that found no bit set sends the token.
WakeNotifies(flags) == flags = {}

\* updateActorWake: the compare-and-swap; the token follows.
PublishWake(w, clear, set) ==
    /\ waker[w] = "idle"
    /\ wakeFlags' = (wakeFlags \ clear) \cup set
    /\ waker' = [waker EXCEPT ![w] = IF WakeNotifies(wakeFlags) THEN "notify" ELSE "idle"]
    /\ UNCHANGED <<queueVars, notify, waitVars, timerVars, pc, turnVars, backlogVars>>

WakeActor(w) ==
    \/ \E f \in Flags \ QuickACKMask : PublishWake(w, {}, {f})
    \/ \E f \in QuickACKMask : PublishWake(w, QuickACKMask, {f})

SendWake(w) ==
    /\ waker[w] = "notify"
    /\ waker' = [waker EXCEPT ![w] = "idle"]
    /\ notify' = TRUE
    /\ UNCHANGED <<queueVars, wakeFlags, waitVars, timerVars, pc, turnVars, backlogVars>>

\* The packet the actor waits for leaves the output queue: its departure time
\* is published first and the token sent afterwards.
Depart ==
    /\ departure \in {"queued", "abandoned"}
    /\ departure' = IF departure = "queued" THEN "departed" ELSE "none"
    /\ sender' = TRUE
    /\ UNCHANGED <<queueVars, notify, wakeVars, timerVars, pc, turnVars, backlogVars>>

SendDeparture ==
    /\ sender
    /\ sender' = FALSE /\ notify' = TRUE
    /\ UNCHANGED <<queueVars, wakeVars, departure, timerVars, pc, turnVars, backlogVars>>

\* Time passes.
Expire ==
    /\ deadline # NoDeadline /\ ~expired
    /\ expired' = TRUE
    /\ UNCHANGED <<queueVars, notify, wakeVars, waitVars, deadline, pc, turnVars, backlogVars>>
-----------------------------------------------------------------------------
(* The actor. *)

\* A handler may keep the earliest deadline, replace it by another one that
\* may already be due, or leave no timer armed.
Rearm ==
    \/ UNCHANGED timerVars
    \/ deadline' \in (Deadlines \cup {NoDeadline}) \ {deadline} /\ expired' = FALSE
    \/ deadline' \in Deadlines \ {deadline} /\ expired' = TRUE

\* A handler may start waiting for the departure of a queued packet.
StartWait ==
    \/ UNCHANGED departure
    \/ departure \in {"none", "abandoned"} /\ departure' = "queued"

\* Mutant: the snapshot is taken again on every turn.
FreshSnapshotAlways == TRUE

\* order: a changed or newly expired deadline starts a fresh snapshot
FreshSnapshot == backlogDeadline # deadline

\* The head of the loop: consume a departure or give up a wait whose target
\* has changed, read the queue length, let tcpTimerBacklog.order choose
\* between the snapshot and the timer.
Turn ==
    /\ pc = "turn"
    /\ \/ departure = "departed" /\ departure' = "none"
       \/ departure = "queued" /\ departure' = "abandoned"
       \/ departure # "departed" /\ UNCHANGED departure
    /\ queued' = Len(segments)
    /\ IF ~expired
       THEN /\ backlogDeadline' = NoDeadline /\ remaining' = 0
            /\ drain' = FALSE /\ force' = FALSE
       ELSE /\ backlogDeadline' = deadline
            /\ remaining' = IF FreshSnapshot THEN Len(segments) ELSE remaining
            /\ drain' = (remaining' # 0) /\ force' = (remaining' = 0)
    /\ inboundOpen' = ~(force' /\ wakeFlags = {})
    /\ pc' = "select"
    /\ UNCHANGED <<queueVars, notify, wakeVars, sender, timerVars, batch>>

\* select takes the expired timer: consume it and run its handler.
SelectTimer ==
    /\ pc = "select" /\ expired /\ ~drain
    /\ \/ deadline' \in (Deadlines \cup {NoDeadline}) \ {deadline} /\ expired' = FALSE
       \/ deadline' \in Deadlines \ {deadline} /\ expired' = TRUE
    /\ StartWait
    /\ pc' = "turn"
    /\ UNCHANGED <<queueVars, notify, wakeVars, sender, turnVars, backlogVars>>

\* select receives an output slot, which is asked for only when no timer is
\* due; the output work may start a wait and rearm the timers.
SelectOutput ==
    /\ pc = "select" /\ ~drain /\ ~force
    /\ Rearm /\ StartWait
    /\ pc' = "turn"
    /\ UNCHANGED <<queueVars, notify, wakeVars, sender, turnVars, backlogVars>>

\* select takes the token.
SelectNotify ==
    /\ pc = "select" /\ inboundOpen /\ notify
    /\ notify' = FALSE
    /\ pc' = "take"
    /\ UNCHANGED <<queueVars, wakeVars, waitVars, timerVars, turnVars, backlogVars>>

\* Mutant: the batch may run past the snapshot.
BatchLengthPastSnapshot(length) ==
    IF force /\ length > 1 THEN 1 ELSE Least(length, ReceiveBatch)

\* receiveBatchLength
BatchLength(length) ==
    LET limited == Least(length, ReceiveBatch)
    IN  IF remaining # 0 /\ limited > remaining THEN remaining
        ELSE IF force /\ limited > 1 THEN 1 ELSE limited

\* takeActorWake, the state-only handlers, and the size of the batch.
Take ==
    /\ pc = "take"
    /\ wakeFlags' = {}
    /\ batch' = BatchLength(IF queued = 0 THEN Len(segments) ELSE queued)
    /\ Rearm /\ StartWait
    /\ pc' = IF batch' = 0 THEN "turn" ELSE "batch"
    /\ UNCHANGED <<queueVars, notify, waker, sender, queued, drain, force, inboundOpen,
                   backlogVars>>

\* Mutant: dequeue leaves the token alone.
DequeueNotifiesNever(q) == FALSE

\* dequeue keeps the token armed while work remains.
DequeueNotifies(q) == Len(q) > 1

\* tcpTimerBacklog.consumed
Consumed(count) == IF count > 0 THEN count - 1 ELSE 0

\* Dequeue and process one segment of the batch.  Only the actor removes
\* segments, so the loop's break on an empty queue is never taken.
ProcessSegment ==
    /\ pc = "batch" /\ segments # <<>>
    /\ segments' = Tail(segments)
    /\ bytes' = bytes - Head(segments)
    /\ notify' = (notify \/ DequeueNotifies(segments))
    /\ remaining' = Consumed(remaining)
    /\ batch' = batch - 1
    /\ Rearm /\ StartWait
    /\ pc' = IF batch' = 0 THEN "turn" ELSE "batch"
    /\ UNCHANGED <<closed, wakeVars, sender, queued, drain, force, inboundOpen, backlogDeadline>>

\* The actor returns and finish closes the queue; input that a concurrent
\* lookup still delivers is refused from then on.
Finish ==
    /\ pc \in {"select", "take", "batch"}
    /\ pc' = "done"
    /\ segments' = <<>> /\ bytes' = 0 /\ closed' = TRUE
    /\ UNCHANGED <<notify, wakeVars, waitVars, timerVars, turnVars, backlogVars>>
-----------------------------------------------------------------------------
Reactive == Turn \/ SelectTimer \/ SelectNotify \/ Take \/ ProcessSegment
Actor == Reactive \/ SelectOutput
Producers ==
    \/ \E s \in Sizes : Enqueue(s)
    \/ \E w \in Wakers : WakeActor(w) \/ SendWake(w)
    \/ Depart \/ SendDeparture \/ Expire

Next == Actor \/ Producers \/ Finish

Spec == Init /\ [][Next]_vars

\* The actor keeps running, although no output slot may ever come free; a
\* goroutine past its compare-and-swap or its
\* departure update sends the token, and select, which chooses at random
\* among ready channels, ignores neither an expired timer nor the token for ever.
LiveSpec ==
    /\ Spec
    /\ WF_vars(Reactive)
    /\ SF_vars(SelectTimer) /\ SF_vars(SelectNotify)
    /\ \A w \in Wakers : WF_vars(SendWake(w))
    /\ WF_vars(SendDeparture)
-----------------------------------------------------------------------------
\* Every variable has its type; in particular the counters of the actor and
\* of tcpTimerBacklog never go below zero.
TypeOK ==
    /\ segments \in Seq(Sizes) /\ bytes \in Int
    /\ closed \in BOOLEAN /\ notify \in BOOLEAN
    /\ wakeFlags \subseteq Flags
    /\ waker \in [Wakers -> {"idle", "notify"}]
    /\ departure \in {"none", "queued", "departed", "abandoned"} /\ sender \in BOOLEAN
    /\ deadline \in Deadlines \cup {NoDeadline} /\ expired \in BOOLEAN
    /\ pc \in {"turn", "select", "take", "batch", "done"}
    /\ queued \in Nat /\ batch \in Nat /\ remaining \in Nat
    /\ drain \in BOOLEAN /\ force \in BOOLEAN /\ inboundOpen \in BOOLEAN
    /\ backlogDeadline \in Deadlines \cup {NoDeadline}

\* A blocked actor is never left with a queued segment, a wake flag or a
\* departure that no token announces and no goroutine is about to announce
\* (enqueueLocked, dequeue, updateActorWake, departureWaiter).
NoLostWakeup ==
    pc = "select" =>
        /\ segments # <<>> => notify
        /\ wakeFlags # {} => notify \/ \E w \in Wakers : waker[w] = "notify"
        /\ departure = "departed" => notify \/ sender

\* The snapshot an expired timer yields to is still in the queue: while the
\* timers are masked, a segment and its token are there to unmask them
\* (tcpTimerBacklog.order, receiveBatchLength, consumed), and a batch never
\* outruns the queue.
SnapshotStillQueued ==
    /\ closed \/ remaining <= Len(segments)
    /\ pc = "batch" => batch \in 1 .. Len(segments)
    /\ (pc = "select" /\ drain) => (segments # <<>> /\ notify /\ inboundOpen)

\* What the actor relies on when it blocks and when it masks its timers: no
\* work is left unannounced, and the snapshot that delays a timer is there.
InboxSound == NoLostWakeup /\ SnapshotStillQueued

\* Once a timer is due, only segments of the snapshot, or one per wake of the
\* application, are processed before it: a turn never takes a segment that
\* arrived after the snapshot while the timers are masked.
LateArrivalsDoNotDelayTimers ==
    [][(ProcessSegment /\ drain) => remaining > 0]_vars

\* An expired timer is served, or replaced by a handler, however fast
\* segments and wakes keep arriving.
TimersNotStarved ==
    \A d \in Deadlines : (expired /\ deadline = d) ~> (deadline # d \/ closed)

\* Work that other goroutines leave for the actor is taken up: it consumes
\* every published wake flag (updateActorWake) and notices that the packet it
\* waits for has left (completeDepartureWaiter), although both share one token
\* with arriving segments.
WorkIsNoticed ==
    /\ (wakeFlags # {}) ~> (wakeFlags = {} \/ closed)
    /\ (departure = "departed") ~> (departure # "departed" \/ closed)

\* Neither a flood of segments nor one of wakes keeps the actor from its timers,
\* its wake flags or its departures.
NothingStarves == TimersNotStarved /\ WorkIsNoticed
=============================================================================
