---------------------------- MODULE OutputQueue ----------------------------
(***************************************************************************)
(* The bounded output queue between the transports and the device (stack.go):*)
(* a fixed set of slots that circulate between a free channel, publishers, *)
(* the fair flow scheduler and the device's Read calls; the scheduler's    *)
(* new, old and detached flow lists with byte credit; displacement of a    *)
(* best-effort packet when the queue is full; and closure.                 *)
(*                                                                         *)
(* The scheduler lock is the variable mu: one turn of the dequeue loop is  *)
(* one step taken under it.                                                *)
(***************************************************************************)
EXTENDS Integers, Sequences, SequencesExt, FiniteSets

CONSTANTS
    Slots,         \* queue positions; the flow store has as many entries
    FlowKeys,      \* outputFlowKey values
    PacketSizes,   \* bytes of a packet
    Quantum,       \* s.quantum, 2 * MTU in the code
    InitialCredit, \* s.initial, 10 * MTU in the code
    Publishers, Readers, Closers,   \* goroutines; at most one closer
    NoSlot, NoFlow, Nobody

Threads == Publishers \cup Readers \cup Closers

ASSUME CreditPositive == Quantum \in Nat \ {0} /\ InitialCredit \in Nat \ {0}
ASSUME SizesPositive == PacketSizes \subseteq Nat \ {0}
ASSUME SlotsFinite == IsFiniteSet(Slots) /\ NoSlot \notin Slots /\ NoFlow \notin FlowKeys
ASSUME ThreadsDisjoint == /\ Publishers \cap Readers = {} /\ Closers \cap (Publishers \cup Readers) = {}
                          /\ Nobody \notin Threads /\ Cardinality(Closers) <= 1

VARIABLES
    free,        \* q.free
    held,        \* per goroutine: the slot it has taken and not yet given on
    pc,          \* per goroutine: where it is
    newFlows, oldFlows, detached,  \* the three flow lists
    oldDue,      \* flows in newFlows for a starvation-prevention turn
    backlog,     \* per flow: its queued packets, as records of slot and size
    credit,      \* per flow
    ready,       \* the token of s.ready
    mu,          \* the goroutine inside the dequeue loop
    demoted,     \* the flow demoteNewFlow is moving, while it looks for a turn
    closing,     \* s.closeCh is closed
    closed       \* q.closed

flowVars == <<newFlows, oldFlows, detached, oldDue, backlog, credit>>
vars == <<free, held, pc, flowVars, ready, mu, demoted, closing, closed>>

Elements(q) == {q[i] : i \in DOMAIN q}

\* outputFlowList.remove: a flow is on a list once, or not at all.
Without(q, f) ==
    IF f \in Elements(q) THEN RemoveAt(q, CHOOSE i \in DOMAIN q : q[i] = f) ELSE q

Known == Elements(newFlows) \cup Elements(oldFlows) \cup Elements(detached)
QueuedIn(f) == {e.slot : e \in Elements(backlog[f])}
QueuedSlots == UNION {QueuedIn(f) : f \in FlowKeys}

Init ==
    /\ free = Slots
    /\ held = [t \in Threads |-> NoSlot]
    /\ pc = [t \in Threads |-> "idle"]
    /\ newFlows = <<>> /\ oldFlows = <<>> /\ detached = <<>> /\ oldDue = {}
    /\ backlog = [f \in FlowKeys |-> <<>>]
    /\ credit = [f \in FlowKeys |-> 0]
    /\ ready = FALSE /\ mu = Nobody /\ demoted = NoFlow
    /\ closing = FALSE /\ closed = FALSE

Goto(t, label) == pc' = [pc EXCEPT ![t] = label]
Hold(t, s) == held' = [held EXCEPT ![t] = s]
-----------------------------------------------------------------------------
(* Publishers. *)

\* A best-effort write or a TCP actor with something to send has seen the
\* stack open; Close may run before it looks for a slot.
BeginWrite(p) ==
    /\ pc[p] = "idle" /\ ~closing
    /\ Goto(p, "reserve")
    /\ UNCHANGED <<free, held, flowVars, ready, mu, demoted, closing, closed>>

\* A TCP actor receives a slot from q.free, or a best-effort writer's
\* tryReserve succeeds, at its first or its second attempt.
Reserve(p, s) ==
    /\ pc[p] \in {"reserve", "retry"}
    /\ s \in free
    /\ free' = free \ {s} /\ Hold(p, s)
    /\ Goto(p, "reserved")
    /\ UNCHANGED <<flowVars, ready, mu, demoted, closing, closed>>

\* tryReserve finds no slot: first the attempt is repeated unless the stack
\* has closed, then a queued packet is displaced.
ReserveFails(p) ==
    /\ \/ pc[p] = "reserve" /\ free = {} /\ Goto(p, "failed")
       \/ pc[p] = "failed" /\ Goto(p, IF closing THEN "idle" ELSE "retry")
       \/ pc[p] = "retry" /\ free = {} /\ Goto(p, "displace")
    /\ UNCHANGED <<free, held, flowVars, ready, mu, demoted, closing, closed>>

BacklogBytes(f) == FoldSeq(LAMBDA e, sum : e.size + sum, 0, backlog[f])
Fattest(f) ==
    /\ backlog[f] # <<>>
    /\ \A g \in FlowKeys : backlog[g] # <<>> => BacklogBytes(g) <= BacklogBytes(f)

\* The lists after the last packet of f was displaced.
EmptiedLists(f) ==
    IF f \in Elements(newFlows) /\ f \notin oldDue
    THEN /\ newFlows' = Without(newFlows, f)
         /\ oldFlows' = Append(oldFlows, f)
         /\ UNCHANGED <<detached, oldDue>>
    ELSE /\ newFlows' = Without(newFlows, f)
         /\ oldFlows' = Without(oldFlows, f)
         /\ detached' = Append(detached, f)
         /\ oldDue' = oldDue \ {f}

\* replaceBestEffort: the oldest packet of the fattest flow gives up its slot.
Displace(p, f) ==
    /\ pc[p] = "displace" /\ mu = Nobody
    /\ Fattest(f)
    /\ backlog' = [backlog EXCEPT ![f] = Tail(@)]
    /\ Hold(p, Head(backlog[f]).slot)
    /\ IF Len(backlog[f]) = 1 THEN EmptiedLists(f)
       ELSE UNCHANGED <<newFlows, oldFlows, detached, oldDue>>
    /\ Goto(p, "reserved")
    /\ UNCHANGED <<free, credit, ready, mu, demoted, closing, closed>>

\* Nothing is published: every slot is held elsewhere and the candidate itself
\* is rejected.
RejectCandidate(p) ==
    /\ pc[p] = "displace" /\ mu = Nobody
    /\ QueuedSlots = {}
    /\ Goto(p, "idle")
    /\ UNCHANGED <<free, held, flowVars, ready, mu, demoted, closing, closed>>

\* releaseReserved
ReleaseReserved(p) ==
    /\ pc[p] = "reserved"
    /\ free' = free \cup {held[p]} /\ Hold(p, NoSlot)
    /\ Goto(p, "idle")
    /\ UNCHANGED <<flowVars, ready, mu, demoted, closing, closed>>

\* Every flow object is in use.
StoreFull == Cardinality(Known) = Cardinality(Slots)
\* The places of the old flows without packets.
EmptyOld == {i \in DOMAIN oldFlows : backlog[oldFlows[i]] = <<>>}

\* The flow object acquireFlow takes when none is unused: an empty old flow is
\* detached first if no flow is, and the first detached one goes.
Evictable == IF detached # <<>> THEN Head(detached)
             ELSE IF EmptyOld # {} THEN oldFlows[Min(EmptyOld)] ELSE NoFlow

\* The flow lists when a packet of flow f is published: reactivateFlow,
\* acquireFlow with or without an eviction, or a flow already ready.
ActivateFlow(f) ==
    \/ /\ f \in Elements(newFlows) \cup Elements(oldFlows)
       /\ UNCHANGED <<newFlows, oldFlows, detached, credit>>
    \/ /\ f \in Elements(detached)
       /\ newFlows' = Append(newFlows, f) /\ detached' = Without(detached, f)
       /\ credit' \in {credit, [credit EXCEPT ![f] = IF @ < Quantum THEN Quantum ELSE @]}
       /\ UNCHANGED oldFlows
    \/ /\ f \notin Known
       /\ newFlows' = Append(newFlows, f)
       /\ credit' = [credit EXCEPT ![f] = InitialCredit]
       /\ IF StoreFull
          THEN /\ detached' = Without(detached, Evictable)
               /\ oldFlows' = IF detached = <<>> THEN Without(oldFlows, Evictable) ELSE oldFlows
          ELSE UNCHANGED <<oldFlows, detached>>

\* enqueue signals when the queue was empty
EnqueueSignals(count) == count = 0

\* publishReserved up to the scheduler's enqueue.
Publish(p, f, size) ==
    /\ pc[p] = "reserved" /\ mu = Nobody
    /\ ActivateFlow(f)
    /\ backlog' = [backlog EXCEPT ![f] = Append(@, [slot |-> held[p], size |-> size])]
    /\ ready' = (ready \/ EnqueueSignals(Cardinality(QueuedSlots)))
    /\ Hold(p, NoSlot)
    /\ Goto(p, "published")
    /\ UNCHANGED <<free, oldDue, mu, demoted, closing, closed>>

\* Mutant: a late publication is left in the closed queue.
CheckClosedNever(p) ==
    /\ pc[p] = "published"
    /\ Goto(p, "idle")
    /\ UNCHANGED <<free, held, flowVars, ready, mu, demoted, closing, closed>>

\* publishReserved reads q.closed after the packet is in the queue: a
\* publisher that lost the race with Close discards what it finds.
CheckClosed(p) ==
    /\ pc[p] = "published"
    /\ Goto(p, IF closed THEN "discard" ELSE "idle")
    /\ UNCHANGED <<free, held, flowVars, ready, mu, demoted, closing, closed>>
-----------------------------------------------------------------------------
(* The scheduler's dequeue loop, entered by Read, its batch and discard. *)

\* A goroutine locks the scheduler with packets queued.
LockQueue(t) ==
    /\ pc[t] \in {"try", "batch", "discard"} /\ mu = Nobody
    /\ QueuedSlots # {}
    /\ mu' = t
    /\ UNCHANGED <<free, held, pc, flowVars, ready, demoted, closing, closed>>

\* tryDequeue finds the queue empty.
FindEmpty(t) ==
    /\ pc[t] \in {"try", "batch", "discard"} /\ mu = Nobody
    /\ QueuedSlots = {}
    /\ Goto(t, IF pc[t] = "try" THEN "wait" ELSE "idle")
    /\ UNCHANGED <<free, held, flowVars, ready, mu, demoted, closing, closed>>

Looking == mu # Nobody /\ demoted = NoFlow
Selected == IF newFlows # <<>> THEN Head(newFlows) ELSE Head(oldFlows)
IsNew(f) == f \in Elements(newFlows) /\ f \notin oldDue

\* demoteNewFlow looks for an old flow to serve next only if there is one.
NeedsOldTurn == oldFlows # <<>>

\* demoteNewFlow: f leaves the new list; the old list gets its turn first.
Demote(f) ==
    /\ newFlows' = Without(newFlows, f)
    /\ IF NeedsOldTurn
       THEN demoted' = f /\ UNCHANGED oldFlows
       ELSE oldFlows' = Append(oldFlows, f) /\ UNCHANGED demoted
    /\ UNCHANGED <<detached, oldDue>>

MoveToOldTail(f) ==
    /\ newFlows' = Without(newFlows, f)
    /\ oldFlows' = Append(Without(oldFlows, f), f)
    /\ oldDue' = oldDue \ {f}
    /\ UNCHANGED <<detached, demoted>>

Detach(f) ==
    /\ newFlows' = Without(newFlows, f)
    /\ oldFlows' = Without(oldFlows, f)
    /\ detached' = Append(detached, f)
    /\ oldDue' = oldDue \ {f}
    /\ UNCHANGED demoted

\* One refill.
Refilled(c) == c + Quantum

\* The first ready flow has no packet.
SkipEmptyFlow ==
    /\ Looking
    /\ LET f == Selected
       IN  /\ backlog[f] = <<>>
           /\ IF IsNew(f) THEN Demote(f) ELSE Detach(f)
    /\ UNCHANGED <<free, held, pc, backlog, credit, ready, mu, closing, closed>>

\* The first ready flow has no credit: it is refilled and, unless it is due,
\* goes behind the others.
RefillFlow ==
    /\ Looking
    /\ LET f == Selected
       IN  /\ backlog[f] # <<>> /\ credit[f] <= 0
           /\ credit' = [credit EXCEPT ![f] = Refilled(@)]
           /\ IF f \in oldDue THEN UNCHANGED <<newFlows, oldFlows, detached, oldDue, demoted>>
              ELSE IF IsNew(f) THEN Demote(f) ELSE MoveToOldTail(f)
    /\ UNCHANGED <<free, held, pc, backlog, ready, mu, closing, closed>>

\* Mutant: a blocking reader does not pass readiness on.
DequeueSignalsNever(t) == FALSE

\* Only the blocking first dequeue of a Read hands readiness on.
DequeueSignals(t) == pc[t] = "try" /\ Cardinality(QueuedSlots) > 1

\* One packet is served and charged.  An emptied or exhausted flow changes
\* its list; the goroutine leaves the lock unless a demotion is unfinished.
ServeFlow ==
    /\ Looking
    /\ LET f == Selected
           e == Head(backlog[f])
           empty == Len(backlog[f]) = 1
           left == credit[f] - e.size
           refill == left <= 0 /\ ~empty
       IN  /\ backlog[f] # <<>> /\ credit[f] > 0
           /\ backlog' = [backlog EXCEPT ![f] = Tail(@)]
           /\ credit' = [credit EXCEPT ![f] = IF refill THEN Refilled(left) ELSE left]
           /\ IF empty /\ ~IsNew(f) THEN Detach(f)
              ELSE IF IsNew(f) /\ (empty \/ left <= 0) THEN Demote(f)
              ELSE IF left <= 0 THEN MoveToOldTail(f)
              ELSE UNCHANGED <<newFlows, oldFlows, detached, oldDue, demoted>>
           /\ Hold(mu, e.slot)
    /\ ready' = (ready \/ DequeueSignals(mu))
    /\ Goto(mu, IF pc[mu] = "discard" THEN "drop" ELSE "copy")
    /\ IF demoted' = NoFlow THEN mu' = Nobody ELSE UNCHANGED mu
    /\ UNCHANGED <<free, closing, closed>>

\* One turn of scheduleOldFlowTurn's loop: empty old flows are detached,
\* exhausted ones refilled and rotated, the first eligible one is scheduled
\* behind the new flows; then the demoted flow joins the old list.
OldFlowTurn ==
    /\ mu # Nobody /\ demoted # NoFlow
    /\ IF oldFlows = <<>>
       THEN /\ oldFlows' = <<demoted>> /\ demoted' = NoFlow
            /\ UNCHANGED <<newFlows, detached, oldDue, credit>>
       ELSE LET f == Head(oldFlows)
            IN  IF backlog[f] = <<>>
                THEN /\ oldFlows' = Tail(oldFlows) /\ detached' = Append(detached, f)
                     /\ UNCHANGED <<newFlows, oldDue, credit, demoted>>
                ELSE IF credit[f] <= 0
                THEN /\ credit' = [credit EXCEPT ![f] = Refilled(@)]
                     /\ oldFlows' = Append(Tail(oldFlows), f)
                     /\ UNCHANGED <<newFlows, detached, oldDue, demoted>>
                ELSE /\ oldFlows' = Append(Tail(oldFlows), demoted)
                     /\ newFlows' = Append(newFlows, f)
                     /\ oldDue' = oldDue \cup {f}
                     /\ demoted' = NoFlow
                     /\ UNCHANGED <<detached, credit>>
    /\ mu' = IF demoted' = NoFlow /\ held[mu] # NoSlot THEN Nobody ELSE mu
    /\ UNCHANGED <<free, held, pc, backlog, ready, closing, closed>>
-----------------------------------------------------------------------------
(* Readers and closure. *)

\* A Read call starts.
BeginRead(r) ==
    /\ pc[r] = "idle" /\ ~closing
    /\ Goto(r, "try")
    /\ UNCHANGED <<free, held, flowVars, ready, mu, demoted, closing, closed>>

\* A blocked reader takes the readiness token and tries again.
TakeReady(r) ==
    /\ pc[r] = "wait" /\ ready
    /\ ready' = FALSE
    /\ Goto(r, "try")
    /\ UNCHANGED <<free, held, flowVars, mu, demoted, closing, closed>>

ReadCancelled(r) ==
    /\ pc[r] = "wait" /\ closing
    /\ Goto(r, "idle")
    /\ UNCHANGED <<free, held, flowVars, ready, mu, demoted, closing, closed>>

\* The packet is copied out and its slot released; Read goes on with its
\* batch or returns.
ReleaseEntry(t) ==
    /\ pc[t] \in {"copy", "drop"} /\ mu # t
    /\ free' = free \cup {held[t]} /\ Hold(t, NoSlot)
    /\ IF pc[t] = "drop" THEN Goto(t, "discard") ELSE \E l \in {"batch", "idle"} : Goto(t, l)
    /\ UNCHANGED <<flowVars, ready, mu, demoted, closing, closed>>

\* Stack.Close: first closeCh, later packetQueue.close.
BeginClose(c) ==
    /\ pc[c] = "idle" /\ ~closing
    /\ closing' = TRUE
    /\ Goto(c, "closing")
    /\ UNCHANGED <<free, held, flowVars, ready, mu, demoted, closed>>

CloseQueue(c) ==
    /\ pc[c] = "closing"
    /\ closed' = TRUE
    /\ Goto(c, "discard")
    /\ UNCHANGED <<free, held, flowVars, ready, mu, demoted, closing>>
-----------------------------------------------------------------------------
PublisherStep(p) ==
    \/ BeginWrite(p) \/ \E s \in Slots : Reserve(p, s)
    \/ ReserveFails(p) \/ RejectCandidate(p) \/ ReleaseReserved(p) \/ CheckClosed(p)
    \/ \E f \in FlowKeys : Displace(p, f) \/ \E n \in PacketSizes : Publish(p, f, n)
Scheduler == SkipEmptyFlow \/ RefillFlow \/ ServeFlow \/ OldFlowTurn
Consume(t) == LockQueue(t) \/ FindEmpty(t) \/ ReleaseEntry(t)
ReaderStep(r) == BeginRead(r) \/ TakeReady(r) \/ ReadCancelled(r)

Next ==
    \/ \E p \in Publishers : PublisherStep(p)
    \/ Scheduler
    \/ \E t \in Threads : Consume(t)
    \/ \E r \in Readers : ReaderStep(r)
    \/ \E c \in Closers : BeginClose(c) \/ CloseQueue(c)

Spec == Init /\ [][Next]_vars

\* The embedder keeps calling Read; a goroutine inside the queue keeps
\* running, and a reader contending for the scheduler lock gets it.
LiveSpec ==
    /\ Spec
    /\ WF_vars(Scheduler)
    /\ \A r \in Readers : WF_vars(ReaderStep(r)) /\ SF_vars(Consume(r))
    /\ \A t \in Publishers \cup Closers : SF_vars(Consume(t))
    /\ \A p \in Publishers : WF_vars(CheckClosed(p))
    /\ \A c \in Closers : WF_vars(CloseQueue(c))
-----------------------------------------------------------------------------
Packets == [slot : Slots, size : PacketSizes]

SlotTypeOK ==
    /\ free \subseteq Slots
    /\ held \in [Threads -> Slots \cup {NoSlot}]
    /\ pc \in [Threads -> {"idle", "reserve", "failed", "retry", "displace", "reserved",
                           "published", "discard", "try", "batch", "wait", "copy", "drop", "closing"}]
    /\ mu \in Threads \cup {Nobody}

FlowTypeOK ==
    /\ newFlows \in Seq(FlowKeys) /\ oldFlows \in Seq(FlowKeys) /\ detached \in Seq(FlowKeys)
    /\ oldDue \subseteq FlowKeys /\ demoted \in FlowKeys \cup {NoFlow}
    /\ backlog \in [FlowKeys -> Seq(Packets)]
    /\ credit \in [FlowKeys -> Int]

\* Every variable has its type: slots and flows come from the fixed stores
\* of packetQueue and fairPacketScheduler.
TypeOK ==
    /\ SlotTypeOK /\ FlowTypeOK
    /\ ready \in BOOLEAN /\ closing \in BOOLEAN /\ closed \in BOOLEAN

\* The variables have their types and every slot is in exactly one place: free,
\* taken by one goroutine, or in the backlog of one flow, once (tryReserve,
\* publishReserved, depart, release, replaceBestEffort, discard).
SlotsConserved ==
    /\ TypeOK
    /\ \A s \in Slots :
        Cardinality({t \in Threads : held[t] = s})
        + (IF s \in free THEN 1 ELSE 0)
        + Cardinality({f \in FlowKeys : s \in QueuedIn(f)}) = 1
    /\ \A f \in FlowKeys : Cardinality(QueuedIn(f)) = Len(backlog[f])

\* A flow is on one list, once, and every flow with packets is on a ready
\* list; a flow in the new list always has a packet, a detached one never.
FlowListsSound ==
    /\ Len(newFlows) + Len(oldFlows) + Len(detached) + (IF demoted = NoFlow THEN 0 ELSE 1)
        = Cardinality(Known \cup ({demoted} \ {NoFlow}))
    /\ oldDue \subseteq Elements(newFlows)
    /\ \A f \in Elements(newFlows) : backlog[f] # <<>>
    /\ \A f \in FlowKeys :
        backlog[f] # <<>> => f \in Elements(newFlows) \cup Elements(oldFlows) \cup {demoted}
    /\ Cardinality(Known) <= Cardinality(Slots)

\* acquireFlow always finds a flow object: a goroutine that holds a reserved
\* slot leaves at least one of the fixed objects without packets, so the
\* panic "output flow capacity invariant violated" is unreachable.
FlowStoreSuffices ==
    (mu = Nobody /\ \E p \in Publishers : pc[p] = "reserved")
        => (StoreFull => Evictable # NoFlow)

\* No packet is stranded: when packets are queued, a waiting reader has the
\* token, or another goroutine is on its way to look at the queue.
NoStrandedPacket ==
    (QueuedSlots # {} /\ ~closing /\ mu = Nobody /\ \E r \in Readers : pc[r] = "wait")
        => ready \/ \E r \in Readers : pc[r] \in {"try", "batch", "copy"}

\* Once Close has run and every publisher that raced it has finished, the
\* queue holds no packet (publishReserved, close, discard).
ClosedQueueIsEmpty ==
    (closed /\ \A t \in Publishers \cup Closers : pc[t] \notin {"published", "discard", "drop"})
        => QueuedSlots = {}

\* Slots, flows and flow objects stay consistent under concurrent publishers,
\* readers and Close, which leaves nothing behind.
QueueSound == SlotsConserved /\ FlowListsSound /\ FlowStoreSuffices /\ ClosedQueueIsEmpty

\* Every published packet is read, displaced or discarded: no flow starves
\* another, however many new flows keep arriving, and the dequeue loop, which
\* holds the lock, ends because a flow gets the credit to be served.
EveryPacketLeaves ==
    \A s \in Slots : (s \in QueuedSlots) ~> (s \notin QueuedSlots)
=============================================================================
