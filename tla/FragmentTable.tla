--------------------------- MODULE FragmentTable ---------------------------
(***************************************************************************)
(* The stack's bounded fragment table (fragment.go).  Concurrent Write     *)
(* calls stamp a packet, load the published network state, and only then   *)
(* take fragmentMu; the cleaner goroutine sleeps until the earliest expiry *)
(* it saw; UpdateConfig publishes a new network state and prunes with it   *)
(* afterwards; Close closes closeCh and drops the table afterwards.        *)
(*                                                                         *)
(* One step is one critical section of fragmentMu or one atomic load or    *)
(* store.  Time is the integer clock, bounded by LastTime.                 *)
(***************************************************************************)
EXTENDS FragmentSet, Functions, TLC

CONSTANTS
    Keys,           \* datagram identities; each has a destination of its own
    V6Keys,         \* those of IPv6 datagrams
    Arrivals,       \* well-formed fragments on the wire: range, flags, ECN, family
    Writers, Updaters,
    NetworkStates,  \* sets of destinations an update may configure
    MaximumSets, MaximumPieces, MaximumBytes,
    IPv4Lifetime, IPv6Lifetime,
    LastTime,       \* bound on the clock
    UpdateBound     \* bound on configuration updates

ASSUME Bounds == /\ MaximumSets > 0 /\ MaximumPieces > 0
                 /\ MaximumBytes >= OtherMaximum + Header
ASSUME Lifetimes == IPv4Lifetime \in 1 .. IPv6Lifetime

VARIABLES
    clock,
    accepted,       \* destinations the published network state accepts
    table,          \* s.fragments: key -> entry
    fragmentBytes,
    wake,           \* a token is in fragmentWake
    cleaner,        \* "run", "asleep" or "returned"
    armed,          \* the cleaner's timer, NoTimer when it has none
    close,          \* "open", "closing" once closeCh is closed, "closed"
    writer,         \* a Write call inside handleInboundPacket
    updater,        \* an UpdateConfig call between its store and its prune
    updates         \* number of updates made

tableVars == <<table, fragmentBytes>>
cleanerVars == <<cleaner, armed>>
configVars == <<accepted, updater, updates>>
allTableVars == <<clock, tableVars, wake, cleanerVars, close, writer, configVars>>

NoTimer == LastTime + IPv6Lifetime + 1
IdleWriter == [pc |-> "idle"]
IdleUpdater == [pc |-> "idle"]

\* start, for the entry reassembleParsedFragmentStatus creates
NewEntry(f, now) ==
    [set |-> Start(f), created |-> now, updated |-> now, accountedBytes |-> 0,
     arrivals |-> {}]

\* fragmentExpiry
Expiry(k, e) == e.created + (IF k \in V6Keys THEN IPv6Lifetime ELSE IPv4Lifetime)

TableInit ==
    /\ clock = 0 /\ accepted = Keys
    /\ table = <<>> /\ fragmentBytes = 0
    /\ wake = FALSE /\ cleaner = "run" /\ armed = NoTimer
    /\ close = "open"
    /\ writer = [w \in Writers |-> IdleWriter]
    /\ updater = [u \in Updaters |-> IdleUpdater]
    /\ updates = 0

Bytes(t, keys) == MapThenSumSet(LAMBDA k : t[k].accountedBytes, keys)

\* removeFragmentLocked, for a set of keys
Without(t, b, gone) ==
    [table |-> Restrict(t, DOMAIN t \ gone), bytes |-> b - Bytes(t, gone \cap DOMAIN t)]

\* cleanFragmentsLocked
Expired(t, now) == {k \in DOMAIN t : Expiry(k, t[k]) <= now}
Cleaned(t, b, now) == Without(t, b, Expired(t, now))

\* evictOldestFragmentExceptLocked in a loop: the evicted keys are the oldest
\* by update, and the loop stops once the table is within both limits.
Eviction(t, b, kept, sets, bytes) ==
    LET others == DOMAIN t \ kept
        full(gone) == \/ Cardinality(DOMAIN t \ gone) > sets
                      \/ Without(t, b, gone).bytes > bytes
        evicted(gone) ==
            /\ \A k \in gone, j \in others \ gone : t[k].updated <= t[j].updated
            /\ gone = others \/ ~full(gone)
            /\ \E last \in gone : /\ \A k \in gone : t[k].updated <= t[last].updated
                                  /\ full(gone \ {last})
    IN  IF full({}) /\ others # {} THEN {gone \in SUBSET others : evicted(gone)} ELSE {{}}
-----------------------------------------------------------------------------
(* A Write call. *)

\* handleInboundPacket: a stamped packet parses as a fragment of datagram k.
\* Its range and flags matter only under the lock and are chosen there.
Receive(w) ==
    /\ writer[w].pc = "idle" /\ close = "open"
    /\ \E k \in Keys :
          writer' = [writer EXCEPT ![w] = [pc |-> "received", key |-> k, now |-> clock]]
    /\ UNCHANGED <<clock, tableVars, wake, cleanerVars, close, configVars>>

\* The network state is loaded and asked for the destination, before the lock.
Admit(w) ==
    /\ writer[w].pc = "received"
    /\ writer' = [writer EXCEPT ![w] = IF @.key \in accepted
                     THEN [@ EXCEPT !.pc = "admitted"]
                     ELSE IdleWriter]
    /\ UNCHANGED <<clock, tableVars, wake, cleanerVars, close, configVars>>

\* discardFragment, for a fragment that is truncated or has a parameter problem
Discard(w) ==
    /\ writer[w].pc = "admitted"
    /\ LET r == Without(table, fragmentBytes, {writer[w].key})
       IN  table' = r.table /\ fragmentBytes' = r.bytes
    /\ writer' = [writer EXCEPT ![w] = IdleWriter]
    /\ UNCHANGED <<clock, wake, cleanerVars, close, configVars>>

\* The lifetime runs from the earliest arrival, whoever won the lock.
Created(e, now) == Min({e.created, now})

\* Mutant: only a new entry wakes the cleaner.
WakesCleanerForNew(fresh, e, now, outcome) == fresh

\* A new entry, or an earlier deadline, wakes the cleaner.
WakesCleaner(fresh, e, now, outcome) == fresh \/ (outcome # "invalid" /\ now < e.created)

Hold(r) == table' = r.table /\ fragmentBytes' = r.bytes

\* An entry that alone exceeds the byte limit goes too.
HoldWithin(k, r) ==
    Hold(IF r.bytes > MaximumBytes THEN Without(r.table, r.bytes, {k}) ELSE r)

\* The entry after addFragment: it leaves complete or invalid, or it stays and
\* the oldest others make room for its bytes.
Account(k, now, room, before, r) ==
    IF r.outcome # "pending"
    THEN Hold(Without(room.table, room.bytes, {k}))
    ELSE LET entry == [set |-> r.set,
                       accountedBytes |-> r.set.bytes,
                       created |-> Created(before, now),
                       updated |-> IF r.added THEN Max({before.updated, now}) ELSE before.updated,
                       arrivals |-> before.arrivals \cup {now}]
             held == (k :> entry) @@ room.table
             bytes == room.bytes + r.set.bytes - before.accountedBytes
         IN  \E gone \in Eviction(held, bytes, {k}, MaximumSets, MaximumBytes) :
                HoldWithin(k, Without(held, bytes, gone))

AddTo(k, now, fresh, room, before, r) ==
    /\ Account(k, now, room, before, r)
    /\ wake' = (wake \/ WakesCleaner(fresh, before, now, r.outcome))

\* A datagram without an entry gets one in the place of the oldest.
RetainIn(k, f, now, clean) ==
    \/ /\ k \in DOMAIN clean.table
       /\ AddTo(k, now, FALSE, clean, clean.table[k],
                AddFragment(clean.table[k].set, f, MaximumPieces))
    \/ /\ k \notin DOMAIN clean.table
       /\ \E gone \in Eviction(clean.table, clean.bytes, {}, MaximumSets - 1, clean.bytes) :
            AddTo(k, now, TRUE, Without(clean.table, clean.bytes, gone), NewEntry(f, now),
                  AddFragment(Start(f), f, MaximumPieces))

\* reassembleParsedFragmentStatus from the lock on, for an open stack
Retain(k, f, now) == RetainIn(k, f, now, Cleaned(table, fragmentBytes, now))

Reassemble(w, f) ==
    /\ writer[w].pc = "admitted"
    /\ f.v6 = (writer[w].key \in V6Keys)
    /\ \/ /\ close = "open"
          /\ Retain(writer[w].key, f, writer[w].now)
       \/ /\ close # "open"
          /\ UNCHANGED <<tableVars, wake>>
    /\ writer' = [writer EXCEPT ![w] = IdleWriter]
    /\ UNCHANGED <<clock, cleanerVars, close, configVars>>
-----------------------------------------------------------------------------
(* runFragmentCleaner. *)

\* nextFragmentExpiryLocked
NextExpiry(t) ==
    IF DOMAIN t = {} THEN NoTimer ELSE Min({Expiry(k, t[k]) : k \in DOMAIN t})

CleanerRuns ==
    /\ cleaner = "run"
    /\ LET clean == Cleaned(table, fragmentBytes, clock)
       IN  /\ table' = clean.table /\ fragmentBytes' = clean.bytes
           /\ armed' = NextExpiry(clean.table)
    /\ cleaner' = "asleep"
    /\ UNCHANGED <<clock, wake, close, writer, configVars>>

CleanerTimeout ==
    /\ cleaner = "asleep" /\ armed <= clock
    /\ cleaner' = "run" /\ armed' = NoTimer
    /\ UNCHANGED <<clock, tableVars, wake, close, writer, configVars>>

CleanerWoken ==
    /\ cleaner = "asleep" /\ wake
    /\ wake' = FALSE /\ cleaner' = "run" /\ armed' = NoTimer
    /\ UNCHANGED <<clock, tableVars, close, writer, configVars>>

CleanerReturns ==
    /\ cleaner = "asleep" /\ close # "open"
    /\ cleaner' = "returned" /\ armed' = NoTimer
    /\ UNCHANGED <<clock, tableVars, wake, close, writer, configVars>>
-----------------------------------------------------------------------------
(* UpdateConfig, Close and time. *)

\* The replacement is published ...
StoreNetwork(u) ==
    /\ updater[u].pc = "idle" /\ close = "open" /\ updates < UpdateBound
    /\ \E state \in NetworkStates :
        /\ accepted' = state
        /\ updater' = [updater EXCEPT ![u] = [pc |-> "prune", state |-> state]]
    /\ updates' = updates + 1
    /\ UNCHANGED <<clock, tableVars, wake, cleanerVars, close, writer>>

\* ... and the table is pruned with it later (pruneFragments).
Prune(u) ==
    /\ updater[u].pc = "prune"
    /\ LET r == Without(table, fragmentBytes, DOMAIN table \ updater[u].state)
       IN  table' = r.table /\ fragmentBytes' = r.bytes
    /\ updater' = [updater EXCEPT ![u] = IdleUpdater]
    /\ UNCHANGED <<clock, wake, cleanerVars, close, writer, accepted, updates>>

BeginClose ==
    /\ close = "open" /\ close' = "closing"
    /\ UNCHANGED <<clock, tableVars, wake, cleanerVars, writer, configVars>>

DropTable ==
    /\ close = "closing" /\ close' = "closed"
    /\ table' = <<>> /\ fragmentBytes' = 0
    /\ UNCHANGED <<clock, wake, cleanerVars, writer, configVars>>

Tick ==
    /\ clock < LastTime /\ clock' = clock + 1
    /\ UNCHANGED <<tableVars, wake, cleanerVars, close, writer, configVars>>

CleanerStep == CleanerRuns \/ CleanerTimeout \/ CleanerWoken \/ CleanerReturns
WriterStep(w) == Receive(w) \/ Admit(w) \/ Discard(w) \/ (\E f \in Arrivals : Reassemble(w, f))
TableNext ==
    \/ \E w \in Writers : WriterStep(w)
    \/ CleanerStep
    \/ \E u \in Updaters : StoreNetwork(u) \/ Prune(u)
    \/ BeginClose \/ DropTable
    \/ Tick

TableSpec == TableInit /\ [][TableNext]_allTableVars

-----------------------------------------------------------------------------
\* Every variable has its type; no entry is older or newer than the clock.
TypeOK ==
    /\ clock \in 0 .. LastTime /\ accepted \subseteq Keys
    /\ DOMAIN table \subseteq Keys
    /\ \A k \in DOMAIN table : 0 <= table[k].created /\ table[k].created <= table[k].updated
                               /\ table[k].updated <= clock
    /\ armed \in 1 .. NoTimer
    /\ cleaner \in {"run", "asleep", "returned"} /\ close \in {"open", "closing", "closed"}

\* The variables have their types, the table stays within its three limits and
\* the global byte count is the sum over its entries, whichever of completion,
\* error, expiry, eviction, discarding, pruning or Close took an entry out
\* (removeFragmentLocked).
BytesAccounted ==
    /\ TypeOK
    /\ fragmentBytes = Bytes(table, DOMAIN table) /\ fragmentBytes <= MaximumBytes
    /\ \A k \in DOMAIN table : table[k].accountedBytes = table[k].set.bytes
    /\ Cardinality(DOMAIN table) <= MaximumSets
    /\ \A k \in DOMAIN table : Cardinality(table[k].set.pieces) \in 1 .. MaximumPieces

\* A sleeping cleaner will wake in time for every deadline: its timer is armed
\* no later, or a token waits for it, although a Write that took the lock late
\* may have moved a deadline forward.
ExpiryArmed ==
    (cleaner = "asleep" /\ close # "closed") =>
        (wake \/ \A k \in DOMAIN table : armed <= Expiry(k, table[k]))

\* A datagram's lifetime runs from its earliest fragment, in whatever order the
\* Write calls took the lock.
LifetimeFromFirst == \A k \in DOMAIN table : table[k].created = Min(table[k].arrivals)

\* Once Close has dropped the table, no call that was under way puts anything
\* back (a store to the nil map would panic).
ClosedTableStaysEmpty == close = "closed" => (table = <<>> /\ fragmentBytes = 0)

\* The table keeps its books, its deadlines and its promise to stay empty after
\* Close, although packets are stamped, admitted and retained in separate steps
\* beside the cleaner, a configuration update and Close.
TableFaithful == BytesAccounted /\ ExpiryArmed /\ LifetimeFromFirst /\ ClosedTableStaysEmpty
=============================================================================
