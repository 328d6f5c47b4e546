-------------------------- MODULE DepartureWaiter --------------------------
(***************************************************************************)
(* How a TCP actor learns that a packet it published has left the output   *)
(* queue (stack.go): one queue slot, the word of state the publisher, the  *)
(* dequeuing goroutine and registering actors share without a lock, and    *)
(* the slot's entry of the waiter table.  Every load, store, add and       *)
(* compare-and-swap of the source is a step of its own.                    *)
(*                                                                         *)
(* A registrar is one call of departureWaiter; the waiter it creates has   *)
(* its name.                                                               *)
(***************************************************************************)
EXTENDS Naturals

CONSTANTS
    Registrars,
    NoWaiter,
    MaxGeneration    \* bound: publications of the slot (2^47 - 1 in the code)

ASSUME NoWaiterFresh == NoWaiter \notin Registrars
ASSUME GenerationBound == MaxGeneration \in Nat

VARIABLES
    word,       \* q.slots[slot]: generation, pending and waiter bits
    table,      \* waiters.slots[slot]
    holder,     \* the slot's exclusive owner: "free", "queued", and the
                \* dequeuing goroutine's "look", "swap", "stamp", "notify"
    leaving,    \* the waiter the dequeuing goroutine completes
    pc,         \* per registrar
    gen,        \* the generation of its ticket and waiter
    seen,       \* the word it loaded before its compare-and-swap
    existing,   \* the waiter it found installed
    result,     \* what the call returned
    departed,   \* departedAt is set
    notified    \* its actor has the token, or was running when it was set

slotVars == <<word, table, holder, leaving>>
callVars == <<pc, gen, seen, existing, result>>
vars == <<slotVars, callVars, departed, notified>>

Word == [generation : Nat, pending : BOOLEAN, waiter : BOOLEAN]

\* pendingIn, and the tests of departureWaiter's loops, on a loaded word
PendingIn(g) == word.generation = g /\ word.pending

Init ==
    /\ word = [generation |-> 0, pending |-> FALSE, waiter |-> FALSE]
    /\ table = NoWaiter
    /\ holder = "free" /\ leaving = NoWaiter
    /\ pc = [r \in Registrars |-> "idle"]
    /\ gen = [r \in Registrars |-> 0]
    /\ seen = [r \in Registrars |-> word]
    /\ existing = [r \in Registrars |-> NoWaiter]
    /\ result = [r \in Registrars |-> NoWaiter]
    /\ departed = [r \in Registrars |-> FALSE]
    /\ notified = [r \in Registrars |-> FALSE]
-----------------------------------------------------------------------------
(* The slot's owner. *)

\* publishReserved: the next generation, with neither waiter nor departure.
Publish ==
    /\ holder = "free" /\ word.generation < MaxGeneration
    /\ word' = [generation |-> word.generation + 1, pending |-> TRUE, waiter |-> FALSE]
    /\ holder' = "queued"
    /\ UNCHANGED <<table, leaving, callVars, departed, notified>>

\* Mutant: the departure does not look at the waiter bit.
DepartUnseen ==
    /\ holder = "queued"
    /\ word' = [word EXCEPT !.pending = FALSE]
    /\ holder' = "free"
    /\ UNCHANGED <<table, leaving, callVars, departed, notified>>

\* depart: one atomic subtraction clears pending and reports the waiter bit.
Depart ==
    /\ holder = "queued"
    /\ word' = [word EXCEPT !.pending = FALSE]
    /\ holder' = IF word.waiter THEN "look" ELSE "free"
    /\ UNCHANGED <<table, leaving, callVars, departed, notified>>

\* releaseDepartureWaiter loads the entry, then swaps it out.
LookUp ==
    /\ holder = "look"
    /\ holder' = IF table = NoWaiter THEN "free" ELSE "swap"
    /\ UNCHANGED <<word, table, leaving, callVars, departed, notified>>

SwapOut ==
    /\ holder = "swap"
    /\ table' = NoWaiter
    /\ leaving' = table
    /\ holder' = IF table = NoWaiter THEN "free" ELSE "stamp"
    /\ UNCHANGED <<word, callVars, departed, notified>>

\* completeDepartureWaiter: the departure time, then the token.
Stamp ==
    /\ holder = "stamp"
    /\ departed' = [departed EXCEPT ![leaving] = TRUE]
    /\ holder' = "notify"
    /\ UNCHANGED <<word, table, leaving, callVars, notified>>

Notify ==
    /\ holder = "notify"
    /\ notified' = [notified EXCEPT ![leaving] = TRUE]
    /\ holder' = "free" /\ leaving' = NoWaiter
    /\ UNCHANGED <<word, table, callVars, departed>>
-----------------------------------------------------------------------------
(* departureWaiter, called by the actor that owns the ticket. *)

Goto(r, label) == pc' = [pc EXCEPT ![r] = label]
Return(r, w) == Goto(r, "returned") /\ result' = [result EXCEPT ![r] = w]

\* An actor holds a ticket for a generation that was published.  Calls for one
\* ticket are made by one actor, hence one after another.
Call(r, g) ==
    /\ pc[r] = "idle"
    /\ g \in 1 .. word.generation
    /\ \A o \in Registrars : gen[o] = g => pc[o] = "returned"
    /\ gen' = [gen EXCEPT ![r] = g]
    /\ Goto(r, "check")
    /\ UNCHANGED <<slotVars, seen, existing, result, departed, notified>>

\* The test before the table is touched, and the load at the head of the loop.
Check(r) ==
    /\ pc[r] \in {"check", "load"}
    /\ IF PendingIn(gen[r])
       THEN /\ Goto(r, IF pc[r] = "check" THEN "load" ELSE "existing")
            /\ UNCHANGED result
       ELSE Return(r, NoWaiter)
    /\ UNCHANGED <<slotVars, gen, seen, existing, departed, notified>>

\* A waiter of the same generation is shared; another one is taken for stale.
LoadExisting(r) ==
    /\ pc[r] = "existing"
    /\ existing' = [existing EXCEPT ![r] = table]
    /\ IF table = NoWaiter THEN Goto(r, "install") /\ UNCHANGED result
       ELSE IF gen[table] = gen[r] THEN Return(r, table)
       ELSE Goto(r, "evict") /\ UNCHANGED result
    /\ UNCHANGED <<slotVars, gen, seen, departed, notified>>

Evict(r) ==
    /\ pc[r] = "evict"
    /\ IF table = existing[r]
       THEN table' = NoWaiter /\ Goto(r, "evictstamp")
       ELSE UNCHANGED table /\ Goto(r, "load")
    /\ UNCHANGED <<word, holder, leaving, gen, seen, existing, result, departed, notified>>

EvictStamp(r) ==
    /\ pc[r] = "evictstamp"
    /\ departed' = [departed EXCEPT ![existing[r]] = TRUE]
    /\ Goto(r, "evictnotify")
    /\ UNCHANGED <<slotVars, gen, seen, existing, result, notified>>

EvictNotify(r) ==
    /\ pc[r] = "evictnotify"
    /\ notified' = [notified EXCEPT ![existing[r]] = TRUE]
    /\ Goto(r, "load")
    /\ UNCHANGED <<slotVars, gen, seen, existing, result, departed>>

Install(r) ==
    /\ pc[r] = "install"
    /\ IF table = NoWaiter
       THEN table' = r /\ Goto(r, "confirm")
       ELSE UNCHANGED table /\ Goto(r, "load")
    /\ UNCHANGED <<word, holder, leaving, gen, seen, existing, result, departed, notified>>

\* The final pending check.
Confirm(r) ==
    /\ pc[r] = "confirm"
    /\ seen' = [seen EXCEPT ![r] = word]
    /\ Goto(r, IF PendingIn(gen[r]) THEN "setbit" ELSE "withdraw")
    /\ UNCHANGED <<slotVars, gen, existing, result, departed, notified>>

\* Mutant: a failed compare-and-swap is not retried.
SetBitOnce(r) ==
    /\ pc[r] = "setbit"
    /\ word' = IF word = seen[r] THEN [word EXCEPT !.waiter = TRUE] ELSE word
    /\ Return(r, r)
    /\ UNCHANGED <<table, holder, leaving, gen, seen, existing, departed, notified>>

SetBit(r) ==
    /\ pc[r] = "setbit"
    /\ IF word = seen[r]
       THEN word' = [word EXCEPT !.waiter = TRUE] /\ Return(r, r)
       ELSE UNCHANGED <<word, result>> /\ Goto(r, "confirm")
    /\ UNCHANGED <<table, holder, leaving, gen, seen, existing, departed, notified>>

\* The packet left first: the waiter is taken back unless someone else has.
Withdraw(r) ==
    /\ pc[r] = "withdraw"
    /\ IF table = r
       THEN table' = NoWaiter /\ Goto(r, "selfstamp") /\ UNCHANGED result
       ELSE UNCHANGED table /\ Return(r, r)
    /\ UNCHANGED <<word, holder, leaving, gen, seen, existing, departed, notified>>

\* The registering actor is running: it needs no token.
SelfStamp(r) ==
    /\ pc[r] = "selfstamp"
    /\ departed' = [departed EXCEPT ![r] = TRUE]
    /\ notified' = [notified EXCEPT ![r] = TRUE]
    /\ Return(r, r)
    /\ UNCHANGED <<slotVars, gen, seen, existing>>
-----------------------------------------------------------------------------
Owner == Publish \/ Depart \/ LookUp \/ SwapOut \/ Stamp \/ Notify
Step(r) == \/ Check(r) \/ LoadExisting(r) \/ Evict(r) \/ EvictStamp(r) \/ EvictNotify(r)
           \/ Install(r) \/ Confirm(r) \/ SetBit(r) \/ Withdraw(r) \/ SelfStamp(r)

Next ==
    \/ Owner
    \/ \E r \in Registrars : Step(r) \/ \E g \in 1 .. MaxGeneration : Call(r, g)

Spec == Init /\ [][Next]_vars

\* The device keeps reading, and a goroutine inside the protocol keeps running.
LiveSpec ==
    /\ Spec
    /\ WF_vars(Depart) /\ WF_vars(LookUp \/ SwapOut \/ Stamp \/ Notify)
    /\ \A r \in Registrars : WF_vars(Step(r))
-----------------------------------------------------------------------------
Labels == {"idle", "check", "load", "existing", "evict", "evictstamp", "evictnotify",
           "install", "confirm", "setbit", "withdraw", "selfstamp", "returned"}
Waiters == Registrars \cup {NoWaiter}

\* Every variable has its type; the table, the dequeuing goroutine and the
\* callers name waiters that exist (packetQueueDepartureWaiters).
TypeOK ==
    /\ word \in Word
    /\ table \in Waiters /\ leaving \in Waiters
    /\ holder \in {"free", "queued", "look", "swap", "stamp", "notify"}
    /\ holder \in {"stamp", "notify"} => leaving \in Registrars
    /\ pc \in [Registrars -> Labels]
    /\ gen \in [Registrars -> Nat]
    /\ seen \in [Registrars -> Word]
    /\ existing \in [Registrars -> Waiters] /\ result \in [Registrars -> Waiters]
    /\ \A r \in Registrars : pc[r] \in {"evict", "evictstamp", "evictnotify"} =>
                                existing[r] \in Registrars
    /\ departed \in [Registrars -> BOOLEAN] /\ notified \in [Registrars -> BOOLEAN]

\* Some goroutine has taken waiter w out of the table and will stamp it.
Taken(w) ==
    \/ leaving = w /\ holder = "stamp"
    \/ pc[w] = "selfstamp"
    \/ \E o \in Registrars : pc[o] = "evictstamp" /\ existing[o] = w

\* Or the dequeuing goroutine is about to take it.
BeingCompleted(w) == Taken(w) \/ (table = w /\ holder \in {"look", "swap"})

\* A dequeue racing registration either completes the installed waiter or is
\* detected by the final pending check: once departureWaiter has returned a
\* waiter, the packet's departure is recorded in it, or will be.
NoLostDeparture ==
    \A r \in Registrars :
        (pc[r] = "returned" /\ result[r] # NoWaiter /\ ~PendingIn(gen[r])) =>
            departed[result[r]] \/ BeingCompleted(result[r])

\* A departure is recorded before its wake: an actor that takes the token
\* finds the time (completeDepartureWaiter).
StampBeforeToken == \A r \in Registrars : notified[r] => departed[r]

\* A waiter leaves the table once and is stamped once, whoever takes it: its
\* own actor, another one that finds it stale, or the dequeuing goroutine.
CompletedOnce == \A w \in Registrars : Taken(w) => (table # w /\ ~departed[w])

\* However a registration races the dequeue and other registrations, the
\* departure is recorded, once, and before the token that announces it.
DeparturesSound == NoLostDeparture /\ StampBeforeToken /\ CompletedOnce

\* Every returned waiter whose packet leaves the queue is completed and its
\* actor woken.
DepartureReported ==
    \A r, w \in Registrars :
        (pc[r] = "returned" /\ result[r] = w /\ ~PendingIn(gen[r])) ~> notified[w]
=============================================================================
