---------------------------- MODULE DatagramSocket ----------------------------
(***************************************************************************)
(* One UDP or raw IP socket (udp.go, ip.go): the bounded receive queue and *)
(* error state, the one-token notification its readers share, the read     *)
(* deadline's channel generations (stack.go) and closure.  The two types   *)
(* keep separate copies of the same code; what only one of them does is    *)
(* marked.  A step is one critical section of c.mu, one channel operation  *)
(* outside it, or one callback.  Every datagram and every error is charged *)
(* one unit of the receive capacity.                                       *)
(***************************************************************************)
EXTENDS Integers, FiniteSets

CONSTANTS
    Readers,        \* goroutines calling the read methods
    Capacities,     \* values of SetReadBuffer
    MaxCalls        \* bound: datagrams, ICMP errors, writes and Set calls together

ASSUME SomeCapacity ==
    /\ Capacities \subseteq Nat \ {0}
    /\ \E c \in Capacities : \A d \in Capacities : d <= c
ASSUME BoundAssumption == MaxCalls \in Nat

Generations == 1..(MaxCalls + 1)
NoState == 0                      \* a nil datagramSocketDeadline.state
Stopped == MaxCalls + 2           \* stoppedDatagramSocketDeadline

VARIABLES
    connected,       \* c.remote.IsValid()
    registered,      \* the socket is in the stack's tables
    closed,          \* c.closed
    datagrams, queuedBytes,      \* c.receive and its charge
    receiveCapacity,
    errors, errorBytes, pending, \* datagramSocketErrorState
    receiveErrors,
    remembered,      \* c.recentTargets holds the socket's peer
    notify,          \* c.receiveNotify is allocated
    token,           \* content of the channel the waiting readers hold
    mu,              \* "free", or the deadline a SetReadDeadline call sets
    reader,          \* per goroutine
    current, done, timer, callbacks,  \* readDeadline: state, closed channels, timers
    made,            \* generations made so far; they are numbered in that order
    setting, due,    \* ghost: the deadline last set, and whether its time has come
    arrival, icmp, writer,            \* in-progress deliveries and writes
    left             \* remaining calls of the bound

queueVars == <<datagrams, queuedBytes, receiveCapacity>>
errorVars == <<errors, errorBytes, pending, receiveErrors>>
notifyVars == <<notify, token>>
deadlineVars == <<current, done, timer, callbacks, made, setting, due>>
socketVars == <<connected, registered, closed, remembered>>
callVars == <<arrival, icmp, writer, left>>
vars == <<socketVars, queueVars, errorVars, notifyVars, mu, reader, deadlineVars, callVars>>

Idle == [at |-> "idle", generation |-> NoState, index |-> 0]

FlagsTypeOK ==
    /\ connected \in BOOLEAN /\ registered \in BOOLEAN /\ closed \in BOOLEAN /\ remembered \in BOOLEAN
    /\ pending \in BOOLEAN /\ receiveErrors \in BOOLEAN
    /\ notify \in BOOLEAN /\ token \in BOOLEAN
    /\ due \in BOOLEAN
    /\ arrival \in BOOLEAN /\ icmp \in BOOLEAN
StateTypeOK ==
    /\ datagrams \in Nat /\ queuedBytes \in Nat /\ errors \in Nat /\ errorBytes \in Nat
    /\ receiveCapacity \in Capacities
    /\ mu \in {"free", "none", "past", "future"}
    /\ reader \in [Readers -> [at : {"idle", "lock", "wait"},
                               generation : Generations \cup {NoState}, index : {0, 1}]]
    /\ current \in Generations \cup {NoState, Stopped}
    /\ done \subseteq Generations /\ callbacks \subseteq Generations
    /\ timer \in [Generations -> {"none", "armed", "fired"}]
    /\ made \in Generations \cup {0}
    /\ setting \in {"none", "past", "future"}
    /\ writer \in {"idle", "options", "remember"}
    /\ left \in 0..MaxCalls
TypeOK == FlagsTypeOK /\ StateTypeOK

Init ==
    /\ connected \in BOOLEAN
    /\ registered = TRUE /\ closed = FALSE
    /\ datagrams = 0 /\ queuedBytes = 0 /\ receiveCapacity = CHOOSE c \in Capacities : \A d \in Capacities : d <= c
    /\ errors = 0 /\ errorBytes = 0 /\ pending = FALSE
    /\ receiveErrors \in BOOLEAN
    /\ remembered = FALSE
    /\ notify = FALSE /\ token = FALSE
    /\ mu = "free"
    /\ reader = [r \in Readers |-> Idle]
    /\ current = NoState /\ done = {} /\ callbacks = {}
    /\ timer = [g \in Generations |-> "none"] /\ made = 0
    /\ setting = "none" /\ due = FALSE
    /\ arrival = FALSE /\ icmp = FALSE /\ writer = "idle"
    /\ left = MaxCalls

(***************************************************************************)
(* Notification.                                                           *)
(***************************************************************************)
\* Mutant: only data keeps the notification armed.
NotifyDataOnly(data, error) == IF notify THEN data > 0 ELSE token

\* notifyReceiveLocked on the queue and pending error a step leaves behind.
NotifyReceiveLocked(data, error) == IF notify THEN data > 0 \/ error ELSE token

(***************************************************************************)
(* Delivery: the socket was found under Stack.mu, and is locked later.     *)
(***************************************************************************)
DeliverLookup ==
    /\ ~arrival /\ registered /\ left > 0
    /\ arrival' = TRUE
    /\ left' = left - 1
    /\ UNCHANGED <<socketVars, queueVars, errorVars, notifyVars, mu, reader, deadlineVars, icmp, writer>>

HasRoom == queuedBytes + errorBytes < receiveCapacity

Enqueue ==
    /\ arrival /\ mu = "free"
    /\ arrival' = FALSE
    /\ IF closed \/ ~HasRoom
       THEN UNCHANGED <<queueVars, token>>
       ELSE /\ datagrams' = datagrams + 1
            /\ queuedBytes' = queuedBytes + 1
            /\ token' = NotifyReceiveLocked(datagrams', pending)
            /\ UNCHANGED receiveCapacity
    /\ UNCHANGED <<connected, registered, closed, remembered, errorVars, notify, mu, reader,
                   deadlineVars, icmp, writer, left>>

\* enqueuePacket of a raw socket also applies its ICMP filter and checksum.
EnqueueFiltered ==
    /\ arrival /\ mu = "free"
    /\ arrival' = FALSE
    /\ UNCHANGED <<socketVars, queueVars, errorVars, notifyVars, mu, reader, deadlineVars, icmp, writer, left>>

\* The quoted destination is checked in one critical section (acceptsError) and
\* the error delivered in another.
AcceptsError ==
    /\ ~icmp /\ registered /\ mu = "free" /\ left > 0
    /\ connected \/ remembered
    /\ icmp' = TRUE
    /\ left' = left - 1
    /\ UNCHANGED <<socketVars, queueVars, errorVars, notifyVars, mu, reader, deadlineVars, arrival, writer>>

\* linuxDatagramICMPReport: whether the error is pending and whether it is
\* queued; a path-MTU error may be ignored in either mode.
ICMPReport(hard) ==
    [pending |-> receiveErrors \/ (connected /\ hard), queued |-> receiveErrors]

DeliverError(hard, ignored) ==
    /\ icmp /\ mu = "free"
    /\ icmp' = FALSE
    /\ IF closed \/ ignored \/ ~ICMPReport(hard).pending
       THEN UNCHANGED <<errorVars, token>>
       ELSE /\ pending' = TRUE
            /\ IF ICMPReport(hard).queued /\ HasRoom
               THEN errors' = errors + 1 /\ errorBytes' = errorBytes + 1
               ELSE UNCHANGED <<errors, errorBytes>>
            /\ token' = NotifyReceiveLocked(datagrams, TRUE)
            /\ UNCHANGED receiveErrors
    /\ UNCHANGED <<socketVars, queueVars, notify, mu, reader, deadlineVars, arrival, writer, left>>

(***************************************************************************)
(* Readers.                                                                *)
(***************************************************************************)
Returns(r) == reader' = [reader EXCEPT ![r] = Idle]
Expired == current \in done
\* The critical section a new call, or one that was woken, runs.
Locked(r) == reader[r].at \in {"idle", "lock"} /\ mu = "free"

\* Closed, or past the deadline.
ReadRefused(r) ==
    /\ Locked(r) /\ (closed \/ Expired)
    /\ Returns(r)
    /\ UNCHANGED <<socketVars, queueVars, errorVars, notifyVars, mu, deadlineVars, callVars>>

\* A pending error comes before data; after a successful prefix of a batch it is
\* left for the next call.
ReadPendingError(r) ==
    /\ Locked(r) /\ ~closed /\ ~Expired /\ pending
    /\ Returns(r)
    /\ IF reader[r].index = 0
       THEN pending' = FALSE /\ token' = NotifyReceiveLocked(datagrams, FALSE)
       ELSE UNCHANGED <<pending, token>>
    /\ UNCHANGED <<socketVars, queueVars, errors, errorBytes, receiveErrors, notify, mu,
                   deadlineVars, callVars>>

\* A peek leaves the datagram; a batch goes on with what is queued.
ReadDatagram(r, peek, more) ==
    /\ Locked(r) /\ ~closed /\ ~Expired /\ ~pending /\ datagrams > 0
    /\ IF peek
       THEN UNCHANGED <<datagrams, queuedBytes>>
       ELSE datagrams' = datagrams - 1 /\ queuedBytes' = queuedBytes - 1
    /\ IF more
       THEN reader' = [reader EXCEPT ![r] = [Idle EXCEPT !.at = "lock", !.index = 1]]
       ELSE Returns(r)
    /\ token' = NotifyReceiveLocked(datagrams', FALSE)
    /\ UNCHANGED <<socketVars, receiveCapacity, errorVars, notify, mu, deadlineVars, callVars>>

\* datagramSocketDeadline.wait, under c.mu for the read deadline: the generation
\* in place or a first one.
Fresh == made + 1
WaitGeneration == IF current = NoState THEN Fresh ELSE current

ReadWaits(r) ==
    /\ Locked(r) /\ ~closed /\ ~Expired /\ ~pending /\ datagrams = 0
    /\ IF reader[r].index > 0
       THEN Returns(r) /\ UNCHANGED <<notify, token, current, made>>
       ELSE /\ notify' = TRUE
            /\ token' = (notify /\ token)
            /\ current' = WaitGeneration
            /\ made' = IF current = NoState THEN Fresh ELSE made
            /\ reader' = [reader EXCEPT ![r].at = "wait", ![r].generation = WaitGeneration]
    /\ UNCHANGED <<socketVars, queueVars, errorVars, mu, done, timer, callbacks, setting, due, callVars>>

\* The select: whichever channel is ready.
WakeNotified(r) ==
    /\ reader[r].at = "wait" /\ token
    /\ token' = FALSE
    /\ reader' = [reader EXCEPT ![r] = [Idle EXCEPT !.at = "lock"]]
    /\ UNCHANGED <<socketVars, queueVars, errorVars, notify, mu, deadlineVars, callVars>>

WakeTimeout(r) ==
    /\ reader[r].at = "wait" /\ reader[r].generation \in done
    /\ Returns(r)
    /\ UNCHANGED <<socketVars, queueVars, errorVars, notifyVars, mu, deadlineVars, callVars>>

\* Mutant: the select has no case for c.closed.
WakeClosedMissing(r) == FALSE /\ UNCHANGED vars

WakeClosed(r) ==
    /\ reader[r].at = "wait" /\ closed
    /\ Returns(r)
    /\ UNCHANGED <<socketVars, queueVars, errorVars, notifyVars, mu, deadlineVars, callVars>>

\* Mutant: an extended error is popped without returning its charge.
ReadErrorKeepsCharge ==
    /\ mu = "free" /\ ~closed /\ errors > 0
    /\ errors' = errors - 1
    /\ pending' = (errors' > 0)
    /\ token' = NotifyReceiveLocked(datagrams, pending')
    /\ UNCHANGED <<socketVars, queueVars, errorBytes, receiveErrors, notify, mu, reader, deadlineVars, callVars>>

\* ReadError, and each message of readErrorBatch; the pending error becomes the
\* next one of the queue (rearmPending).
ReadError ==
    /\ mu = "free" /\ ~closed /\ errors > 0
    /\ errors' = errors - 1 /\ errorBytes' = errorBytes - 1
    /\ pending' = (errors' > 0)
    /\ token' = NotifyReceiveLocked(datagrams, pending')
    /\ UNCHANGED <<socketVars, queueVars, receiveErrors, notify, mu, reader, deadlineVars, callVars>>

(***************************************************************************)
(* Options and writes.                                                     *)
(***************************************************************************)
SetReadBuffer(bytes) ==
    /\ mu = "free" /\ ~closed /\ left > 0
    /\ receiveCapacity' = bytes
    /\ left' = left - 1
    /\ UNCHANGED <<socketVars, datagrams, queuedBytes, errorVars, notifyVars, mu, reader,
                   deadlineVars, arrival, icmp, writer>>

\* Turning the option off purges the extended queue, not the pending error.
SetReceiveErrors(enabled) ==
    /\ mu = "free" /\ ~closed /\ left > 0
    /\ receiveErrors' = enabled
    /\ IF receiveErrors /\ ~enabled
       THEN errors' = 0 /\ errorBytes' = 0
       ELSE UNCHANGED <<errors, errorBytes>>
    /\ token' = NotifyReceiveLocked(datagrams, pending)
    /\ left' = left - 1
    /\ UNCHANGED <<socketVars, queueVars, pending, notify, mu, reader, deadlineVars, arrival, icmp, writer>>

\* prepareWrite checks closure and the write deadline without the lock.
PrepareWrite ==
    /\ writer = "idle" /\ ~closed /\ left > 0
    /\ writer' = "options"
    /\ left' = left - 1
    /\ UNCHANGED <<socketVars, queueVars, errorVars, notifyVars, mu, reader, deadlineVars, arrival, icmp>>

\* writeOptions: a pending error is consumed and fails the write; a raw socket
\* does so only for header-included packets.
WriteOptions(consumes) ==
    /\ writer = "options" /\ mu = "free"
    /\ IF pending /\ consumes
       THEN /\ pending' = FALSE
            /\ token' = NotifyReceiveLocked(datagrams, FALSE)
            /\ writer' = "idle"
       ELSE writer' = "remember" /\ UNCHANGED <<pending, token>>
    /\ UNCHANGED <<socketVars, queueVars, errors, errorBytes, receiveErrors, notify, mu, reader,
                   deadlineVars, arrival, icmp, left>>

\* After the packet left: rememberTarget, for a later ICMP quote of it.
RememberTarget ==
    /\ writer = "remember" /\ mu = "free"
    /\ remembered' = (remembered \/ (~closed /\ ~connected))
    /\ writer' = "idle"
    /\ UNCHANGED <<connected, registered, closed, queueVars, errorVars, notifyVars,
                   mu, reader, deadlineVars, arrival, icmp, left>>

(***************************************************************************)
(* The read deadline.  Set holds c.mu while it waits for a callback that   *)
(* has started; a callback only closes its own generation.                 *)
(***************************************************************************)
HasTimer == current \in Generations /\ timer[current] # "none"

SetBegins(deadline) ==
    /\ mu = "free" /\ ~closed /\ left > 0
    /\ mu' = deadline
    /\ left' = left - 1
    \* timer.Stop succeeds unless the callback was started.
    /\ timer' = IF HasTimer /\ timer[current] = "armed" THEN [timer EXCEPT ![current] = "none"] ELSE timer
    /\ UNCHANGED <<socketVars, queueVars, errorVars, notifyVars, reader, current, done, callbacks,
                   made, setting, due, arrival, icmp, writer>>

\* Mutant: set does not wait for a callback that has started.
CallbackOverMissing == TRUE

\* <-state.done after a failed Stop.
CallbackOver == HasTimer => current \in done

\* With no state a zero deadline changes nothing; a closed generation is
\* replaced when the deadline is cleared or extended, and an open one is
\* reused, closed at once for a deadline in the past.
SetApplies ==
    /\ mu # "free" /\ CallbackOver
    /\ mu' = "free"
    /\ setting' = mu /\ due' = FALSE
    /\ LET state == WaitGeneration
           stopped == IF HasTimer THEN [timer EXCEPT ![current] = "none"] ELSE timer
           target == IF state \in done THEN Fresh ELSE state
       IN CASE mu = "none" ->
                 /\ current' = IF current \in done THEN NoState ELSE current
                 /\ timer' = stopped
                 /\ UNCHANGED <<done, made>>
            [] mu = "future" ->
                 /\ current' = target
                 /\ made' = IF target = current THEN made ELSE Fresh
                 /\ timer' = [stopped EXCEPT ![target] = "armed"]
                 /\ UNCHANGED done
            [] mu = "past" ->
                 /\ current' = state
                 /\ made' = IF state = current THEN made ELSE Fresh
                 /\ done' = done \cup {state}
                 /\ timer' = stopped
    /\ UNCHANGED <<socketVars, queueVars, errorVars, notifyVars, reader, callbacks, callVars>>

TimerFires(g) ==
    /\ timer[g] = "armed"
    /\ timer' = [timer EXCEPT ![g] = "fired"]
    /\ callbacks' = callbacks \cup {g}
    /\ due' = (due \/ g = current)
    /\ UNCHANGED <<socketVars, queueVars, errorVars, notifyVars, mu, reader, current, done, made, setting, callVars>>

\* close(done) of the generation the callback captured.
CallbackRuns(g) ==
    /\ g \in callbacks
    /\ callbacks' = callbacks \ {g}
    /\ done' = done \cup {g}
    /\ UNCHANGED <<socketVars, queueVars, errorVars, notifyVars, mu, reader, current, timer, made, setting, due, callVars>>

(***************************************************************************)
(* Closure: closeUDP or closeIP, then closeFromStack.                      *)
(***************************************************************************)
Unregister ==
    /\ registered
    /\ registered' = FALSE
    /\ UNCHANGED <<connected, closed, remembered, queueVars, errorVars, notifyVars,
                   mu, reader, deadlineVars, callVars>>

CloseFromStack ==
    /\ ~registered /\ ~closed /\ mu = "free"
    /\ closed' = TRUE
    /\ datagrams' = 0 /\ queuedBytes' = 0
    /\ errors' = 0 /\ errorBytes' = 0 /\ pending' = FALSE
    /\ remembered' = FALSE
    /\ notify' = FALSE
    /\ current' = Stopped
    /\ timer' = IF HasTimer THEN [timer EXCEPT ![current] = "none"] ELSE timer
    /\ UNCHANGED <<connected, registered, receiveCapacity, receiveErrors, token, mu, reader,
                   done, callbacks, made, setting, due, callVars>>

ReadStep(r) ==
    \/ ReadRefused(r) \/ ReadPendingError(r) \/ ReadWaits(r)
    \/ \E peek, more \in BOOLEAN : ReadDatagram(r, peek, more)
    \/ WakeNotified(r) \/ WakeTimeout(r) \/ WakeClosed(r)

Next ==
    \/ DeliverLookup \/ Enqueue \/ EnqueueFiltered
    \/ AcceptsError \/ \E hard, ignored \in BOOLEAN : DeliverError(hard, ignored)
    \/ \E r \in Readers : ReadStep(r)
    \/ ReadError
    \/ \E bytes \in Capacities : SetReadBuffer(bytes)
    \/ \E enabled \in BOOLEAN : SetReceiveErrors(enabled)
    \/ PrepareWrite \/ \E consumes \in BOOLEAN : WriteOptions(consumes)
    \/ RememberTarget
    \/ \E deadline \in {"none", "past", "future"} : SetBegins(deadline)
    \/ SetApplies
    \/ \E g \in Generations : TimerFires(g) \/ CallbackRuns(g)
    \/ Unregister \/ CloseFromStack

Spec == Init /\ [][Next]_vars

\* A started read, callback, set or closure goes on: goroutines are scheduled
\* and sync.Mutex lets every waiter through.  Calls and arrivals need not come.
Fairness ==
    /\ \A r \in Readers : WF_vars(reader[r].at # "idle" /\ ReadStep(r))
    /\ WF_vars(SetApplies)
    /\ \A g \in Generations : WF_vars(CallbackRuns(g))
LiveSpec == Spec /\ Fairness

-----------------------------------------------------------------------------
Waiting(r) == reader[r].at = "wait"

\* A reader does not sleep beside a datagram or a pending error: the one token
\* is in the channel, or the reader that took it is on its way back to the lock,
\* or the sleeper is woken by its deadline or by Close anyway.  A reader that
\* took the token and then returns for the deadline does not put it back
\* (readDatagram).
NoStrandedReader ==
    \A r \in Readers :
        Waiting(r) /\ (datagrams > 0 \/ pending) =>
            \/ token \/ closed \/ reader[r].generation \in done
            \/ \E q \in Readers : reader[q].at = "lock"

\* The deadline in force is the one set last: its channel is closed only for
\* that setting, no callback of an earlier setting is left that could close the
\* channel a later one reuses (or close it twice, a panic), and a sleeping
\* reader listens to the channel in force or to a closed one
\* (datagramSocketDeadline.set).
DeadlineIsTheLatest ==
    /\ current \in done /\ mu = "free" => setting = "past" \/ (setting = "future" /\ due)
    /\ callbacks \cap done = {}
    /\ mu = "free" /\ ~closed => \A g \in callbacks : g = current /\ setting = "future"
    /\ \A r \in Readers :
          Waiting(r) /\ ~closed => reader[r].generation = current \/ reader[r].generation \in done

\* What is charged is what is held, whatever popped, purged or cleared it; the
\* charge is what later arrivals are refused for.  A closed socket holds no
\* payload, error, destination or timer, also when a delivery, a read or a write
\* that had already found it finishes later (closeFromStack).
ChargedIsHeld ==
    /\ queuedBytes = datagrams /\ errorBytes = errors
    /\ closed =>
          /\ datagrams = 0 /\ errors = 0 /\ ~pending /\ ~remembered
          /\ \A g \in Generations : timer[g] # "armed"

\* A read that is blocked when the socket closes, or when its deadline passes
\* and is not replaced, returns.
BlockedReadsReturn ==
    \A r \in Readers : Waiting(r) /\ (closed \/ Expired) ~>
                          reader[r].at = "idle" \/ ~(closed \/ Expired)
=============================================================================
