------------------------ MODULE DatagramSocketProofs ------------------------
(***************************************************************************)
(* Machine-checked proofs about DatagramSocket, for any set of readers,    *)
(* any capacities and any number of calls: no reader sleeps beside a       *)
(* datagram or an error, the deadline in force is the one set last, and    *)
(* what is charged to the receive buffer is what it holds.                 *)
(***************************************************************************)
EXTENDS DatagramSocket, TLAPS

(* The inductive invariant. *)

\* A generation beyond the last one made has never been used.
FreshIsUnused ==
    /\ current \in Generations => current <= made
    /\ \A g \in Generations :
        g > made => g \notin done /\ g \notin callbacks /\ timer[g] = "none"

\* A generation is made by a Set call, or by the first wait after one of them
\* (or none) left no state: there are never more than the calls can make.
GenerationsSuffice ==
    /\ made <= (MaxCalls - left) + 1
    /\ current = NoState \/ mu # "free" => made + 1 <= (MaxCalls - left) + 1
    /\ current = NoState /\ mu # "free" => made + 2 <= (MaxCalls - left) + 1

\* Only the generation in force has a timer, and only while a deadline in the
\* future is set; SetReadDeadline stopped it before it waits for its callback.
TimerInForce ==
    \A g \in Generations : timer[g] # "none" =>
        /\ g = current /\ setting = "future"
        /\ timer[g] = "armed" => g \notin done /\ g \notin callbacks /\ mu = "free"
        /\ timer[g] = "fired" => g \in callbacks \/ g \in done

\* A callback that was started has not run, and belongs to the fired timer of
\* the generation in force unless the socket was closed.
CallbackInForce ==
    \A g \in callbacks :
        /\ g \notin done
        /\ ~closed => g = current /\ timer[g] = "fired" /\ due

\* A channel is closed for the setting in force.
ExpiredForCause == current \in done => setting = "past" \/ (setting = "future" /\ due)

\* Close is exclusive with SetReadDeadline and leaves the stopped state.
ClosedIsStopped ==
    /\ current = Stopped => closed
    /\ closed => current = Stopped /\ mu = "free" /\ ~registered

\* A sleeping reader holds the notification channel and a generation.
SleepersListen ==
    \A r \in Readers : Waiting(r) =>
        /\ reader[r].generation # NoState
        /\ ~closed => notify /\ (reader[r].generation = current \/ reader[r].generation \in done)

\* The strengthening of NoStrandedReader: the reader on its way to the lock is at
\* the first message of its call, so it does not leave a pending error behind.
TokenOrTaker ==
    \A r \in Readers :
        Waiting(r) /\ (datagrams > 0 \/ pending) =>
            \/ token \/ closed \/ reader[r].generation \in done
            \/ \E q \in Readers : reader[q].at = "lock" /\ reader[q].index = 0

\* The errors that are queued or pending, and the closed socket that has none.
ChargeInv ==
    /\ queuedBytes = datagrams /\ errorBytes = errors
    /\ closed => datagrams = 0 /\ errors = 0 /\ ~pending /\ ~remembered

DeadlineInv ==
    /\ FreshIsUnused /\ GenerationsSuffice /\ TimerInForce /\ CallbackInForce
    /\ ExpiredForCause

IndInv == TypeOK /\ DeadlineInv /\ ClosedIsStopped /\ SleepersListen /\ TokenOrTaker /\ ChargeInv
-----------------------------------------------------------------------------
(* Facts about steps that leave parts of the state alone. *)

\* A step that only spends calls keeps the deadline's part of the invariant.
LEMMA DeadlineFrame ==
    ASSUME TypeOK, DeadlineInv, deadlineVars' = deadlineVars, mu' = mu, closed' = closed,
           NEW rest \in 0..left, left' = rest
    PROVE  DeadlineInv'
  <1> USE BoundAssumption DEF deadlineVars, DeadlineInv, TypeOK, StateTypeOK, Generations
  <1>1. FreshIsUnused'
    BY DEF FreshIsUnused
  <1>2. GenerationsSuffice'
    BY DEF GenerationsSuffice
  <1>3. TimerInForce' /\ CallbackInForce' /\ ExpiredForCause'
    BY DEF TimerInForce, CallbackInForce, ExpiredForCause
  <1> QED
    BY <1>1, <1>2, <1>3

\* Sleepers are not disturbed by a step that changes neither them nor what they
\* listen to.
LEMMA SleepersFrame ==
    ASSUME SleepersListen, reader' = reader, current' = current, done' = done,
           notify' = notify, closed' = closed
    PROVE  SleepersListen'
  BY DEF SleepersListen, Waiting

\* notifyReceiveLocked leaves the token in the channel for what is readable
\* (notifyReceiveLocked).
LEMMA NotifyWakes ==
    ASSUME TypeOK, SleepersListen, reader' = reader, done' = done, closed' = closed,
           token' = NotifyReceiveLocked(datagrams', pending')
    PROVE  TokenOrTaker'
  BY DEF TypeOK, FlagsTypeOK, SleepersListen, TokenOrTaker, NotifyReceiveLocked, Waiting

\* A step that adds nothing readable strands nobody.
LEMMA NothingReadable ==
    ASSUME TokenOrTaker, reader' = reader, done' = done, closed' = closed,
           datagrams' = datagrams, pending' = pending, token' = token
    PROVE  TokenOrTaker'
  BY DEF TokenOrTaker, Waiting
-----------------------------------------------------------------------------
(* The actions of deliveries, options and writes. *)

\* The lookup of a delivery preserves the inductive invariant.
LEMMA DeliverLookupPreserves ==
    ASSUME IndInv, DeliverLookup
    PROVE  IndInv'
  <1> USE BoundAssumption DEF IndInv, DeliverLookup, socketVars, queueVars, errorVars, notifyVars, deadlineVars, callVars
  <1>1. TypeOK'
    <2>1. FlagsTypeOK'
      BY DEF TypeOK, FlagsTypeOK, NotifyReceiveLocked
    <2>2. StateTypeOK'
      BY DEF TypeOK, StateTypeOK
    <2> QED
      BY <2>1, <2>2 DEF TypeOK
  <1>2. DeadlineInv'
    BY DeadlineFrame DEF TypeOK, StateTypeOK
  <1>3. ClosedIsStopped'
    BY DEF ClosedIsStopped
  <1>4. SleepersListen'
    BY SleepersFrame
  <1>5. TokenOrTaker'
    BY NothingReadable
  <1>6. ChargeInv'
    BY DEF ChargeInv, TypeOK, StateTypeOK
  <1> QED
    BY <1>1, <1>2, <1>3, <1>4, <1>5, <1>6

\* enqueue and enqueuePacket preserve the inductive invariant.
LEMMA EnqueuePreserves ==
    ASSUME IndInv, Enqueue
    PROVE  IndInv'
  <1> USE BoundAssumption DEF IndInv, Enqueue, socketVars, queueVars, errorVars, notifyVars, deadlineVars, callVars
  <1>1. TypeOK'
    <2>1. FlagsTypeOK'
      BY DEF TypeOK, FlagsTypeOK, NotifyReceiveLocked
    <2>2. StateTypeOK'
      BY DEF TypeOK, StateTypeOK
    <2> QED
      BY <2>1, <2>2 DEF TypeOK
  <1>2. DeadlineInv'
    BY DeadlineFrame DEF TypeOK, StateTypeOK
  <1>3. ClosedIsStopped'
    BY DEF ClosedIsStopped
  <1>4. SleepersListen'
    BY SleepersFrame
  <1>5. TokenOrTaker'
    BY NotifyWakes, NothingReadable
  <1>6. ChargeInv'
    BY DEF ChargeInv, TypeOK, StateTypeOK
  <1> QED
    BY <1>1, <1>2, <1>3, <1>4, <1>5, <1>6

\* A datagram a raw socket filters out preserves the inductive invariant.
LEMMA EnqueueFilteredPreserves ==
    ASSUME IndInv, EnqueueFiltered
    PROVE  IndInv'
  <1> USE BoundAssumption DEF IndInv, EnqueueFiltered, socketVars, queueVars, errorVars, notifyVars, deadlineVars, callVars
  <1>1. TypeOK'
    <2>1. FlagsTypeOK'
      BY DEF TypeOK, FlagsTypeOK, NotifyReceiveLocked
    <2>2. StateTypeOK'
      BY DEF TypeOK, StateTypeOK
    <2> QED
      BY <2>1, <2>2 DEF TypeOK
  <1>2. DeadlineInv'
    BY DeadlineFrame DEF TypeOK, StateTypeOK
  <1>3. ClosedIsStopped'
    BY DEF ClosedIsStopped
  <1>4. SleepersListen'
    BY SleepersFrame
  <1>5. TokenOrTaker'
    BY NothingReadable
  <1>6. ChargeInv'
    BY DEF ChargeInv, TypeOK, StateTypeOK
  <1> QED
    BY <1>1, <1>2, <1>3, <1>4, <1>5, <1>6

\* acceptsError preserves the inductive invariant.
LEMMA AcceptsErrorPreserves ==
    ASSUME IndInv, AcceptsError
    PROVE  IndInv'
  <1> USE BoundAssumption DEF IndInv, AcceptsError, socketVars, queueVars, errorVars, notifyVars, deadlineVars, callVars
  <1>1. TypeOK'
    <2>1. FlagsTypeOK'
      BY DEF TypeOK, FlagsTypeOK, NotifyReceiveLocked
    <2>2. StateTypeOK'
      BY DEF TypeOK, StateTypeOK
    <2> QED
      BY <2>1, <2>2 DEF TypeOK
  <1>2. DeadlineInv'
    BY DeadlineFrame DEF TypeOK, StateTypeOK
  <1>3. ClosedIsStopped'
    BY DEF ClosedIsStopped
  <1>4. SleepersListen'
    BY SleepersFrame
  <1>5. TokenOrTaker'
    BY NothingReadable
  <1>6. ChargeInv'
    BY DEF ChargeInv, TypeOK, StateTypeOK
  <1> QED
    BY <1>1, <1>2, <1>3, <1>4, <1>5, <1>6

\* deliverError preserves the inductive invariant.
LEMMA DeliverErrorPreserves ==
    ASSUME IndInv, NEW hard \in BOOLEAN, NEW ignored \in BOOLEAN, DeliverError(hard, ignored)
    PROVE  IndInv'
  <1> USE BoundAssumption DEF IndInv, DeliverError, socketVars, queueVars, errorVars, notifyVars, deadlineVars, callVars
  <1>1. TypeOK'
    <2>1. FlagsTypeOK'
      BY DEF TypeOK, FlagsTypeOK, NotifyReceiveLocked, ICMPReport
    <2>2. StateTypeOK'
      <3>1. \/ errors' = errors /\ errorBytes' = errorBytes
            \/ errors' = errors + 1 /\ errorBytes' = errorBytes + 1
        BY Zenon
      <3> QED
        BY <3>1 DEF TypeOK, StateTypeOK
    <2> QED
      BY <2>1, <2>2 DEF TypeOK
  <1>2. DeadlineInv'
    BY DeadlineFrame DEF TypeOK, StateTypeOK
  <1>3. ClosedIsStopped'
    BY DEF ClosedIsStopped
  <1>4. SleepersListen'
    BY SleepersFrame
  <1>5. TokenOrTaker'
    BY NotifyWakes, NothingReadable
  <1>6. ChargeInv'
    BY DEF ChargeInv, TypeOK, StateTypeOK, ICMPReport
  <1> QED
    BY <1>1, <1>2, <1>3, <1>4, <1>5, <1>6

\* ReadError preserves the inductive invariant.
LEMMA ReadErrorPreserves ==
    ASSUME IndInv, ReadError
    PROVE  IndInv'
  <1> USE BoundAssumption DEF IndInv, ReadError, socketVars, queueVars, errorVars, notifyVars, deadlineVars, callVars
  <1>1. TypeOK'
    <2>1. FlagsTypeOK'
      BY DEF TypeOK, FlagsTypeOK, NotifyReceiveLocked
    <2>2. StateTypeOK'
      BY DEF TypeOK, StateTypeOK, ChargeInv
    <2> QED
      BY <2>1, <2>2 DEF TypeOK
  <1>2. DeadlineInv'
    BY DeadlineFrame DEF TypeOK, StateTypeOK
  <1>3. ClosedIsStopped'
    BY DEF ClosedIsStopped
  <1>4. SleepersListen'
    BY SleepersFrame
  <1>5. TokenOrTaker'
    BY NotifyWakes, NothingReadable
  <1>6. ChargeInv'
    BY DEF ChargeInv, TypeOK, StateTypeOK
  <1> QED
    BY <1>1, <1>2, <1>3, <1>4, <1>5, <1>6

\* SetReadBuffer preserves the inductive invariant.
LEMMA SetReadBufferPreserves ==
    ASSUME IndInv, NEW bytes \in Capacities, SetReadBuffer(bytes)
    PROVE  IndInv'
  <1> USE BoundAssumption DEF IndInv, SetReadBuffer, socketVars, queueVars, errorVars, notifyVars, deadlineVars, callVars
  <1>1. TypeOK'
    <2>1. FlagsTypeOK'
      BY DEF TypeOK, FlagsTypeOK, NotifyReceiveLocked
    <2>2. StateTypeOK'
      BY DEF TypeOK, StateTypeOK
    <2> QED
      BY <2>1, <2>2 DEF TypeOK
  <1>2. DeadlineInv'
    BY DeadlineFrame DEF TypeOK, StateTypeOK
  <1>3. ClosedIsStopped'
    BY DEF ClosedIsStopped
  <1>4. SleepersListen'
    BY SleepersFrame
  <1>5. TokenOrTaker'
    BY NothingReadable
  <1>6. ChargeInv'
    BY DEF ChargeInv, TypeOK, StateTypeOK
  <1> QED
    BY <1>1, <1>2, <1>3, <1>4, <1>5, <1>6

\* SetReceiveErrors preserves the inductive invariant.
LEMMA SetReceiveErrorsPreserves ==
    ASSUME IndInv, NEW enabled \in BOOLEAN, SetReceiveErrors(enabled)
    PROVE  IndInv'
  <1> USE BoundAssumption DEF IndInv, SetReceiveErrors, socketVars, queueVars, errorVars, notifyVars, deadlineVars, callVars
  <1>1. TypeOK'
    <2>1. FlagsTypeOK'
      BY DEF TypeOK, FlagsTypeOK, NotifyReceiveLocked
    <2>2. StateTypeOK'
      BY DEF TypeOK, StateTypeOK
    <2> QED
      BY <2>1, <2>2 DEF TypeOK
  <1>2. DeadlineInv'
    BY DeadlineFrame DEF TypeOK, StateTypeOK
  <1>3. ClosedIsStopped'
    BY DEF ClosedIsStopped
  <1>4. SleepersListen'
    BY SleepersFrame
  <1>5. TokenOrTaker'
    BY NotifyWakes, NothingReadable
  <1>6. ChargeInv'
    BY DEF ChargeInv, TypeOK, StateTypeOK
  <1> QED
    BY <1>1, <1>2, <1>3, <1>4, <1>5, <1>6

\* prepareWrite preserves the inductive invariant.
LEMMA PrepareWritePreserves ==
    ASSUME IndInv, PrepareWrite
    PROVE  IndInv'
  <1> USE BoundAssumption DEF IndInv, PrepareWrite, socketVars, queueVars, errorVars, notifyVars, deadlineVars, callVars
  <1>1. TypeOK'
    <2>1. FlagsTypeOK'
      BY DEF TypeOK, FlagsTypeOK, NotifyReceiveLocked
    <2>2. StateTypeOK'
      BY DEF TypeOK, StateTypeOK
    <2> QED
      BY <2>1, <2>2 DEF TypeOK
  <1>2. DeadlineInv'
    BY DeadlineFrame DEF TypeOK, StateTypeOK
  <1>3. ClosedIsStopped'
    BY DEF ClosedIsStopped
  <1>4. SleepersListen'
    BY SleepersFrame
  <1>5. TokenOrTaker'
    BY NothingReadable
  <1>6. ChargeInv'
    BY DEF ChargeInv, TypeOK, StateTypeOK
  <1> QED
    BY <1>1, <1>2, <1>3, <1>4, <1>5, <1>6

\* writeOptions preserves the inductive invariant.
LEMMA WriteOptionsPreserves ==
    ASSUME IndInv, NEW consumes \in BOOLEAN, WriteOptions(consumes)
    PROVE  IndInv'
  <1> USE BoundAssumption DEF IndInv, WriteOptions, socketVars, queueVars, errorVars, notifyVars, deadlineVars, callVars
  <1>1. TypeOK'
    <2>1. FlagsTypeOK'
      BY DEF TypeOK, FlagsTypeOK, NotifyReceiveLocked
    <2>2. StateTypeOK'
      BY DEF TypeOK, StateTypeOK
    <2> QED
      BY <2>1, <2>2 DEF TypeOK
  <1>2. DeadlineInv'
    BY DeadlineFrame DEF TypeOK, StateTypeOK
  <1>3. ClosedIsStopped'
    BY DEF ClosedIsStopped
  <1>4. SleepersListen'
    BY SleepersFrame
  <1>5. TokenOrTaker'
    BY NotifyWakes, NothingReadable
  <1>6. ChargeInv'
    BY DEF ChargeInv, TypeOK, StateTypeOK
  <1> QED
    BY <1>1, <1>2, <1>3, <1>4, <1>5, <1>6

\* rememberTarget preserves the inductive invariant.
LEMMA RememberTargetPreserves ==
    ASSUME IndInv, RememberTarget
    PROVE  IndInv'
  <1> USE BoundAssumption DEF IndInv, RememberTarget, socketVars, queueVars, errorVars, notifyVars, deadlineVars, callVars
  <1>1. TypeOK'
    <2>1. FlagsTypeOK'
      BY DEF TypeOK, FlagsTypeOK, NotifyReceiveLocked
    <2>2. StateTypeOK'
      BY DEF TypeOK, StateTypeOK
    <2> QED
      BY <2>1, <2>2 DEF TypeOK
  <1>2. DeadlineInv'
    BY DeadlineFrame DEF TypeOK, StateTypeOK
  <1>3. ClosedIsStopped'
    BY DEF ClosedIsStopped
  <1>4. SleepersListen'
    BY SleepersFrame
  <1>5. TokenOrTaker'
    BY NothingReadable
  <1>6. ChargeInv'
    BY DEF ChargeInv, TypeOK, StateTypeOK
  <1> QED
    BY <1>1, <1>2, <1>3, <1>4, <1>5, <1>6

\* Removal from the tables preserves the inductive invariant.
LEMMA UnregisterPreserves ==
    ASSUME IndInv, Unregister
    PROVE  IndInv'
  <1> USE BoundAssumption DEF IndInv, Unregister, socketVars, queueVars, errorVars, notifyVars, deadlineVars, callVars
  <1>1. TypeOK'
    <2>1. FlagsTypeOK'
      BY DEF TypeOK, FlagsTypeOK, NotifyReceiveLocked
    <2>2. StateTypeOK'
      BY DEF TypeOK, StateTypeOK
    <2> QED
      BY <2>1, <2>2 DEF TypeOK
  <1>2. DeadlineInv'
    BY DeadlineFrame DEF TypeOK, StateTypeOK
  <1>3. ClosedIsStopped'
    BY DEF ClosedIsStopped
  <1>4. SleepersListen'
    BY SleepersFrame
  <1>5. TokenOrTaker'
    BY NothingReadable
  <1>6. ChargeInv'
    BY DEF ChargeInv, TypeOK, StateTypeOK
  <1> QED
    BY <1>1, <1>2, <1>3, <1>4, <1>5, <1>6
-----------------------------------------------------------------------------
(* The readers. *)

\* A refused read preserves the inductive invariant.
LEMMA ReadRefusedPreserves ==
    ASSUME IndInv, NEW r \in Readers, ReadRefused(r)
    PROVE  IndInv'
  <1> USE BoundAssumption DEF IndInv, ReadRefused, socketVars, queueVars, errorVars, notifyVars, deadlineVars, callVars
  <1>1. TypeOK'
    <2>1. FlagsTypeOK'
      BY DEF TypeOK, FlagsTypeOK, NotifyReceiveLocked
    <2>2. StateTypeOK'
      BY DEF TypeOK, StateTypeOK, Returns, Idle, NoState, ChargeInv
    <2> QED
      BY <2>1, <2>2 DEF TypeOK
  <1>2. DeadlineInv'
    BY DeadlineFrame DEF TypeOK, StateTypeOK
  <1>3. ClosedIsStopped'
    BY DEF ClosedIsStopped
  <1>4. SleepersListen'
    BY DEF SleepersListen, Waiting, Returns, Idle, TypeOK, StateTypeOK
  <1>5. TokenOrTaker'
    BY DEF TokenOrTaker, Waiting, Returns, Idle, TypeOK, FlagsTypeOK, StateTypeOK, SleepersListen, Locked, Expired
  <1>6. ChargeInv'
    BY DEF ChargeInv, TypeOK, StateTypeOK
  <1> QED
    BY <1>1, <1>2, <1>3, <1>4, <1>5, <1>6

\* A read that returns the pending error preserves the inductive invariant.
LEMMA ReadPendingErrorPreserves ==
    ASSUME IndInv, NEW r \in Readers, ReadPendingError(r)
    PROVE  IndInv'
  <1> USE BoundAssumption DEF IndInv, ReadPendingError, socketVars, queueVars, errorVars, notifyVars, deadlineVars, callVars
  <1>1. TypeOK'
    <2>1. FlagsTypeOK'
      BY DEF TypeOK, FlagsTypeOK, NotifyReceiveLocked
    <2>2. StateTypeOK'
      BY DEF TypeOK, StateTypeOK, Returns, Idle, NoState, ChargeInv
    <2> QED
      BY <2>1, <2>2 DEF TypeOK
  <1>2. DeadlineInv'
    BY DeadlineFrame DEF TypeOK, StateTypeOK
  <1>3. ClosedIsStopped'
    BY DEF ClosedIsStopped
  <1>4. SleepersListen'
    BY DEF SleepersListen, Waiting, Returns, Idle, TypeOK, StateTypeOK
  <1>5. TokenOrTaker'
    BY DEF TokenOrTaker, Waiting, Returns, Idle, TypeOK, FlagsTypeOK, StateTypeOK, SleepersListen, NotifyReceiveLocked
  <1>6. ChargeInv'
    BY DEF ChargeInv, TypeOK, StateTypeOK
  <1> QED
    BY <1>1, <1>2, <1>3, <1>4, <1>5, <1>6

\* A read that returns a datagram preserves the inductive invariant.
LEMMA ReadDatagramPreserves ==
    ASSUME IndInv, NEW r \in Readers, NEW peek \in BOOLEAN, NEW more \in BOOLEAN, ReadDatagram(r, peek, more)
    PROVE  IndInv'
  <1> USE BoundAssumption DEF IndInv, ReadDatagram, socketVars, queueVars, errorVars, notifyVars, deadlineVars, callVars
  <1>a. \/ reader' = [reader EXCEPT ![r] = [at |-> "idle", generation |-> NoState, index |-> 0]]
        \/ reader' = [reader EXCEPT ![r] = [at |-> "lock", generation |-> NoState, index |-> 1]]
    BY DEF Returns, Idle
  <1>b. \/ datagrams' = datagrams /\ queuedBytes' = queuedBytes
        \/ datagrams' = datagrams - 1 /\ queuedBytes' = queuedBytes - 1
    OBVIOUS
  <1>1. TypeOK'
    <2>1. FlagsTypeOK'
      BY DEF TypeOK, FlagsTypeOK, NotifyReceiveLocked
    <2>2. StateTypeOK'
      BY <1>a, <1>b DEF TypeOK, StateTypeOK, NoState, ChargeInv
    <2> QED
      BY <2>1, <2>2 DEF TypeOK
  <1>2. DeadlineInv'
    BY DeadlineFrame DEF TypeOK, StateTypeOK
  <1>3. ClosedIsStopped'
    BY DEF ClosedIsStopped
  <1>4. SleepersListen'
    BY <1>a DEF SleepersListen, Waiting, TypeOK, StateTypeOK
  <1>5. TokenOrTaker'
    BY <1>a, <1>b DEF TokenOrTaker, Waiting, TypeOK, FlagsTypeOK, StateTypeOK, SleepersListen,
       NotifyReceiveLocked
  <1>6. ChargeInv'
    BY DEF ChargeInv, TypeOK, StateTypeOK
  <1> QED
    BY <1>1, <1>2, <1>3, <1>4, <1>5, <1>6

\* A reader that takes the token preserves the inductive invariant.
LEMMA WakeNotifiedPreserves ==
    ASSUME IndInv, NEW r \in Readers, WakeNotified(r)
    PROVE  IndInv'
  <1> USE BoundAssumption DEF IndInv, WakeNotified, socketVars, queueVars, errorVars, notifyVars, deadlineVars, callVars
  <1>1. TypeOK'
    <2>1. FlagsTypeOK'
      BY DEF TypeOK, FlagsTypeOK, NotifyReceiveLocked
    <2>2. StateTypeOK'
      BY DEF TypeOK, StateTypeOK, Returns, Idle, NoState, ChargeInv
    <2> QED
      BY <2>1, <2>2 DEF TypeOK
  <1>2. DeadlineInv'
    BY DeadlineFrame DEF TypeOK, StateTypeOK
  <1>3. ClosedIsStopped'
    BY DEF ClosedIsStopped
  <1>4. SleepersListen'
    BY DEF SleepersListen, Waiting, Returns, Idle, TypeOK, StateTypeOK
  <1>5. TokenOrTaker'
    BY DEF TokenOrTaker, Waiting, Returns, Idle, TypeOK, FlagsTypeOK, StateTypeOK, SleepersListen
  <1>6. ChargeInv'
    BY DEF ChargeInv, TypeOK, StateTypeOK
  <1> QED
    BY <1>1, <1>2, <1>3, <1>4, <1>5, <1>6

\* A reader woken by its deadline preserves the inductive invariant.
LEMMA WakeTimeoutPreserves ==
    ASSUME IndInv, NEW r \in Readers, WakeTimeout(r)
    PROVE  IndInv'
  <1> USE BoundAssumption DEF IndInv, WakeTimeout, socketVars, queueVars, errorVars, notifyVars, deadlineVars, callVars
  <1>1. TypeOK'
    <2>1. FlagsTypeOK'
      BY DEF TypeOK, FlagsTypeOK, NotifyReceiveLocked
    <2>2. StateTypeOK'
      BY DEF TypeOK, StateTypeOK, Returns, Idle, NoState, ChargeInv
    <2> QED
      BY <2>1, <2>2 DEF TypeOK
  <1>2. DeadlineInv'
    BY DeadlineFrame DEF TypeOK, StateTypeOK
  <1>3. ClosedIsStopped'
    BY DEF ClosedIsStopped
  <1>4. SleepersListen'
    BY DEF SleepersListen, Waiting, Returns, Idle, TypeOK, StateTypeOK
  <1>5. TokenOrTaker'
    BY DEF TokenOrTaker, Waiting, Returns, Idle, TypeOK, FlagsTypeOK, StateTypeOK, SleepersListen
  <1>6. ChargeInv'
    BY DEF ChargeInv, TypeOK, StateTypeOK
  <1> QED
    BY <1>1, <1>2, <1>3, <1>4, <1>5, <1>6

\* A reader woken by Close preserves the inductive invariant.
LEMMA WakeClosedPreserves ==
    ASSUME IndInv, NEW r \in Readers, WakeClosed(r)
    PROVE  IndInv'
  <1> USE BoundAssumption DEF IndInv, WakeClosed, socketVars, queueVars, errorVars, notifyVars, deadlineVars, callVars
  <1>1. TypeOK'
    <2>1. FlagsTypeOK'
      BY DEF TypeOK, FlagsTypeOK, NotifyReceiveLocked
    <2>2. StateTypeOK'
      BY DEF TypeOK, StateTypeOK, Returns, Idle, NoState, ChargeInv
    <2> QED
      BY <2>1, <2>2 DEF TypeOK
  <1>2. DeadlineInv'
    BY DeadlineFrame DEF TypeOK, StateTypeOK
  <1>3. ClosedIsStopped'
    BY DEF ClosedIsStopped
  <1>4. SleepersListen'
    BY DEF SleepersListen, Waiting, Returns, Idle, TypeOK, StateTypeOK
  <1>5. TokenOrTaker'
    BY DEF TokenOrTaker, Waiting, Returns, Idle, TypeOK, FlagsTypeOK, StateTypeOK, SleepersListen
  <1>6. ChargeInv'
    BY DEF ChargeInv, TypeOK, StateTypeOK
  <1> QED
    BY <1>1, <1>2, <1>3, <1>4, <1>5, <1>6

\* There is a generation left to make whenever one is needed
\* (datagramSocketDeadline.wait and set).
LEMMA FreshExists ==
    ASSUME IndInv, current = NoState \/ mu # "free"
    PROVE  Fresh \in Generations /\ Fresh \notin done /\ Fresh \notin callbacks /\ timer[Fresh] = "none"
  <1>1. Fresh \in Generations
    BY BoundAssumption DEF IndInv, TypeOK, StateTypeOK, DeadlineInv, GenerationsSuffice, Generations, Fresh
  <1>2. Fresh > made
    BY BoundAssumption DEF IndInv, TypeOK, StateTypeOK, Generations, Fresh
  <1> QED
    BY <1>1, <1>2 DEF IndInv, DeadlineInv, FreshIsUnused

\* A read that goes to sleep (wait and the select) preserves the inductive
\* invariant.
LEMMA ReadWaitsPreserves ==
    ASSUME IndInv, NEW r \in Readers, ReadWaits(r)
    PROVE  IndInv'
  <1> USE BoundAssumption DEF IndInv, socketVars, queueVars, errorVars, callVars
  <1>a. CASE reader[r].index > 0
    <2>1. /\ reader' = [reader EXCEPT ![r] = Idle]
          /\ UNCHANGED <<socketVars, queueVars, errorVars, notifyVars, mu, deadlineVars, callVars>>
      BY <1>a DEF ReadWaits, Returns, notifyVars, deadlineVars
    <2> USE <2>1 DEF notifyVars, deadlineVars
    <2>2. TypeOK'
      BY DEF TypeOK, FlagsTypeOK, StateTypeOK, Idle, NoState
    <2>3. DeadlineInv'
      BY DeadlineFrame DEF TypeOK, StateTypeOK
    <2>4. ClosedIsStopped' /\ ChargeInv'
      BY DEF ClosedIsStopped, ChargeInv
    <2>5. SleepersListen'
      BY DEF SleepersListen, Waiting, Idle, TypeOK, StateTypeOK
    <2>6. TokenOrTaker'
      BY <1>a DEF TokenOrTaker, Waiting, Idle, TypeOK, StateTypeOK
    <2> QED
      BY <2>2, <2>3, <2>4, <2>5, <2>6
  <1>b. CASE reader[r].index = 0
    <2> DEFINE g == WaitGeneration
    <2>1. /\ ~closed /\ ~pending /\ datagrams = 0 /\ mu = "free" /\ current \notin done
          /\ notify' = TRUE /\ token' = (notify /\ token)
          /\ current' = g
          /\ made' = IF current = NoState THEN Fresh ELSE made
          /\ reader' = [reader EXCEPT ![r].at = "wait", ![r].generation = g]
          /\ UNCHANGED <<socketVars, queueVars, errorVars, mu, done, timer, callbacks, setting, due, callVars>>
      BY <1>b DEF ReadWaits, Locked, Expired
    <2>2. g \in Generations /\ g # NoState /\ g \notin done
      <3>1. CASE current = NoState
        BY <2>1, <3>1, FreshExists DEF WaitGeneration, Generations, NoState
      <3>2. CASE current # NoState
        BY <2>1, <3>2 DEF WaitGeneration, TypeOK, StateTypeOK, ClosedIsStopped
      <3> QED
        BY <3>1, <3>2
    <2> HIDE DEF g
    <2> USE <2>1, <2>2
    <2>3. TypeOK'
      <3>1. FlagsTypeOK'
        BY DEF TypeOK, FlagsTypeOK
      <3>2. made' \in Generations \cup {0}
        BY FreshExists DEF TypeOK, StateTypeOK
      <3>3. StateTypeOK'
        BY <3>2 DEF TypeOK, StateTypeOK
      <3> QED
        BY <3>1, <3>3 DEF TypeOK
    <2>4. DeadlineInv'
      <3>1. CASE current = NoState
        <4>1. g = made + 1 /\ made' = made + 1 /\ current' = made + 1 /\ current' # NoState
          BY <3>1 DEF g, WaitGeneration, Fresh
        <4>2. FreshIsUnused'
          BY <4>1 DEF DeadlineInv, FreshIsUnused, Generations, TypeOK, StateTypeOK
        <4>3. GenerationsSuffice'
          BY <3>1, <4>1 DEF DeadlineInv, GenerationsSuffice, Generations, TypeOK, StateTypeOK
        <4>4. TimerInForce' /\ CallbackInForce'
          BY <3>1 DEF DeadlineInv, TimerInForce, CallbackInForce, Generations, NoState, TypeOK, StateTypeOK
        <4>5. ExpiredForCause'
          BY DEF ExpiredForCause
        <4> QED
          BY <4>2, <4>3, <4>4, <4>5 DEF DeadlineInv
      <3>2. CASE current # NoState
        <4>1. current' = current /\ made' = made
          BY <3>2 DEF g, WaitGeneration
        <4> QED
          BY <4>1, DeadlineFrame DEF TypeOK, StateTypeOK, deadlineVars
      <3> QED
        BY <3>1, <3>2
    <2>6. ClosedIsStopped' /\ ChargeInv'
      BY DEF ClosedIsStopped, ChargeInv, Generations, Stopped
    <2>7. SleepersListen'
      <3> SUFFICES ASSUME NEW q \in Readers, Waiting(q)'
                   PROVE  /\ reader'[q].generation # NoState
                          /\ reader'[q].generation = current' \/ reader'[q].generation \in done
        BY DEF SleepersListen, Waiting
      <3>1. CASE q = r
        BY <3>1 DEF TypeOK, StateTypeOK
      <3>2. CASE q # r
        <4>1. reader'[q] = reader[q] /\ Waiting(q)
          BY <3>2 DEF Waiting, TypeOK, StateTypeOK
        <4>2. current # NoState => current' = current
          BY DEF g, WaitGeneration
        <4> QED
          BY <4>1, <4>2 DEF SleepersListen
      <3> QED
        BY <3>1, <3>2
    <2>8. TokenOrTaker'
      BY DEF TokenOrTaker
    <2> QED
      BY <2>3, <2>4, <2>6, <2>7, <2>8
  <1> QED
    BY <1>a, <1>b DEF TypeOK, StateTypeOK
-----------------------------------------------------------------------------
(* The read deadline and closure. *)

\* SetReadDeadline's first half (the timer is stopped) preserves the inductive
\* invariant.
LEMMA SetBeginsPreserves ==
    ASSUME IndInv, NEW deadline \in {"none", "past", "future"}, SetBegins(deadline)
    PROVE  IndInv'
  <1> USE BoundAssumption DEF IndInv, SetBegins, socketVars, queueVars, errorVars, notifyVars
  <1>1. TypeOK'
    <2>1. FlagsTypeOK'
      BY DEF TypeOK, FlagsTypeOK
    <2>2. timer' \in [Generations -> {"none", "armed", "fired"}]
      BY DEF TypeOK, StateTypeOK
    <2>3. StateTypeOK'
      BY <2>2 DEF TypeOK, StateTypeOK
    <2> QED
      BY <2>1, <2>3 DEF TypeOK
  <1>2. \A g \in Generations : timer'[g] # "none" => timer'[g] = timer[g] /\ timer[g] # "armed"
    BY DEF TypeOK, StateTypeOK, HasTimer, DeadlineInv, TimerInForce
  <1>3. FreshIsUnused'
    BY <1>2 DEF DeadlineInv, FreshIsUnused, TypeOK, StateTypeOK
  <1>4. GenerationsSuffice'
    BY DEF DeadlineInv, GenerationsSuffice, Generations, TypeOK, StateTypeOK
  <1>5. TimerInForce'
    BY <1>2 DEF DeadlineInv, TimerInForce
  <1>6. CallbackInForce'
    BY DEF DeadlineInv, CallbackInForce, HasTimer, TypeOK, StateTypeOK
  <1>7. ExpiredForCause'
    BY DEF DeadlineInv, ExpiredForCause
  <1>8. ClosedIsStopped' /\ ChargeInv'
    BY DEF ClosedIsStopped, ChargeInv
  <1>9. SleepersListen' /\ TokenOrTaker'
    BY SleepersFrame, NothingReadable
  <1> QED
    BY <1>1, <1>3, <1>4, <1>5, <1>6, <1>7, <1>8, <1>9 DEF DeadlineInv

\* While SetReadDeadline holds the lock and the callback it waited for is over,
\* no callback is left and every timer has been stopped
\* (datagramSocketDeadline.set).
LEMMA NoCallbackLeft ==
    ASSUME IndInv, mu # "free", CallbackOver
    PROVE  /\ callbacks = {} /\ ~closed
           /\ \A g \in Generations : timer[g] # "none" => g = current
  BY DEF IndInv, TypeOK, StateTypeOK, DeadlineInv, TimerInForce, CallbackInForce, ClosedIsStopped,
     CallbackOver, HasTimer

\* SetReadDeadline's second half preserves the inductive invariant.
LEMMA SetAppliesPreserves ==
    ASSUME IndInv, SetApplies
    PROVE  IndInv'
  <1> DEFINE state == WaitGeneration
             stopped == IF HasTimer THEN [timer EXCEPT ![current] = "none"] ELSE timer
             target == IF state \in done THEN Fresh ELSE state
  <1>a. /\ mu # "free" /\ CallbackOver /\ mu' = "free" /\ setting' = mu /\ due' = FALSE
        /\ UNCHANGED <<socketVars, queueVars, errorVars, notifyVars, reader, callbacks, callVars>>
    BY DEF SetApplies
  <1>b. callbacks = {} /\ ~closed
    BY <1>a, NoCallbackLeft
  <1>c. Fresh \in Generations /\ Fresh \notin done /\ timer[Fresh] = "none" /\ Fresh = made + 1
    BY <1>a, FreshExists DEF Fresh
  <1>d. stopped = [g \in Generations |-> "none"]
    BY <1>a, NoCallbackLeft DEF IndInv, TypeOK, StateTypeOK, HasTimer
  <1>e. /\ state \in Generations /\ state # NoState
        /\ current # NoState => state = current
        /\ current = NoState => state = Fresh
    <2>1. CASE current = NoState
      BY <1>c, <2>1 DEF WaitGeneration, Generations, NoState
    <2>2. CASE current # NoState
      BY <1>b, <2>2 DEF WaitGeneration, IndInv, TypeOK, StateTypeOK, ClosedIsStopped
    <2> QED
      BY <2>1, <2>2
  <1>f. /\ target \in Generations /\ target \notin done /\ target # NoState
        /\ target = current \/ (target = Fresh /\ (current = NoState \/ current \in done))
    BY <1>c, <1>e DEF Generations, NoState
  <1> DEFINE Summary ==
               /\ current' \in Generations \cup {NoState}
               /\ made' \in Generations \cup {0}
               /\ timer' \in [Generations -> {"none", "armed", "fired"}]
               /\ done' \subseteq Generations /\ done \subseteq done'
               /\ current' = current \/ current = NoState \/ current \in done
             Outcome ==
               Summary /\ FreshIsUnused' /\ GenerationsSuffice' /\ TimerInForce' /\ ExpiredForCause'
  <1> HIDE DEF Outcome
  <1>j. Outcome
    <2>1. CASE mu = "none"
      <3>1. /\ current' = IF current \in done THEN NoState ELSE current
            /\ timer' = stopped /\ UNCHANGED <<done, made>>
        BY <2>1 DEF SetApplies
      <3> USE <1>a, <1>b, <1>c, <1>d, <1>e, <1>f, <3>1, <2>1
      <3> HIDE DEF state, stopped, target
      <3>2. Summary
        BY DEF IndInv, TypeOK, StateTypeOK, ClosedIsStopped
      <3>3. FreshIsUnused'
        BY DEF IndInv, TypeOK, StateTypeOK, DeadlineInv, FreshIsUnused, Generations, NoState
      <3>4. GenerationsSuffice'
        BY DEF callVars, IndInv, TypeOK, StateTypeOK, DeadlineInv, GenerationsSuffice, Generations
      <3>5. TimerInForce'
        BY DEF TimerInForce
      <3>6. ExpiredForCause'
        BY DEF ExpiredForCause, IndInv, TypeOK, StateTypeOK, NoState, Generations
      <3> QED
        BY <3>2, <3>3, <3>4, <3>5, <3>6 DEF Outcome
    <2>2. CASE mu = "future"
      <3>1. /\ current' = target
            /\ made' = IF target = current THEN made ELSE Fresh
            /\ timer' = [stopped EXCEPT ![target] = "armed"]
            /\ UNCHANGED done
        BY <2>2 DEF SetApplies
      <3> USE <1>a, <1>b, <1>c, <1>d, <1>e, <1>f, <3>1, <2>2
      <3> HIDE DEF state, stopped, target
      <3>a. timer' \in [Generations -> {"none", "armed", "fired"}]
        OBVIOUS
      <3>2. Summary
        BY <3>a DEF IndInv, TypeOK, StateTypeOK, ClosedIsStopped
      <3>3. FreshIsUnused'
        BY DEF IndInv, TypeOK, StateTypeOK, DeadlineInv, FreshIsUnused, Generations, NoState
      <3>4. GenerationsSuffice'
        BY DEF callVars, IndInv, TypeOK, StateTypeOK, DeadlineInv, GenerationsSuffice, Generations
      <3>5. TimerInForce'
        BY DEF TimerInForce
      <3>6. ExpiredForCause'
        BY DEF ExpiredForCause, IndInv, TypeOK, StateTypeOK, NoState, Generations
      <3> QED
        BY <3>2, <3>3, <3>4, <3>5, <3>6 DEF Outcome
    <2>3. CASE mu = "past"
      <3>1. /\ current' = state
            /\ made' = IF state = current THEN made ELSE Fresh
            /\ done' = done \cup {state}
            /\ timer' = stopped
        BY <2>3 DEF SetApplies
      <3> USE <1>a, <1>b, <1>c, <1>d, <1>e, <1>f, <3>1, <2>3
      <3> HIDE DEF state, stopped, target
      <3>2. Summary
        BY DEF IndInv, TypeOK, StateTypeOK, ClosedIsStopped
      <3>3. FreshIsUnused'
        BY DEF IndInv, TypeOK, StateTypeOK, DeadlineInv, FreshIsUnused, Generations, NoState
      <3>4. GenerationsSuffice'
        BY DEF callVars, IndInv, TypeOK, StateTypeOK, DeadlineInv, GenerationsSuffice, Generations
      <3>5. TimerInForce'
        BY DEF TimerInForce
      <3>6. ExpiredForCause'
        BY DEF ExpiredForCause, IndInv, TypeOK, StateTypeOK, NoState, Generations
      <3> QED
        BY <3>2, <3>3, <3>4, <3>5, <3>6 DEF Outcome
    <2> QED
      BY <1>a, <2>1, <2>2, <2>3 DEF IndInv, TypeOK, StateTypeOK
  <1> USE <1>a, <1>b, <1>j DEF Outcome
  <1> HIDE DEF state, stopped, target
  <1>1. TypeOK'
    <2>1. FlagsTypeOK'
      BY DEF IndInv, TypeOK, FlagsTypeOK, socketVars, errorVars, notifyVars, callVars
    <2>2. StateTypeOK'
      BY DEF IndInv, TypeOK, StateTypeOK, queueVars, errorVars, callVars
    <2> QED
      BY <2>1, <2>2 DEF TypeOK
  <1>2. DeadlineInv'
    BY DEF DeadlineInv, CallbackInForce
  <1>3. ClosedIsStopped' /\ ChargeInv'
    BY BoundAssumption DEF IndInv, ClosedIsStopped, ChargeInv, Generations, Stopped, NoState,
       socketVars, queueVars, errorVars
  <1>4. SleepersListen'
    BY DEF IndInv, SleepersListen, Waiting, socketVars, notifyVars
  <1>5. TokenOrTaker'
    BY DEF IndInv, TokenOrTaker, Waiting, socketVars, queueVars, errorVars, notifyVars
  <1> QED
    BY <1>1, <1>2, <1>3, <1>4, <1>5 DEF IndInv

\* A timer that fires preserves the inductive invariant.
LEMMA TimerFiresPreserves ==
    ASSUME IndInv, NEW g \in Generations, TimerFires(g)
    PROVE  IndInv'
  <1> USE BoundAssumption DEF IndInv, TimerFires, socketVars, queueVars, errorVars, notifyVars, callVars
  <1>1. g = current /\ setting = "future" /\ g \notin done /\ g \notin callbacks /\ mu = "free"
    BY DEF TypeOK, StateTypeOK, DeadlineInv, TimerInForce
  <1>2. TypeOK'
    <2>1. FlagsTypeOK'
      BY DEF TypeOK, FlagsTypeOK
    <2>2. StateTypeOK'
      BY DEF TypeOK, StateTypeOK
    <2> QED
      BY <2>1, <2>2 DEF TypeOK
  <1>3. ~closed /\ due'
    <2>1. ~closed
      BY <1>1 DEF ClosedIsStopped, Generations, Stopped
    <2>2. due'
      BY <1>1
    <2> QED
      BY <2>1, <2>2
  <1>4. FreshIsUnused'
    BY <1>1 DEF DeadlineInv, FreshIsUnused, TypeOK, StateTypeOK, Generations
  <1>5. GenerationsSuffice' /\ ExpiredForCause'
    BY <1>1 DEF DeadlineInv, GenerationsSuffice, ExpiredForCause
  <1>6. TimerInForce'
    BY <1>1 DEF DeadlineInv, TimerInForce, TypeOK, StateTypeOK
  <1>7. CallbackInForce'
    BY <1>1, <1>3 DEF DeadlineInv, CallbackInForce, TypeOK, StateTypeOK
  <1>8. ClosedIsStopped' /\ ChargeInv'
    BY DEF ClosedIsStopped, ChargeInv
  <1>9. SleepersListen' /\ TokenOrTaker'
    BY SleepersFrame, NothingReadable
  <1> QED
    BY <1>2, <1>4, <1>5, <1>6, <1>7, <1>8, <1>9 DEF DeadlineInv

\* A callback that closes its generation preserves the inductive invariant.
LEMMA CallbackRunsPreserves ==
    ASSUME IndInv, NEW g \in Generations, CallbackRuns(g)
    PROVE  IndInv'
  <1> USE BoundAssumption DEF IndInv, CallbackRuns, socketVars, queueVars, errorVars, notifyVars, callVars
  <1>1. closed \/ (g = current /\ timer[g] = "fired" /\ due /\ setting = "future")
    BY DEF TypeOK, StateTypeOK, DeadlineInv, CallbackInForce, TimerInForce
  <1>2. TypeOK'
    <2>1. FlagsTypeOK'
      BY DEF TypeOK, FlagsTypeOK
    <2>2. StateTypeOK'
      BY DEF TypeOK, StateTypeOK
    <2> QED
      BY <2>1, <2>2 DEF TypeOK
  <1>3. closed => current \notin Generations
    BY DEF ClosedIsStopped, Generations, Stopped
  <1>4. FreshIsUnused'
    BY DEF DeadlineInv, FreshIsUnused, TypeOK, StateTypeOK, Generations
  <1>5. GenerationsSuffice'
    BY DEF DeadlineInv, GenerationsSuffice
  <1>6. ExpiredForCause'
    BY <1>1, <1>3 DEF DeadlineInv, ExpiredForCause
  <1>7. TimerInForce'
    BY <1>1, <1>3 DEF DeadlineInv, TimerInForce, TypeOK, StateTypeOK
  <1>8. CallbackInForce'
    BY DEF DeadlineInv, CallbackInForce
  <1>9. ClosedIsStopped' /\ ChargeInv'
    BY DEF ClosedIsStopped, ChargeInv
  <1>10. SleepersListen' /\ TokenOrTaker'
    BY DEF SleepersListen, TokenOrTaker, Waiting
  <1> QED
    BY <1>2, <1>4, <1>5, <1>6, <1>7, <1>8, <1>9, <1>10 DEF DeadlineInv

\* closeFromStack preserves the inductive invariant.
LEMMA CloseFromStackPreserves ==
    ASSUME IndInv, CloseFromStack
    PROVE  IndInv'
  <1> USE BoundAssumption DEF IndInv, CloseFromStack, callVars
  <1>1. TypeOK'
    <2>1. FlagsTypeOK'
      BY DEF TypeOK, FlagsTypeOK
    <2>2. timer' \in [Generations -> {"none", "armed", "fired"}]
      BY DEF TypeOK, StateTypeOK
    <2>3. StateTypeOK'
      BY <2>2 DEF TypeOK, StateTypeOK
    <2> QED
      BY <2>1, <2>3 DEF TypeOK
  <1>2. \A g \in Generations : timer'[g] = "none"
    BY DEF TypeOK, StateTypeOK, HasTimer, DeadlineInv, TimerInForce
  <1>3. Stopped \notin Generations /\ Stopped # NoState
    BY DEF Generations, Stopped, NoState
  <1>4. FreshIsUnused'
    BY <1>2, <1>3 DEF DeadlineInv, FreshIsUnused, TypeOK, StateTypeOK
  <1>5. GenerationsSuffice'
    BY <1>3 DEF DeadlineInv, GenerationsSuffice, TypeOK, StateTypeOK
  <1>6. TimerInForce'
    BY <1>2 DEF TimerInForce
  <1>7. CallbackInForce' /\ ExpiredForCause'
    BY <1>3 DEF DeadlineInv, CallbackInForce, ExpiredForCause, TypeOK, StateTypeOK
  <1>8. ClosedIsStopped' /\ ChargeInv'
    BY DEF ClosedIsStopped, ChargeInv
  <1>9. SleepersListen' /\ TokenOrTaker'
    BY DEF SleepersListen, TokenOrTaker, Waiting
  <1> QED
    BY <1>1, <1>4, <1>5, <1>6, <1>7, <1>8, <1>9 DEF DeadlineInv
-----------------------------------------------------------------------------
(* The theorems. *)

\* The initial states satisfy the inductive invariant.
LEMMA InitEstablishes == Init => IndInv
  <1> SUFFICES ASSUME Init
               PROVE  IndInv
    OBVIOUS
  <1> USE BoundAssumption DEF Init
  <1>1. receiveCapacity \in Capacities
    <2>1. \E c \in Capacities : \A d \in Capacities : d <= c
      BY SomeCapacity
    <2> QED
      BY <2>1
  <1>2. TypeOK
    <2>1. FlagsTypeOK
      BY DEF FlagsTypeOK
    <2>2. StateTypeOK
      BY <1>1 DEF StateTypeOK, Idle, NoState, Generations
    <2> QED
      BY <2>1, <2>2 DEF TypeOK
  <1>3. DeadlineInv
    BY DEF DeadlineInv, FreshIsUnused, GenerationsSuffice, TimerInForce, CallbackInForce, ExpiredForCause,
       NoState, Generations
  <1>4. ClosedIsStopped /\ ChargeInv
    BY DEF ClosedIsStopped, ChargeInv, NoState, Stopped
  <1>5. SleepersListen /\ TokenOrTaker
    BY DEF SleepersListen, TokenOrTaker, Waiting, Idle
  <1> QED
    BY <1>2, <1>3, <1>4, <1>5 DEF IndInv

\* Every step of the socket preserves the inductive invariant.
LEMMA StepPreserves == IndInv /\ [Next]_vars => IndInv'
  <1> SUFFICES ASSUME IndInv, [Next]_vars
               PROVE  IndInv'
    OBVIOUS
  <1>1. CASE DeliverLookup \/ Enqueue \/ EnqueueFiltered \/ AcceptsError
    BY <1>1, DeliverLookupPreserves, EnqueuePreserves, EnqueueFilteredPreserves, AcceptsErrorPreserves
  <1>2. CASE \E hard, ignored \in BOOLEAN : DeliverError(hard, ignored)
    BY <1>2, DeliverErrorPreserves
  <1>3. ASSUME NEW r \in Readers, ReadStep(r)
        PROVE  IndInv'
    BY <1>3, ReadRefusedPreserves, ReadPendingErrorPreserves, ReadWaitsPreserves, ReadDatagramPreserves,
       WakeNotifiedPreserves, WakeTimeoutPreserves, WakeClosedPreserves DEF ReadStep
  <1>4. CASE ReadError \/ PrepareWrite \/ RememberTarget
    BY <1>4, ReadErrorPreserves, PrepareWritePreserves, RememberTargetPreserves
  <1>5. CASE \E bytes \in Capacities : SetReadBuffer(bytes)
    BY <1>5, SetReadBufferPreserves
  <1>6. CASE \E enabled \in BOOLEAN : SetReceiveErrors(enabled)
    BY <1>6, SetReceiveErrorsPreserves
  <1>7. CASE \E consumes \in BOOLEAN : WriteOptions(consumes)
    BY <1>7, WriteOptionsPreserves
  <1>8. CASE \E deadline \in {"none", "past", "future"} : SetBegins(deadline)
    BY <1>8, SetBeginsPreserves
  <1>9. CASE SetApplies \/ Unregister \/ CloseFromStack
    BY <1>9, SetAppliesPreserves, UnregisterPreserves, CloseFromStackPreserves
  <1>10. CASE \E g \in Generations : TimerFires(g) \/ CallbackRuns(g)
    BY <1>10, TimerFiresPreserves, CallbackRunsPreserves
  <1>11. CASE UNCHANGED vars
    <2>1. UNCHANGED <<socketVars, queueVars, errorVars, notifyVars, mu, reader, deadlineVars, callVars>>
      BY <1>11 DEF vars
    <2> USE <2>1 DEF IndInv, socketVars, queueVars, errorVars, notifyVars, deadlineVars, callVars
    <2>2. TypeOK'
      BY DEF TypeOK, FlagsTypeOK, StateTypeOK
    <2>3. DeadlineInv'
      BY BoundAssumption, DeadlineFrame DEF TypeOK, StateTypeOK
    <2>4. ClosedIsStopped' /\ ChargeInv' /\ SleepersListen' /\ TokenOrTaker'
      BY SleepersFrame, NothingReadable DEF ClosedIsStopped, ChargeInv
    <2> QED
      BY <2>2, <2>3, <2>4
  <1> QED
    BY <1>1, <1>2, <1>3, <1>4, <1>5, <1>6, <1>7, <1>8, <1>9, <1>10, <1>11 DEF Next

\* The inductive invariant holds in every state a socket reaches.
THEOREM SocketInvariant == Spec => []IndInv
  BY InitEstablishes, StepPreserves, PTL DEF Spec

\* No read sleeps beside a datagram or a pending error that nobody is on the way
\* to take (receiveNotify, notifyReceiveLocked, readDatagram).
THEOREM ReadersAreNotStranded == Spec => []NoStrandedReader
  <1>1. IndInv => NoStrandedReader
    BY DEF IndInv, TokenOrTaker, NoStrandedReader
  <1> QED
    BY <1>1, SocketInvariant, PTL

\* A read deadline is the one set last: no timer or callback of an earlier
\* setting can expire a later one, and no channel is closed twice
\* (datagramSocketDeadline).
THEOREM DeadlinesAreTheLatest == Spec => []DeadlineIsTheLatest
  <1>1. IndInv => DeadlineIsTheLatest
    <2> SUFFICES ASSUME IndInv
                 PROVE  DeadlineIsTheLatest
      OBVIOUS
    <2>1. current \in done => setting = "past" \/ (setting = "future" /\ due)
      BY DEF IndInv, DeadlineInv, ExpiredForCause
    <2>2. callbacks \cap done = {}
      BY DEF IndInv, DeadlineInv, CallbackInForce
    <2>3. ~closed => \A g \in callbacks : g = current /\ setting = "future"
      BY DEF IndInv, DeadlineInv, CallbackInForce, TimerInForce, TypeOK, StateTypeOK
    <2>4. \A r \in Readers :
             Waiting(r) /\ ~closed => reader[r].generation = current \/ reader[r].generation \in done
      BY DEF IndInv, SleepersListen
    <2> QED
      BY <2>1, <2>2, <2>3, <2>4 DEF DeadlineIsTheLatest
  <1> QED
    BY <1>1, SocketInvariant, PTL

\* The receive buffer is charged for exactly what it holds, and a closed socket
\* holds nothing (receive queue, datagramSocketErrorState, closeFromStack).
THEOREM ChargesAreHeld == Spec => []ChargedIsHeld
  <1>1. IndInv => ChargedIsHeld
    BY BoundAssumption DEF IndInv, ChargeInv, ChargedIsHeld, DeadlineInv, TimerInForce, ClosedIsStopped,
       Generations, Stopped
  <1> QED
    BY <1>1, SocketInvariant, PTL

=============================================================================
