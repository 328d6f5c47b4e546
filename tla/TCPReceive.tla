---------------------------- MODULE TCPReceive ----------------------------
(***************************************************************************)
(* The receive half of one established TCP connection (tcp.go): admission  *)
(* by the advertised window, overlap-aware reassembly, the bounded read    *)
(* buffer, and the receive-window advertisement, run by the connection     *)
(* actor while the application reads, half-closes, closes and resizes.     *)
(*                                                                         *)
(* Sequence numbers are wire values: they wrap modulo SeqMod, and every    *)
(* comparison is the source's signed difference.  Byte i of the peer's     *)
(* stream is the number i, so what is delivered can be compared with what  *)
(* was sent.  The actor takes the socket lock once per step of this model: *)
(* an application call may fall between any two of them.                   *)
(***************************************************************************)
EXTENDS Integers, Sequences, FiniteSets, FiniteSetsExt

CONSTANTS
    SeqMod,           \* size of the sequence space (2^32 in the code)
    ISN,              \* wire sequence number of byte 0 of the peer's stream
    StreamLen,        \* bound: number of bytes in the peer's stream
    FinPositions,     \* stream positions at which the peer may place a FIN
    MaxPayload,       \* bound: longest payload of one segment
    MaxOutOfOrder,    \* tcpMaximumOutOfOrder
    MaxWireWindow,    \* 65535 in the code
    Shift,            \* the receive window scale of this connection
    ReceiveMSS,       \* state.receiveMSS, constant here
    InitialCapacity,  \* c.receiveCapacity when the connection is established
    MaxCapacity,      \* c.receiveMaximum, the automatic tuning ceiling
    ReadBufferSizes,  \* capacities the application may set
    LingerZero        \* choices of SetLinger(0) at Close, a set of Booleans

ASSUME SequenceSpace == /\ SeqMod \in Nat /\ SeqMod >= 2 /\ SeqMod % 2 = 0
                        /\ ISN \in 0 .. (SeqMod - 1)
ASSUME Stream == /\ StreamLen \in Nat /\ FinPositions \subseteq 0 .. StreamLen
                 /\ MaxPayload \in Nat /\ MaxOutOfOrder \in Nat
ASSUME Capacities == /\ MaxCapacity \in Nat /\ InitialCapacity \in 1 .. MaxCapacity
                     /\ ReadBufferSizes \subseteq 1 .. MaxCapacity
                     /\ MaxWireWindow \in Nat /\ Shift \in Nat /\ ReceiveMSS \in Nat

VARIABLES
    receiveNext,      \* RCV.NXT
    outOfOrder,       \* the held out-of-order bytes, by wire sequence number
    pieceStarts,      \* the first sequence number of every held piece
    finSeq,           \* sequence number of a held FIN, or NoFin
    remoteFINReceived,
    unread,           \* c.outOfOrderUnread, the count Close consults
    right,            \* furthest sequence number promised to the peer
    quantumReserve,   \* storage promised beyond the capacity
    lastAdvertisedWindow,
    ackPending,
    readBuffer,       \* bytes in order, not yet read
    consumed,         \* history: the bytes the application has read
    capacity, receiveAutoTune, readClosed, userClosed,
    readErr,          \* what Read reports once the buffer is empty
    aborted,          \* abortCh is closed
    terminated,       \* the actor has returned
    discarded,        \* history: a byte was acknowledged and dropped after Close
    wakeWindow,       \* tcpActorWakeWindow is set
    pc, job           \* the actor's place in a handler, and its locals

asmVars  == <<receiveNext, outOfOrder, pieceStarts, finSeq>>
winVars  == <<right, quantumReserve, lastAdvertisedWindow>>
bufVars  == <<readBuffer, consumed, discarded>>
sockVars == <<capacity, receiveAutoTune, readClosed, userClosed, aborted>>
vars == <<asmVars, remoteFINReceived, unread, winVars, ackPending, bufVars,
          sockVars, readErr, terminated, wakeWindow, pc, job>>

NoFin == -1
NoJob == [kind |-> "none"]
-----------------------------------------------------------------------------
(* Wire arithmetic. *)

SeqAdd(a, n) == (a + n) % SeqMod
SeqSub(a, b) == (a - b) % SeqMod
SeqLess(a, b) == SeqSub(a, b) >= SeqMod \div 2
SeqGreater(a, b) == SeqLess(b, a)

MaxOf(a, b) == IF a >= b THEN a ELSE b
MinOf(a, b) == IF a <= b THEN a ELSE b
Quantum == 2 ^ Shift

\* The largest window the buffer and the window field admit.
MaxWindow == MinOf(MaxCapacity, MaxWireWindow * Quantum)

\* The stream and a window, the one scale quantum of a reopening included,
\* never span half of the sequence space.
ASSUME WindowFits == /\ Quantum \in Nat \ {0}
                     /\ 2 * (StreamLen + 2 + MaxWindow + Quantum) < SeqMod

(* The peer: any range of its stream, in any order, as often as it likes. *)
Segments ==
    {[seq |-> SeqAdd(ISN, r[1]), data |-> [i \in 1 .. r[2] |-> r[1] + i - 1], fin |-> f] :
        r \in {p \in (0 .. StreamLen) \X (0 .. MaxPayload) : p[1] + p[2] <= StreamLen},
        f \in BOOLEAN}
PeerSegments ==
    {s \in Segments :
        LET end == SeqSub(SeqAdd(s.seq, Len(s.data)), ISN)
        IN  IF s.fin THEN end \in FinPositions ELSE s.data # <<>>}

(* tcpSegmentAcceptable; the established state passes the payload length. *)
SegmentAcceptable(seq, length, win) ==
    IF win = 0
    THEN length = 0 /\ seq = receiveNext
    ELSE \/ SeqSub(seq, receiveNext) < win
         \/ length # 0 /\ SeqSub(SeqAdd(seq, length - 1), receiveNext) < win
-----------------------------------------------------------------------------
(* Storage and the advertised window. *)

Discarding == readClosed \/ userClosed
HeldBytes == Cardinality(DOMAIN outOfOrder)
HoldsPieces == pieceStarts # {} \/ finSeq # NoFin

\* Mutant: receiveSpace forgets the bytes the application has not read.
AvailableIgnoringUnread == capacity - HeldBytes

\* receiveSpace
Available == capacity - (IF Discarding THEN 0 ELSE Len(readBuffer)) - HeldBytes

\* appendReadBuffer: how many of n bytes fit beside `others` held bytes
Accepted(n, others) ==
    IF Discarding
    THEN n
    ELSE MinOf(n, MaxOf(0, capacity - Len(readBuffer) - others + quantumReserve))

\* tcpReceiveWindow.size
WindowSize == IF SeqLess(right, receiveNext) THEN 0 ELSE SeqSub(right, receiveNext)

\* tcpReceiveWindowIncrease
MinimumIncrease ==
    LET half == (capacity + 1) \div 2
    IN  IF ReceiveMSS > 0 THEN MinOf(half, ReceiveMSS) ELSE half

\* tcpReceiveWindow.next: the window, right edge and reserve a segment
\* published now would carry
NextWindow ==
    LET avail == MinOf(MaxOf(0, Available), MaxWireWindow * Quantum)
        desired == SeqAdd(receiveNext, (avail \div Quantum) * Quantum)
        grows == /\ SeqGreater(desired, right)
                 /\ SeqSub(desired, right) >= MinimumIncrease
        edge == IF grows THEN desired ELSE right
        promised == IF SeqLess(edge, receiveNext) THEN 0 ELSE SeqSub(edge, receiveNext)
        reopened == SeqAdd(receiveNext, Quantum)
        reopens == /\ Shift # 0 /\ MinimumIncrease > 0 /\ avail >= MinimumIncrease
                   /\ promised < Quantum
                   /\ SeqGreater(reopened, edge)
        newRight == IF reopens THEN reopened ELSE edge
        reserve == IF reopens THEN MaxOf(0, Quantum - avail)
                   ELSE IF grows THEN 0 ELSE quantumReserve
    IN  IF SeqLess(newRight, receiveNext)
        THEN [window |-> 0, right |-> newRight, reserve |-> 0]
        ELSE [window |-> SeqSub(newRight, receiveNext) \div Quantum,
              right |-> newRight,
              reserve |-> IF newRight = receiveNext THEN 0 ELSE reserve]

\* Mutant: the advertised window follows the free space.
CommitWindowShrinking ==
    /\ right' = SeqAdd(receiveNext, MaxOf(0, Available))
    /\ quantumReserve' = 0
    /\ lastAdvertisedWindow' = MaxOf(0, Available) \div Quantum

\* commitAcknowledgment: the edge is committed only with a published segment
CommitWindow ==
    /\ right' = NextWindow.right
    /\ quantumReserve' = NextWindow.reserve
    /\ lastAdvertisedWindow' = NextWindow.window
-----------------------------------------------------------------------------
(* Reassembly. *)

\* One past the last byte of the piece that starts at s.
PieceEnd(s) ==
    LET inside(n) == \A k \in 1 .. (n - 1) :
                        LET q == SeqAdd(s, k)
                        IN  q \in DOMAIN outOfOrder /\ q \notin pieceStarts
    IN  SeqAdd(s, Max({n \in 1 .. HeldBytes : inside(n)}))

FirstPiece ==
    CHOOSE s \in pieceStarts :
        \A t \in pieceStarts : SeqSub(s, receiveNext) <= SeqSub(t, receiveNext)

Bytes(s, n) == [i \in 1 .. n |-> outOfOrder[SeqAdd(s, i - 1)]]

Restricted(dom) == [q \in dom |-> outOfOrder[q]]

\* What receiveTCPData keeps of a segment after dropping what is already
\* below RCV.NXT.
Trimmed(s) ==
    LET skip == SeqSub(receiveNext, s.seq)
        end == SeqAdd(s.seq, Len(s.data))
    IN  IF ~SeqLess(s.seq, receiveNext) THEN s
        ELSE IF skip < Len(s.data)
        THEN [seq |-> receiveNext, data |-> SubSeq(s.data, skip + 1, Len(s.data)), fin |-> s.fin]
        ELSE [seq |-> receiveNext, data |-> <<>>, fin |-> s.fin /\ end = receiveNext]

\* How many payload bytes of s lie inside the window captured at admission.
BytesInWindow(s, win) == MinOf(Len(s.data), MaxOf(0, win - SeqSub(s.seq, receiveNext)))

\* storeTCPOutOfOrder with normalizeTCPReceivedPieces: the scoreboard after
\* the uncovered bytes of s inside the window are added and everything at or
\* after the earliest FIN is dropped.
Stored(s, win) ==
    LET distance == SeqSub(s.seq, receiveNext)
        finEnd == SeqAdd(s.seq, Len(s.data))
        room == BytesInWindow(s, win)
        size == IF finSeq = NoFin \/ ~SeqGreater(SeqAdd(s.seq, room), finSeq) THEN room
                ELSE IF SeqLess(s.seq, finSeq) THEN SeqSub(finSeq, s.seq) ELSE 0
        fin == /\ s.fin
               /\ (distance = 0 /\ room = 0) \/ (distance + Len(s.data) < win)
               /\ finSeq # NoFin => ~SeqGreater(finEnd, finSeq)
        newFin == IF fin THEN finEnd ELSE finSeq
        byteAt(q) == s.data[SeqSub(q, s.seq) + 1]
        new == {SeqAdd(s.seq, i) : i \in 0 .. (size - 1)} \ DOMAIN outOfOrder
        starts == {q \in new : q = s.seq \/ SeqSub(q, 1) \in DOMAIN outOfOrder}
        dom == {q \in DOMAIN outOfOrder \cup new :
                    newFin = NoFin \/ SeqSub(q, receiveNext) < SeqSub(newFin, receiveNext)}
        pieces == (pieceStarts \cup starts) \cap dom
        loneFin == newFin # NoFin /\ SeqSub(newFin, 1) \notin dom
    IN  [inWindow |-> (distance < win) \/ (distance = 0 /\ s.data = <<>> /\ s.fin),
         fits |-> /\ Cardinality(dom) <= HeldBytes + MaxOf(0, Available + quantumReserve)
                  /\ Cardinality(pieces) + (IF loneFin THEN 1 ELSE 0) <= MaxOutOfOrder,
         progress |-> new # {} \/ fin,
         held |-> [q \in dom |-> IF q \in DOMAIN outOfOrder THEN outOfOrder[q] ELSE byteAt(q)],
         starts |-> pieces,
         finSeq |-> newFin]
-----------------------------------------------------------------------------
\* An opener whose capacity is below one scale quantum has advertised a zero
\* window; the established state then schedules an ACK that opens it.
Init ==
    /\ receiveNext = ISN
    /\ outOfOrder = <<>> /\ pieceStarts = {} /\ finSeq = NoFin
    /\ remoteFINReceived = FALSE /\ unread = 0
    /\ capacity = InitialCapacity /\ receiveAutoTune = TRUE
    /\ \E scaled \in BOOLEAN :   \* an active opener's final ACK is scaled, a SYN-ACK is not
        LET wire == IF scaled THEN MinOf(InitialCapacity \div Quantum, MaxWireWindow)
                    ELSE MinOf(InitialCapacity, MaxWireWindow)
        IN  /\ lastAdvertisedWindow = wire
            /\ right = SeqAdd(ISN, IF scaled THEN wire * Quantum ELSE wire)
    /\ quantumReserve = 0
    /\ readBuffer = <<>> /\ consumed = <<>> /\ discarded = FALSE
    /\ readClosed = FALSE /\ userClosed = FALSE /\ readErr = "none"
    /\ aborted = FALSE /\ terminated = FALSE
    /\ wakeWindow = FALSE /\ pc = "idle" /\ job = NoJob
    /\ ackPending = (NextWindow.window > lastAdvertisedWindow)

\* The bytes appendReadBuffer takes from a payload, at RCV.NXT.
AppendReadBuffer(bytes, accepted) ==
    /\ readBuffer' = IF Discarding THEN readBuffer
                     ELSE readBuffer \o SubSeq(bytes, 1, accepted)
    /\ discarded' = (discarded \/ (userClosed /\ accepted > 0))
    /\ UNCHANGED consumed

\* The established loop admits a segment: the window is captured here and
\* used after ACK processing may already have published a newer one.
AdmitSegment(s) ==
    /\ pc = "idle" /\ ~terminated
    /\ SegmentAcceptable(s.seq, Len(s.data), WindowSize)
    /\ pc' = "receive"
    /\ job' = [kind |-> "segment", seg |-> s, win |-> WindowSize, closed |-> FALSE,
               new |-> s.data # <<>> /\ SeqGreater(SeqAdd(s.seq, Len(s.data)), receiveNext)]
    /\ UNCHANGED <<asmVars, remoteFINReceived, unread, winVars, ackPending, bufVars,
                   sockVars, readErr, terminated, wakeWindow>>

\* An unacceptable segment changes nothing but may elicit a keepalive answer
\* or a rate-limited challenge ACK, which commits the window it carries.
RejectSegment(s) ==
    /\ pc = "idle" /\ ~terminated
    /\ ~SegmentAcceptable(s.seq, Len(s.data), WindowSize)
    /\ CommitWindow
    /\ ackPending' = FALSE
    /\ UNCHANGED <<asmVars, remoteFINReceived, unread, bufVars, sockVars, readErr,
                   terminated, wakeWindow, pc, job>>

\* Mutant: a FIN is consumed although its payload was only partly accepted.
InOrderFINEarly(s, n, win) == s.fin

\* FIN consumes a sequence number after its whole payload; it stores no byte,
\* so alone it is accepted at a zero window.
InOrderFIN(s, n, win) ==
    s.fin /\ n = Len(s.data) /\ (s.data = <<>> \/ Len(s.data) < win)

\* receiveTCPData on an empty scoreboard: the payload is clipped to the
\* captured window and goes straight to the read buffer.
ReceiveInOrder ==
    LET s == Trimmed(job.seg)
        bytes == SubSeq(s.data, 1, MinOf(Len(s.data), job.win))
        n == Accepted(Len(bytes), 0)
        closed == InOrderFIN(s, n, job.win)
    IN  /\ pc = "receive" /\ ~remoteFINReceived
        /\ s.seq = receiveNext /\ ~HoldsPieces
        /\ AppendReadBuffer(bytes, n)
        /\ receiveNext' = SeqAdd(receiveNext, n + (IF closed THEN 1 ELSE 0))
        /\ unread' = 0
        /\ job' = [job EXCEPT !.closed = closed]
        /\ pc' = "finish"
        /\ UNCHANGED <<outOfOrder, pieceStarts, finSeq, remoteFINReceived, winVars,
                       ackPending, sockVars, readErr, terminated, wakeWindow>>

\* receiveTCPData through the scoreboard: store what fits, then promote.
ReceiveOutOfOrder ==
    LET s == Trimmed(job.seg)
        r == Stored(s, job.win)
        keep == r.inWindow /\ r.fits
    IN  /\ pc = "receive" /\ ~remoteFINReceived
        /\ s.seq # receiveNext \/ HoldsPieces
        /\ IF keep
           THEN outOfOrder' = r.held /\ pieceStarts' = r.starts /\ finSeq' = r.finSeq
           ELSE UNCHANGED <<outOfOrder, pieceStarts, finSeq>>
        /\ pc' = IF ~(keep /\ r.progress) /\ SeqGreater(s.seq, receiveNext) THEN "finish"
                 ELSE IF keep THEN "publish" ELSE "promote"
        /\ UNCHANGED <<receiveNext, remoteFINReceived, unread, winVars, ackPending, bufVars,
                       sockVars, readErr, terminated, wakeWindow, job>>

\* storeTCPOutOfOrder ends by publishing the held byte count that Close reads
\* without the actor's cooperation.
PublishUnread ==
    /\ pc = "publish"
    /\ unread' = HeldBytes
    /\ pc' = "promote"
    /\ UNCHANGED <<asmVars, remoteFINReceived, winVars, ackPending, bufVars, sockVars,
                   readErr, terminated, wakeWindow, job>>

PromoteExit == IF job.kind = "wake" THEN "wakefinish" ELSE "finish"

\* One turn of the promoteTCPReceived loop: the first piece has reached
\* RCV.NXT.  The lock is released between turns, and the count Close reads
\* stays at its old value until the loop ends.
PromotePiece ==
    /\ pc = "promote" /\ pieceStarts # {} /\ FirstPiece = receiveNext
    /\ LET s == FirstPiece
           end == PieceEnd(s)
           size == SeqSub(end, s)
           n == Accepted(size, HeldBytes - size)
           fin == n = size /\ finSeq = end
           rest == SeqAdd(s, n)
           moved == {SeqAdd(s, i) : i \in 0 .. (n - 1)}
       IN  /\ AppendReadBuffer(Bytes(s, size), n)
           /\ receiveNext' = SeqAdd(rest, IF fin THEN 1 ELSE 0)
           /\ outOfOrder' = IF fin THEN <<>> ELSE Restricted(DOMAIN outOfOrder \ moved)
           /\ pieceStarts' = IF fin THEN {}
                             ELSE (pieceStarts \ {s}) \cup (IF n < size THEN {rest} ELSE {})
           /\ finSeq' = IF fin THEN NoFin ELSE finSeq
           /\ job' = [job EXCEPT !.closed = fin]
           /\ pc' = IF n < size \/ fin THEN "promoted" ELSE "promote"
    /\ UNCHANGED <<remoteFINReceived, unread, winVars, ackPending, sockVars, readErr,
                   terminated, wakeWindow>>

\* A held FIN with no data before it has reached RCV.NXT.
PromoteFin ==
    /\ pc = "promote" /\ pieceStarts = {} /\ finSeq = receiveNext
    /\ receiveNext' = SeqAdd(receiveNext, 1)
    /\ finSeq' = NoFin
    /\ job' = [job EXCEPT !.closed = TRUE]
    /\ pc' = "promoted"
    /\ UNCHANGED <<outOfOrder, pieceStarts, remoteFINReceived, unread, winVars, ackPending, bufVars,
                   sockVars, readErr, terminated, wakeWindow>>

\* The loop has ended, at a piece taken in part, at the FIN or because nothing
\* held has reached RCV.NXT: the held byte count is published.
PromoteEnd ==
    /\ \/ pc = "promoted"
       \/ /\ pc = "promote"
          /\ IF pieceStarts # {} THEN SeqGreater(FirstPiece, receiveNext)
             ELSE finSeq # NoFin => SeqGreater(finSeq, receiveNext)
    /\ unread' = HeldBytes
    /\ pc' = PromoteExit
    /\ UNCHANGED <<asmVars, remoteFINReceived, winVars, ackPending, bufVars, sockVars,
                   readErr, terminated, wakeWindow, job>>

\* finish: the actor has returned.  A local abort drops received data; after
\* any other end the application may still read what was acknowledged.
Finish ==
    /\ terminated' = TRUE
    /\ pc' = "idle" /\ job' = NoJob
    /\ IF aborted
       THEN readBuffer' = <<>> /\ unread' = 0 /\ readErr' = "failed"
       ELSE /\ readErr' = IF readErr = "none" THEN "failed" ELSE readErr
            /\ UNCHANGED <<readBuffer, unread>>

\* applicationReceiveClosed, for a segment with payload beyond RCV.NXT
NewDataAfterClose == job.new /\ userClosed

\* The rest of the established data path: EOF is published and an ACK is
\* scheduled.
FinishSegment ==
    /\ \/ pc = "finish"
       \/ pc = "receive" /\ remoteFINReceived
    /\ ~NewDataAfterClose
    /\ remoteFINReceived' = (remoteFINReceived \/ job.closed)
    /\ readErr' = IF job.closed /\ readErr = "none" THEN "eof" ELSE readErr
    /\ ackPending' = TRUE
    /\ pc' = "idle" /\ job' = NoJob
    /\ UNCHANGED <<asmVars, unread, winVars, bufVars, sockVars, terminated, wakeWindow>>

\* New data that arrives after a full Close resets the connection.
ResetAfterClose ==
    /\ \/ pc = "finish"
       \/ pc = "receive" /\ remoteFINReceived
    /\ NewDataAfterClose
    /\ remoteFINReceived' = (remoteFINReceived \/ job.closed)
    /\ Finish
    /\ UNCHANGED <<asmVars, winVars, ackPending, consumed, discarded, sockVars, wakeWindow>>
-----------------------------------------------------------------------------
(* The actor's wake after application progress. *)

\* growReceiveCapacity: one observation at most doubles the bound
GrowTo(target) ==
    IF receiveAutoTune /\ target > capacity
    THEN MinOf(MinOf(target, 2 * capacity), MaxCapacity)
    ELSE capacity

TakeWake ==
    /\ pc = "idle" /\ ~terminated /\ wakeWindow
    /\ wakeWindow' = FALSE
    /\ \E target \in 0 .. MaxCapacity : capacity' = GrowTo(target)
    /\ job' = [kind |-> "wake", prev |-> receiveNext, closed |-> FALSE]
    /\ IF Discarding
       THEN /\ outOfOrder' = <<>> /\ pieceStarts' = {} /\ finSeq' = NoFin
            /\ unread' = 0
            /\ pc' = "wakefinish"
       ELSE /\ UNCHANGED <<outOfOrder, pieceStarts, finSeq, unread>>
            /\ pc' = IF HoldsPieces THEN "promote" ELSE "wakefinish"
    /\ UNCHANGED <<receiveNext, remoteFINReceived, winVars, ackPending, bufVars,
                   receiveAutoTune, readClosed, userClosed, aborted, readErr, terminated>>

\* Mutant: only delivered bytes are worth an ACK.
WakeNeedsACKForData == receiveNext # job.prev

\* Progress, or a window larger than the last one advertised, needs an ACK.
WakeNeedsACK == receiveNext # job.prev \/ NextWindow.window > lastAdvertisedWindow

FinishWake ==
    /\ pc = "wakefinish"
    /\ remoteFINReceived' = (remoteFINReceived \/ job.closed)
    /\ readErr' = IF job.closed /\ readErr = "none" THEN "eof" ELSE readErr
    /\ ackPending' = (ackPending \/ WakeNeedsACK)
    /\ pc' = "idle" /\ job' = NoJob
    /\ UNCHANGED <<asmVars, unread, winVars, bufVars, sockVars, terminated, wakeWindow>>

\* flushACK, immediately or when the delayed-ACK timer fires and the output
\* queue has a slot.
FlushACK ==
    /\ pc = "idle" /\ ~terminated /\ ackPending
    /\ CommitWindow
    /\ ackPending' = FALSE
    /\ UNCHANGED <<asmVars, remoteFINReceived, unread, bufVars, sockVars, readErr,
                   terminated, wakeWindow, pc, job>>

\* Any other published segment carries the current ACK and window.  It may
\* be sent between the admission of a segment and the use of its payload, and
\* without room for a SACK option leaves a selective ACK pending.
SendSegment ==
    /\ pc \in {"idle", "receive"} /\ ~terminated
    /\ CommitWindow
    /\ ackPending' \in {FALSE, ackPending}
    /\ UNCHANGED <<asmVars, remoteFINReceived, unread, bufVars, sockVars, readErr,
                   terminated, wakeWindow, pc, job>>

\* The actor's select observes abortCh, or it returns because of an accepted
\* RST, a timeout, or the end of the closing handshake.
Terminate ==
    /\ pc = "idle" /\ ~terminated
    /\ Finish
    /\ UNCHANGED <<asmVars, remoteFINReceived, winVars, ackPending, consumed, discarded,
                   sockVars, wakeWindow>>
-----------------------------------------------------------------------------
(* Application calls.  Each holds the socket lock; the wake follows it. *)

Read(n) ==
    /\ ~Discarding
    /\ n \in 1 .. Len(readBuffer)
    /\ consumed' = consumed \o SubSeq(readBuffer, 1, n)
    /\ readBuffer' = SubSeq(readBuffer, n + 1, Len(readBuffer))
    /\ wakeWindow' = TRUE
    /\ UNCHANGED <<asmVars, remoteFINReceived, unread, winVars, ackPending, discarded,
                   sockVars, readErr, terminated, pc, job>>

CloseRead ==
    /\ ~userClosed /\ ~terminated
    /\ readClosed' = TRUE
    /\ IF readClosed THEN UNCHANGED <<readBuffer, readErr>>
       ELSE readBuffer' = <<>> /\ readErr' = "closed"
    /\ wakeWindow' = TRUE
    /\ UNCHANGED <<asmVars, remoteFINReceived, unread, winVars, ackPending, consumed,
                   discarded, capacity, receiveAutoTune, userClosed, aborted,
                   terminated, pc, job>>

\* Close resets the connection when linger is zero or data is still unread.
CloseIsAbortive(lingerZero) == lingerZero \/ readBuffer # <<>> \/ unread # 0

Close(lingerZero) ==
    /\ ~userClosed
    /\ userClosed' = TRUE
    /\ aborted' = (aborted \/ CloseIsAbortive(lingerZero))
    /\ readBuffer' = <<>> /\ readErr' = "closed"
    /\ UNCHANGED <<asmVars, remoteFINReceived, unread, winVars, ackPending, consumed,
                   discarded, capacity, receiveAutoTune, readClosed, terminated,
                   wakeWindow, pc, job>>

SetReadBuffer(bytes) ==
    /\ ~userClosed /\ ~terminated
    /\ capacity' = bytes
    /\ receiveAutoTune' = FALSE
    /\ wakeWindow' = TRUE
    /\ UNCHANGED <<asmVars, remoteFINReceived, unread, winVars, ackPending, bufVars,
                   readClosed, userClosed, aborted, readErr, terminated, pc, job>>
-----------------------------------------------------------------------------
Network == \E s \in PeerSegments : AdmitSegment(s) \/ RejectSegment(s)
Handler == \/ ReceiveInOrder \/ ReceiveOutOfOrder \/ PublishUnread
           \/ PromotePiece \/ PromoteFin \/ PromoteEnd \/ FinishSegment
           \/ ResetAfterClose \/ TakeWake \/ FinishWake
Application == \/ \E n \in 1 .. StreamLen : Read(n)
               \/ CloseRead
               \/ \E l \in LingerZero : Close(l)
               \/ \E b \in ReadBufferSizes : SetReadBuffer(b)

Next == Network \/ Handler \/ FlushACK \/ SendSegment \/ Terminate \/ Application

Spec == Init /\ [][Next]_vars
-----------------------------------------------------------------------------
(* Properties. *)

SeqNums == 0 .. (SeqMod - 1)
Streams == Seq(0 .. StreamLen)

\* Every variable has its type: sequence numbers stay within their width, and
\* the reserve below one scale quantum (tcpReceiveWindow.quantumReserve).
TypeOK ==
    /\ receiveNext \in SeqNums /\ right \in SeqNums
    /\ DOMAIN outOfOrder \subseteq SeqNums /\ pieceStarts \subseteq DOMAIN outOfOrder
    /\ finSeq \in SeqNums \cup {NoFin}
    /\ unread \in Nat /\ quantumReserve \in 0 .. (Quantum - 1)
    /\ lastAdvertisedWindow \in 0 .. MaxWireWindow
    /\ readBuffer \in Streams /\ consumed \in Streams
    /\ capacity \in 1 .. MaxCapacity
    /\ remoteFINReceived \in BOOLEAN /\ ackPending \in BOOLEAN
    /\ receiveAutoTune \in BOOLEAN /\ readClosed \in BOOLEAN /\ userClosed \in BOOLEAN
    /\ aborted \in BOOLEAN /\ terminated \in BOOLEAN /\ discarded \in BOOLEAN
    /\ wakeWindow \in BOOLEAN
    /\ readErr \in {"none", "eof", "closed", "failed"}
    /\ pc \in {"idle", "receive", "publish", "promote", "promoted", "finish", "wakefinish"}
    /\ job.kind \in {"none", "segment", "wake"}

Delivered == consumed \o readBuffer
Position(seq) == SeqSub(seq, ISN)

\* What Read has returned and what the buffer still holds is the peer's
\* stream from its first byte, without a gap, a repeat or a swap, and until
\* the application discards input it ends exactly at RCV.NXT
\* (receiveTCPData, promoteTCPReceived, appendReadBuffer).
InOrderDelivery ==
    /\ \A i \in 1 .. Len(Delivered) : Delivered[i] = i - 1
    /\ (~Discarding /\ ~aborted /\ pc = "idle") =>
        Position(receiveNext) = Len(Delivered) + (IF remoteFINReceived THEN 1 ELSE 0)

\* The out-of-order scoreboard holds the peer's bytes at their own sequence
\* numbers, strictly ahead of RCV.NXT unless the read buffer is full, inside
\* the promised right edge, nothing at or beyond a held FIN, and never more
\* pieces than tcpMaximumOutOfOrder (storeTCPOutOfOrder,
\* normalizeTCPReceivedPieces).
ScoreboardSound ==
    /\ \A q \in DOMAIN outOfOrder :
        /\ outOfOrder[q] = Position(q)
        /\ ~SeqLess(q, receiveNext)
        /\ SeqLess(q, right)
        /\ finSeq # NoFin => SeqLess(q, finSeq)
        /\ q \in pieceStarts \/ SeqSub(q, 1) \in DOMAIN outOfOrder
    /\ Cardinality(pieceStarts) <= MaxOutOfOrder
    /\ (pc = "idle" /\ ~Discarding /\ receiveNext \in DOMAIN outOfOrder)
            => (Available + quantumReserve <= 0 \/ wakeWindow \/ aborted)

\* Every byte the peer may still send inside the advertised window has room
\* in the read buffer beside what is already held, counting the one scale
\* quantum a zero-window reopening may overcommit (tcpReceiveWindow.next).
\* An application that resizes the buffer takes the tuning over and with it
\* this promise.
StoragePromise ==
    (pc = "idle" /\ receiveAutoTune /\ ~Discarding /\ ~remoteFINReceived /\ WindowSize > 0) =>
        LET open == {SeqAdd(receiveNext, i) : i \in 0 .. (WindowSize - 1)}
        IN  Len(readBuffer) + Cardinality(open \cup DOMAIN outOfOrder)
                <= capacity + quantumReserve

\* The right edge of the receive window never moves backwards, whatever the
\* application does to the buffer between two advertisements
\* (tcpReceiveWindow: the receiver must not shrink the window).
RightEdgeNeverRetreats == [][~SeqLess(right', right)]_vars

\* Read reports EOF only when the peer's FIN has been reached in sequence:
\* the application then holds every byte before that FIN (setReadEOF).
EOFOnlyAtFIN ==
    readErr = "eof" =>
        /\ remoteFINReceived
        /\ Len(Delivered) \in FinPositions
        /\ Position(receiveNext) = Len(Delivered) + 1

\* A byte that was acknowledged and dropped because the application had
\* closed the connection is never passed over in silence: by the time the
\* actor is back in its loop the connection is being reset
\* (applicationReceiveClosed after receiveTCPData).
NoSilentDiscard == (pc = "idle" /\ discarded) => (aborted \/ terminated)

\* What the application gets is faithful to what the peer sent: the stream in
\* order, EOF at its end only, and no byte acknowledged and then lost in silence.
StreamFaithful == InOrderDelivery /\ EOFOnlyAtFIN /\ NoSilentDiscard

\* What the actor stores is sound: the scoreboard holds the right bytes in the
\* right places, and everything the window promised has room beside them.
StorageSound == ScoreboardSound /\ StoragePromise

\* A Close without linger that finds no unread byte in the read buffer and
\* none in the scoreboard is graceful.
CloseWithoutUnreadDataRemainsGraceful ==
    [][(/\ userClosed' /\ ~Discarding
        /\ readBuffer = <<>> /\ outOfOrder = <<>>) => aborted' = aborted]_vars

(* Liveness.  The actor finishes its handlers, takes a pending wake and       *)
(* flushes a pending ACK once the output queue has a slot; the peer           *)
(* retransmits what is missing; the application reads what is there.          *)

\* The peer has a byte or a FIN for RCV.NXT that the window lets it send.
CanRetransmit ==
    /\ pc = "idle" /\ ~terminated
    /\ \E s \in PeerSegments : s.seq = receiveNext /\ Len(s.data) <= 1
                               /\ (WindowSize > 0 \/ s.data = <<>>)

Retransmission ==
    /\ pc = "idle" /\ pc' = "receive"
    /\ job'.seg.seq = receiveNext /\ Len(job'.seg.data) <= 1

LiveSpec ==
    /\ Spec
    /\ []<>(pc = "idle")
    /\ []<>(~wakeWindow \/ terminated)
    /\ []<>(~ackPending \/ terminated)
    /\ []<>(readBuffer = <<>>)
    /\ []<>CanRetransmit => []<><<Retransmission>>_vars

Over == Discarding \/ terminated

\* The scoreboard has no room for another piece (tcpMaximumOutOfOrder), or its
\* bytes fill a buffer the application made smaller.
ScoreboardFull ==
    \/ Cardinality(pieceStarts)
           + (IF finSeq # NoFin /\ SeqSub(finSeq, 1) \notin DOMAIN outOfOrder THEN 1 ELSE 0)
         >= MaxOutOfOrder
    \/ ~receiveAutoTune /\ HeldBytes >= capacity

\* With a peer that keeps retransmitting and an application that keeps
\* reading, the whole stream and then EOF is delivered unless one side ends
\* the connection: no closed window stays closed, no held byte is stuck and no
\* ACK is forgotten.  The exception is a scoreboard that stays full, which
\* refuses even the segment that would fill the first gap.
StreamCompletes == <>[](readErr = "eof" \/ Over \/ ScoreboardFull)

\* Out-of-order bytes cannot withdraw sequence space already promised to the
\* peer: while the window covers RCV.NXT, the peer's retransmissions of the
\* missing byte or FIN move it.
PromisedSpaceIsNotWithdrawn ==
    \A i \in 0 .. (StreamLen - 1) :
        (receiveNext = SeqAdd(ISN, i) /\ WindowSize > 0)
            ~> (receiveNext # SeqAdd(ISN, i) \/ remoteFINReceived \/ Over)
=============================================================================
