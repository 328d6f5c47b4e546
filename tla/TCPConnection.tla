--------------------------- MODULE TCPConnection ---------------------------
(***************************************************************************)
(* The life of a TCP connection between two hosts that both run this       *)
(* stack, over one address and port pair: active, passive and simultaneous *)
(* open, the established state's treatment of controls, half-close,        *)
(* graceful and abortive close, FIN-WAIT-2 and TIME-WAIT, replacement of a *)
(* TIME-WAIT owner by a new SYN, keepalive, and a host that restarts.      *)
(*                                                                         *)
(* Segments travel in order in each direction, except where the budget     *)
(* MaxFaults lets one be lost, delayed at will or duplicated; a timeout    *)
(* that fires too early, a restart, a permanent outage, and what an        *)
(* application does rudely (cancelling a dial, an abortive close) draw on  *)
(* the same budget.  A host writes at most one byte per connection; TCPSend and  *)
(* TCPReceive carry the streams.  Segments carry no timestamp option (the  *)
(* code accepts its absence throughout): PAWS and the echo tests, which    *)
(* only reject more, and the timestamp half of the TIME-WAIT admission are *)
(* left out.  Windows are open, and output finds a queue slot.             *)
(*                                                                         *)
(* Sequence numbers are naturals that do not wrap; initial ones are Stride *)
(* apart, and wider apart than any window.                                 *)
(***************************************************************************)
EXTENDS Naturals, Sequences, FiniteSets

CONSTANTS A, B,            \* the hosts
          Closed,          \* no entry in Stack.tcp
          Writers,         \* hosts whose application writes
          Listeners,       \* hosts that listen, or else may dial
          HalfClosers,     \* hosts whose application may call CloseWrite
          MaxDials,        \* dials in all
          MaxTalks,        \* dials with such calls; later connections only close
          MaxSYNs,         \* tcpActive-, tcpPassiveSYNMaximumAttempts
          MaxRTOs,         \* tcpMaximumRTOs
          SlowRTOs,        \* RTOs after which the next takes longer than TIME-WAIT
          KeepAliveCount,  \* KeepAliveConfig.Count
          MaxChallenges,   \* what the limiter grants one connection
          MaxFaults

ASSUME ConnectionConstants ==
    /\ A # B /\ Writers \cup Listeners \cup HalfClosers \subseteq {A, B}
    /\ {MaxDials, MaxTalks, MaxSYNs, MaxRTOs, SlowRTOs, KeepAliveCount,
        MaxChallenges} \subseteq Nat \ {0}
    /\ MaxFaults \in Nat

Hosts == {A, B}
Peer(h) == IF h = A THEN B ELSE A
Stride == 10
Window == 4

VARIABLES conn,            \* Stack.tcp[key] on each host
          dialing,         \* a DialTCP call has not returned
          listening,       \* hosts with a listener on the port
          isn,             \* the next initial sequence number of each host
          dials,           \* dials so far
          path,            \* segments under way to each host, in order
          stray,           \* segments delayed at will
          down,            \* the path is gone for good
          faults,
          history          \* what the connections of each host did

vars == <<conn, dialing, listening, isn, dials, path, stray, down, faults,
          history>>

(***************************************************************************)
(* history[h] remembers, by initial sequence number: the peers h           *)
(* synchronised with, what it wrote, what an abortive Close dropped before *)
(* it was sent, whether it sent FIN, and the connections that did not end  *)
(* by an orderly close of both directions.                                 *)
(***************************************************************************)
NoHistory == [peers |-> {}, wrote |-> {}, cut |-> {}, fin |-> {}, rude |-> {}]

(* newTCPConn, as the handshake entered next sees it. *)
NewConn(phase, initial, remote) ==
    [phase |-> phase, passive |-> phase = "SYN-RECEIVED",
     pending |-> TRUE, sent |-> FALSE, tries |-> 0, open |-> FALSE,
     iss |-> initial, una |-> initial + 1, nxt |-> initial + 1,
     irs |-> remote, rcv |-> remote + 1,
     wrote |-> 0, wclosed |-> FALSE, finSent |-> FALSE,
     fin |-> FALSE, held |-> FALSE, unread |-> 0, got |-> {}, closed |-> FALSE,
     timeWaitRequired |-> FALSE, timeWait |-> FALSE, finWait |-> FALSE,
     probes |-> 0, challenges |-> 0, abort |-> "no", err |-> "none"]

Init ==
    /\ conn = [h \in Hosts |-> Closed]
    /\ dialing = [h \in Hosts |-> FALSE]
    /\ listening \in {{}, Listeners}
    /\ isn = [h \in Hosts |-> Stride]
    /\ dials = 0
    /\ path = [h \in Hosts |-> <<>>] /\ stray = {} /\ down = FALSE
    /\ faults = 0
    /\ history = [h \in Hosts |-> NoHistory]

(***************************************************************************)
(* Segments.  of is the connection a payload byte was written to.          *)
(***************************************************************************)
Segment(h, flags, seq, ack) ==
    [to |-> Peer(h), flags |-> flags, seq |-> seq, ack |-> ack, len |-> 0, of |-> 0]

(* tcpAcceptableSendSequence: SND.NXT, since the peer's window is open. *)
Ack(h, c) == Segment(h, {"ACK"}, c.nxt, c.rcv)
Reset(h, c) == Segment(h, {"RST", "ACK"}, c.nxt, c.rcv)
BareReset(h, m) == Segment(h, {"RST"}, m.ack, 0)

Acceptable(seq, len, rcv) ==
    \/ seq >= rcv /\ seq < rcv + Window
    \/ len # 0 /\ seq + len - 1 >= rcv /\ seq + len - 1 < rcv + Window

KeepAliveProbe(c, m) == m.flags = {"ACK"} /\ m.seq + 1 = c.rcv /\ m.len <= 1

(***************************************************************************)
(* What the sender of an established connection has to say: the byte, then *)
(* FIN once writing is closed and everything before it is sent.            *)
(***************************************************************************)
FINAcked(c) == c.finSent /\ c.una = c.nxt
DataSent(c) == c.nxt - (c.iss + 1) - (IF c.finSent THEN 1 ELSE 0)
Sendable(c) == DataSent(c) < c.wrote \/ (c.wclosed /\ ~c.finSent)

DataSegment(h, c) == [Segment(h, {"ACK"}, c.iss + 1, c.rcv) EXCEPT !.len = 1, !.of = c.iss]
FINSegment(h, c) == Segment(h, {"ACK", "FIN"}, c.iss + 1 + c.wrote, c.rcv)

FillData(h, r) ==
    IF DataSent(r.c) < r.c.wrote
    THEN [c |-> [r.c EXCEPT !.nxt = @ + 1], out |-> Append(r.out, DataSegment(h, r.c))]
    ELSE r
FillFIN(h, r) ==
    IF r.c.wclosed /\ ~r.c.finSent
    THEN [c |-> [r.c EXCEPT !.nxt = @ + 1, !.finSent = TRUE, !.timeWaitRequired = ~r.c.fin],
          out |-> Append(r.out, FINSegment(h, r.c))]
    ELSE r
FillWindow(h, r) == FillFIN(h, FillData(h, r))

ConnectionState(c) ==
    CASE c.timeWait -> "TIME-WAIT"
      [] ~c.timeWait /\ ~c.finSent -> IF c.fin THEN "CLOSE-WAIT" ELSE "ESTABLISHED"
      [] ~c.timeWait /\ c.finSent /\ ~FINAcked(c) ->
            IF ~c.timeWaitRequired THEN "LAST-ACK"
            ELSE IF c.fin THEN "CLOSING" ELSE "FIN-WAIT-1"
      [] OTHER -> IF c.fin THEN "CLOSED" ELSE "FIN-WAIT-2"

(***************************************************************************)
(* The end of an actor.  established's deferred finish sends the reset an  *)
(* abort asked for, whichever way the actor ended, once.  TCPConn.finish   *)
(* drops what was not read when the connection was aborted.                *)
(***************************************************************************)
Done(h, r, why) ==
    LET unread == IF r.c.abort = "no" THEN r.c.unread ELSE 0
    IN  [c |-> [r.c EXCEPT !.phase = "DONE", !.err = why, !.unread = unread,
                           !.abort = IF @ = "rst" THEN "silent" ELSE @],
         out |-> IF r.c.phase = "OPEN" /\ r.c.abort = "rst"
                 THEN Append(r.out, Reset(h, r.c)) ELSE r.out]

Keep(c) == [c |-> c, out |-> <<>>]
Answer(c, segment) == [c |-> c, out |-> <<segment>>]

(* allowControlResponse limits the rate of challenges; an exchange that would
   go on for ever runs out of them.                                         *)
Challenge(c, segment) ==
    IF c.challenges < MaxChallenges
    THEN Answer([c EXCEPT !.challenges = @ + 1], segment) ELSE Keep(c)

(***************************************************************************)
(* The active handshake.                                                   *)
(***************************************************************************)
Opened(c) == [c EXCEPT !.phase = "OPEN", !.open = TRUE, !.pending = FALSE, !.tries = 0]

(* Mutant: the SYN-SENT actor takes any SYN-ACK for an answer to its SYN. *)
UnacceptableACKIgnored(c, m) == FALSE
UnacceptableACK(c, m) == "ACK" \in m.flags /\ m.ack # c.iss + 1

SynSentSegment(h, c, m) ==
    CASE UnacceptableACK(c, m) ->
            IF "RST" \in m.flags THEN Keep(c) ELSE Answer(c, BareReset(h, m))
      [] ~UnacceptableACK(c, m) /\ "RST" \in m.flags ->
            IF c.sent /\ "ACK" \in m.flags THEN Done(h, Keep(c), "ECONNREFUSED") ELSE Keep(c)
      [] m.flags = {"SYN"} ->
            Keep([c EXCEPT !.phase = "SYN-RECEIVED", !.irs = m.seq, !.rcv = m.seq + 1,
                           !.pending = TRUE, !.sent = FALSE, !.tries = 0])
      [] m.flags = {"SYN", "ACK"} /\ ~UnacceptableACK(c, m) /\ c.sent ->
            LET o == [Opened(c) EXCEPT !.irs = m.seq, !.rcv = m.seq + 1]
            IN  Answer(o, Ack(h, o))
      [] OTHER -> Keep(c)

(***************************************************************************)
(* The established state.                                                  *)
(***************************************************************************)
(* Linux's extension: the sequence number of the FIN that was consumed. *)
AcceptsResetException(c, m) ==
    \/ /\ c.fin /\ m.seq + 1 = c.rcv
       /\ ConnectionState(c) \in {"CLOSE-WAIT", "LAST-ACK", "CLOSING"}
    \/ c.held /\ m.seq = c.rcv + 2
TooOld(c, m) == m.ack < c.iss + 1

(* Mutant: a FIN is consumed although the byte before it is missing. *)
AdvanceOverGap(c, m) ==
    LET fresh == m.len = 1 /\ m.seq = c.rcv
        last == "FIN" \in m.flags
    IN  [c EXCEPT !.rcv = IF last THEN m.seq + m.len + 1 ELSE IF fresh THEN @ + 1 ELSE @,
                  !.got = IF fresh THEN @ \cup {m.of} ELSE @,
                  !.unread = IF fresh /\ ~c.closed THEN @ + 1 ELSE @,
                  !.fin = last]
(* Payload and FIN, once sequence and acknowledgement were admitted.  A FIN
   whose byte is missing waits out of order.                                *)
Advance(c, m) ==
    LET fresh == m.len = 1 /\ m.seq = c.rcv
        base == IF fresh THEN c.rcv + 1 ELSE c.rcv
        last == \/ "FIN" \in m.flags /\ m.seq + m.len = base
                \/ fresh /\ c.held
        early == "FIN" \in m.flags /\ m.seq + m.len > base
    IN  [c EXCEPT !.rcv = IF last THEN base + 1 ELSE base,
                  !.got = IF fresh THEN @ \cup {m.of} ELSE @,
                  !.unread = IF fresh /\ ~c.closed THEN @ + 1 ELSE @,
                  !.fin = last, !.held = (@ \/ early) /\ ~last]

(* Mutant: the last FIN ends the connection whichever side closed first. *)
EndOfSegmentAtOnce(h, r) ==
    IF FINAcked(r.c) /\ r.c.fin THEN Done(h, r, "closed") ELSE FillWindow(h, r)
EndOfSegment(h, r) ==
    CASE FINAcked(r.c) /\ r.c.fin ->
            IF r.c.timeWaitRequired
            THEN FillWindow(h, [r EXCEPT !.c.timeWait = TRUE])
            ELSE Done(h, r, "closed")
      [] FINAcked(r.c) /\ ~r.c.fin /\ r.c.closed -> FillWindow(h, [r EXCEPT !.c.finWait = TRUE])
      [] OTHER -> FillWindow(h, r)

Receive(h, c, m) ==
    LET carries == m.len # 0 \/ "FIN" \in m.flags
        new == m.len # 0 /\ m.seq + m.len > c.rcv
        d == IF carries /\ ~c.fin THEN Advance(c, m) ELSE c
    IN  IF new /\ c.closed
        THEN Done(h, Answer(d, Reset(h, d)), "undeliverable")
        ELSE EndOfSegment(h, IF carries THEN Answer(d, Ack(h, d)) ELSE Keep(d))

Acknowledge(c, m) ==
    IF m.ack < c.una THEN c
    ELSE [c EXCEPT !.una = m.ack, !.probes = 0, !.tries = IF m.ack > c.una THEN 0 ELSE @]

ResetMatches(c, m) == m.seq = c.rcv \/ AcceptsResetException(c, m)

OpenSegment(h, c, m) ==
    CASE ~Acceptable(m.seq, m.len, c.rcv) ->
            IF "RST" \in m.flags
            THEN IF AcceptsResetException(c, m) THEN Done(h, Keep(c), "ECONNRESET") ELSE Keep(c)
            ELSE IF KeepAliveProbe(c, m) THEN Answer(c, Ack(h, c))
            ELSE Challenge(c, Ack(h, c))
      [] Acceptable(m.seq, m.len, c.rcv) /\ "RST" \in m.flags ->
            IF ResetMatches(c, m) THEN Done(h, Keep(c), "ECONNRESET") ELSE Challenge(c, Ack(h, c))
      [] OTHER ->
            IF "SYN" \in m.flags THEN Challenge(c, Ack(h, c))
            ELSE IF "ACK" \notin m.flags THEN Keep(c)
            ELSE IF m.ack > c.nxt \/ TooOld(c, m) THEN Challenge(c, Ack(h, c))
            ELSE Receive(h, Acknowledge(c, m), m)

(***************************************************************************)
(* The passive handshake, and the second half of a simultaneous open.      *)
(***************************************************************************)
SynReceivedSegment(h, c, m) ==
    LET len == m.len + Cardinality(m.flags \cap {"SYN", "FIN"})
        challenge == Challenge(c, Segment(h, {"ACK"}, c.iss + 1, c.rcv))
    IN  IF "RST" \in m.flags
        THEN IF m.seq = c.rcv /\ ("ACK" \notin m.flags \/ c.sent)
             THEN Done(h, Keep(c), "ECONNRESET")
             ELSE IF Acceptable(m.seq, len, c.rcv) THEN challenge ELSE Keep(c)
        ELSE IF c.sent /\ ~c.passive /\ {"SYN", "ACK"} \subseteq m.flags
                /\ m.ack = c.iss + 1 /\ m.seq + 1 = c.rcv
        THEN Answer(Opened(c), Ack(h, c))
        ELSE IF "SYN" \in m.flags /\ "ACK" \notin m.flags /\ m.seq + 1 = c.rcv
        THEN Keep([c EXCEPT !.pending = TRUE])
        ELSE IF ~Acceptable(m.seq, len, c.rcv) THEN challenge
        ELSE IF UnacceptableACK(c, m) THEN Answer(c, BareReset(h, m))
        ELSE IF "SYN" \in m.flags THEN challenge
        ELSE IF ~c.sent \/ "ACK" \notin m.flags THEN Keep(c)
        ELSE IF m.len # 0 \/ "FIN" \in m.flags THEN OpenSegment(h, Opened(c), m)
        ELSE Keep(Opened(c))

(***************************************************************************)
(* TIME-WAIT.  A reset never ends it, and a SYN beyond the old sequence    *)
(* space may take the tuple over when a listener is there to answer it.    *)
(***************************************************************************)
Replaces(c, m) == m.flags = {"SYN"} /\ m.seq > c.rcv

TimeWaitSegment(h, c, m) ==
    IF "RST" \in m.flags THEN Keep(c)
    ELSE IF "SYN" \in m.flags THEN Challenge(c, Ack(h, c))
    ELSE IF \/ {"ACK", "FIN"} \subseteq m.flags /\ m.seq + m.len + 1 = c.rcv
            \/ "ACK" \notin m.flags \/ m.seq # c.rcv \/ m.len # 0
    THEN Answer(c, Ack(h, c)) ELSE Keep(c)

(***************************************************************************)
(* Effects of a turn on the shared state.                                  *)
(***************************************************************************)
Carried(h, out) == IF down THEN path[Peer(h)] ELSE path[Peer(h)] \o out
Idle == \A h \in Hosts : path[h] = <<>>

(* Only a handshake that knows both numbers has synchronised; an ending is
   rude unless both directions were closed in order.                        *)
Recorded(h, new) ==
    history' = [history EXCEPT ![h] =
        [@ EXCEPT
         !.peers = IF new.phase = "SYN-SENT" THEN @ ELSE @ \cup {<<new.iss, new.irs>>},
         !.fin   = IF new.finSent THEN @ \cup {new.iss} ELSE @,
         !.rude  = IF new.phase = "DONE" /\ ~(new.err = "closed" /\ FINAcked(new) /\ new.fin)
                   THEN @ \cup {new.iss} ELSE @]]

(* The turn of h's actor that turned its state into r.c, sent r.out and left
   `rest' of what was on the way to it.                                     *)
TurnLeaving(h, r, rest) ==
    /\ conn' = [conn EXCEPT ![h] = r.c]
    /\ path' = [path EXCEPT ![h] = rest, ![Peer(h)] = Carried(h, r.out)]
    /\ Recorded(h, r.c)
Turn(h, r) == TurnLeaving(h, r, path[h]) /\ UNCHANGED stray

(* One of the adverse events a behaviour may have. *)
Fault == faults < MaxFaults /\ faults' = faults + 1

(***************************************************************************)
(* Dialling.                                                               *)
(***************************************************************************)
Dial(h) ==
    /\ h \notin listening
    /\ conn[h] = Closed /\ ~dialing[h] /\ dials < MaxDials
    /\ dials' = dials + 1
    /\ conn' = [conn EXCEPT ![h] = NewConn("SYN-SENT", isn[h], 0)]
    /\ isn' = [isn EXCEPT ![h] = @ + Stride]
    /\ dialing' = [dialing EXCEPT ![h] = TRUE]
    /\ UNCHANGED <<listening, path, stray, down, faults, history>>

(* run has written the outcome of the handshake to connected. *)
DialDecided(h) == dialing[h] /\ (conn[h] # Closed => conn[h].phase \in {"OPEN", "DONE"})
DialReturns(h) ==
    /\ DialDecided(h)
    /\ dialing' = [dialing EXCEPT ![h] = FALSE]
    /\ UNCHANGED <<conn, listening, isn, dials, path, stray, down, faults, history>>

(* The first abort decides; abortCh is closed once.  The actor may still take
   a segment or a wakeup that is waiting before it notices.                 *)
Aborted(c) == [c EXCEPT !.abort = IF @ = "no" /\ c.phase # "DONE" THEN "rst" ELSE @]

DialCancelled(h) ==
    /\ dialing[h] /\ conn[h] # Closed /\ Fault
    /\ dialing' = [dialing EXCEPT ![h] = FALSE]
    /\ conn' = [conn EXCEPT ![h] = Aborted(@)]
    /\ UNCHANGED <<listening, isn, dials, path, stray, down, history>>

(***************************************************************************)
(* The handshake's own steps.                                              *)
(***************************************************************************)
Handshaking(h) == conn[h] # Closed /\ conn[h].phase \in {"SYN-SENT", "SYN-RECEIVED"}
Open(h) == conn[h] # Closed /\ conn[h].phase = "OPEN"
Running(h) == conn[h] # Closed /\ conn[h].phase # "DONE"

Live(h) == conn[h].abort = "no"
SYNPending(h) == Handshaking(h) /\ conn[h].pending /\ Live(h)
SendSYN(h) ==
    LET c == conn[h] IN
    /\ SYNPending(h)
    /\ Turn(h, [c |-> [c EXCEPT !.pending = FALSE, !.sent = TRUE],
                out |-> <<IF c.phase = "SYN-SENT" THEN Segment(h, {"SYN"}, c.iss, 0)
                          ELSE Segment(h, {"SYN", "ACK"}, c.iss, c.rcv)>>])
    /\ UNCHANGED <<dialing, listening, isn, dials, down, faults>>

(* A timeout is due when nothing is under way any more; one that fires
   earlier is a fault of the path.                                          *)
Due == IF Idle THEN UNCHANGED faults
       ELSE Fault

AwaitingPeer(h) == Handshaking(h) /\ ~conn[h].pending /\ conn[h].sent /\ Live(h)
HandshakeTimeout(h) ==
    LET c == conn[h] IN
    /\ AwaitingPeer(h)
    /\ Due
    /\ Turn(h, IF c.tries >= MaxSYNs - 1 THEN Done(h, Keep(c), "ETIMEDOUT")
               ELSE Keep([c EXCEPT !.tries = @ + 1, !.pending = TRUE]))
    /\ UNCHANGED <<dialing, listening, isn, dials, down>>

(***************************************************************************)
(* Segments arrive.  An actor that ended but is still in the table drops   *)
(* them, a listener answers a SYN, and anything else is reset.             *)
(***************************************************************************)
Rejected(h, m) ==
    IF "RST" \in m.flags THEN <<>>
    ELSE IF "ACK" \in m.flags THEN <<BareReset(h, m)>>
    ELSE <<Segment(h, {"RST", "ACK"}, 0,
                   m.seq + m.len + Cardinality(m.flags \cap {"SYN", "FIN"}))>>

Process(h, c, m) ==
    CASE c.phase = "SYN-SENT" -> SynSentSegment(h, c, m)
      [] c.phase = "SYN-RECEIVED" -> SynReceivedSegment(h, c, m)
      [] c.phase = "OPEN" /\ c.timeWait -> TimeWaitSegment(h, c, m)
      [] c.phase = "OPEN" /\ ~c.timeWait -> OpenSegment(h, c, m)
      [] c.phase = "DONE" -> Keep(c)

DeliverToConnection(m, rest) ==
    LET h == m.to  c == conn[h] IN
    /\ c # Closed
    /\ ~(c.phase = "OPEN" /\ c.timeWait /\ h \in listening /\ Replaces(c, m))
    /\ TurnLeaving(h, Process(h, c, m), rest)
    /\ UNCHANGED isn

(* handleSYN, or the replacement of a TIME-WAIT owner, which is aborted
   without a reset (unless its application asked for one first) and whose own
   removal no longer finds its entry.                                       *)
DeliverToListener(m, rest) ==
    LET h == m.to  c == conn[h]
        initial == IF c = Closed THEN isn[h] ELSE c.nxt + Stride
        n == NewConn("SYN-RECEIVED", initial, m.seq)
        out == IF c # Closed THEN Done(h, Keep(c), "replaced").out ELSE <<>>
    IN
    /\ h \in listening /\ m.flags = {"SYN"}
    /\ c # Closed => (c.phase = "OPEN" /\ c.timeWait /\ Replaces(c, m))
    /\ isn' = [isn EXCEPT ![h] = initial + Stride]
    /\ TurnLeaving(h, [c |-> n, out |-> out], rest)

DeliverToNobody(m, rest) ==
    /\ conn[m.to] = Closed
    /\ ~(m.to \in listening /\ m.flags = {"SYN"})
    /\ path' = [path EXCEPT ![m.to] = rest, ![Peer(m.to)] = Carried(m.to, Rejected(m.to, m))]
    /\ UNCHANGED <<conn, isn, history>>

Arrive(m, rest) ==
    /\ DeliverToConnection(m, rest) \/ DeliverToListener(m, rest) \/ DeliverToNobody(m, rest)
    /\ UNCHANGED <<dialing, listening, dials, down, faults>>

Deliver(h) ==
    /\ path[h] # <<>>
    /\ Arrive(Head(path[h]), Tail(path[h]))
    /\ UNCHANGED stray

DeliverStray(m) ==
    /\ Arrive(m, path[m.to])
    /\ stray' = stray \ {m}

(***************************************************************************)
(* The application.                                                        *)
(***************************************************************************)
Usable(h) == Running(h) /\ conn[h].phase = "OPEN" /\ ~dialing[h] /\ ~conn[h].closed
Application(h, c) ==
    /\ conn' = [conn EXCEPT ![h] = c]
    /\ UNCHANGED <<dialing, listening, isn, dials, path, stray, down>>

Talking == dials <= MaxTalks

Write(h) ==
    /\ Usable(h) /\ h \in Writers /\ Talking /\ ~conn[h].wclosed /\ conn[h].wrote = 0
    /\ Application(h, [conn[h] EXCEPT !.wrote = 1])
    /\ history' = [history EXCEPT ![h].wrote = @ \cup {conn[h].iss}]
    /\ UNCHANGED faults

Read(h) ==
    /\ Usable(h) /\ conn[h].unread > 0
    /\ Application(h, [conn[h] EXCEPT !.unread = 0])
    /\ UNCHANGED <<faults, history>>

CloseWrite(h) ==
    /\ Usable(h) /\ h \in HalfClosers /\ Talking /\ ~conn[h].wclosed
    /\ Application(h, [conn[h] EXCEPT !.wclosed = TRUE])
    /\ UNCHANGED <<faults, history>>

(* Close with the default linger, or with SetLinger(0): unread data makes any
   Close abortive, and an abortive one drops what was not sent.             *)
Close(h, lingerZero) ==
    LET c == conn[h]
        abortive == lingerZero \/ c.unread # 0
        closed == [c EXCEPT !.wclosed = TRUE, !.closed = TRUE, !.unread = 0]
    IN
    /\ Usable(h)
    /\ IF lingerZero THEN Fault ELSE UNCHANGED faults
    /\ Application(h, IF abortive THEN Aborted([closed EXCEPT !.wrote = DataSent(c)])
                      ELSE closed)
    /\ history' = IF abortive /\ DataSent(c) < c.wrote
                  THEN [history EXCEPT ![h].cut = @ \cup {c.iss}] ELSE history

(* A Close that lingers for a positive time gives up on the acknowledgement. *)
LingerTimeout(h) ==
    /\ Open(h) /\ conn[h].closed /\ ~FINAcked(conn[h]) /\ conn[h].abort = "no"
    /\ Fault
    /\ Application(h, Aborted(conn[h]))
    /\ UNCHANGED history

(***************************************************************************)
(* The established actor's other turns.                                    *)
(***************************************************************************)
(* Mutant: a Close after CloseWrite's FIN was acknowledged goes unnoticed. *)
OrphanedFINWaitMissed(c) == FALSE
(* Woken by Write, CloseWrite or Close. *)
OrphanedFINWait(c) == FINAcked(c) /\ ~c.fin /\ ~c.finWait /\ c.closed

OutputDue(h) ==
    Open(h) /\ (Sendable(conn[h]) \/ OrphanedFINWait(conn[h]))
Output(h) ==
    LET r == FillWindow(h, Keep(conn[h])) IN
    /\ OutputDue(h)
    /\ Turn(h, IF OrphanedFINWait(r.c) THEN [r EXCEPT !.c.finWait = TRUE] ELSE r)
    /\ UNCHANGED <<dialing, listening, isn, dials, down, faults>>

Unacknowledged(h) ==
    Open(h) /\ conn[h].una < conn[h].nxt /\ Live(h) /\ ~Sendable(conn[h])
Retransmit(h) ==
    LET c == conn[h] IN
    /\ Unacknowledged(h)
    /\ Due
    /\ Turn(h, IF c.tries >= MaxRTOs THEN Done(h, Keep(c), "ETIMEDOUT")
               ELSE Answer([c EXCEPT !.tries = @ + 1],
                           IF c.una < c.iss + 1 + c.wrote THEN DataSegment(h, c)
                           ELSE FINSegment(h, c)))
    /\ UNCHANGED <<dialing, listening, isn, dials, down>>

(* The close timer, in TIME-WAIT or as an orphan in FIN-WAIT-2.  Twice the
   segment lifetime (tcpTimeWaitDuration, 60 s) outlasts what is under way and
   what the peer retransmits, unless the peer's timeout has doubled so often
   that it is longer itself (tcpMaximumRTO, 120 s).                         *)
StillTalking(h) == Open(Peer(h)) /\ conn[Peer(h)].una < conn[Peer(h)].nxt
RetransmitsSooner(h) == StillTalking(h) /\ conn[Peer(h)].tries < SlowRTOs
CloseTimerDue(h) ==
    /\ Open(h) /\ Live(h) /\ Idle
    /\ IF conn[h].timeWait THEN stray = {} /\ ~RetransmitsSooner(h) ELSE conn[h].finWait
CloseTimer(h) ==
    /\ CloseTimerDue(h)
    /\ Turn(h, Done(h, Keep(conn[h]), "closed"))
    /\ UNCHANGED <<dialing, listening, isn, dials, down, faults>>

(* The liveness timer with keepalive enabled, on a connection at rest; the
   peer's handshake and retransmission timers are shorter.  A probe that the
   counterpart answers changes nothing, and is left out.                    *)
Counterpart(h) ==
    /\ Open(Peer(h)) /\ ~down
    /\ conn[Peer(h)].irs = conn[h].iss /\ conn[h].irs = conn[Peer(h)].iss
KeepAliveEligible(c) ==
    c.una = c.nxt /\ ~Sendable(c) /\ ~(FINAcked(c) /\ c.fin)
KeepAliveDue(h) ==
    /\ Open(h) /\ Live(h) /\ KeepAliveEligible(conn[h])
    /\ Idle /\ ~Counterpart(h) /\ ~StillTalking(h) /\ ~Handshaking(Peer(h))
KeepAlive(h) ==
    LET c == conn[h] IN
    /\ KeepAliveDue(h)
    /\ Turn(h, IF c.probes >= KeepAliveCount THEN Done(h, Keep(c), "ETIMEDOUT")
               ELSE Answer([c EXCEPT !.probes = @ + 1],
                           Segment(h, {"ACK"}, c.nxt - 1, c.rcv)))
    /\ UNCHANGED <<dialing, listening, isn, dials, down, faults>>

(* abortCh is closed: a handshake ends silently, an established connection
   sends its reset from finish.                                             *)
AbortPending(h) == Running(h) /\ conn[h].abort # "no"
ActorAborts(h) ==
    /\ AbortPending(h)
    /\ Turn(h, Done(h, Keep(conn[h]), "aborted"))
    /\ UNCHANGED <<dialing, listening, isn, dials, down, faults>>

Finished(h) == conn[h] # Closed /\ conn[h].phase = "DONE"
RemoveTCP(h) ==
    /\ Finished(h)
    /\ conn' = [conn EXCEPT ![h] = Closed]
    /\ UNCHANGED <<dialing, listening, isn, dials, path, stray, down, faults,
          history>>

(***************************************************************************)
(* Faults.                                                                 *)
(***************************************************************************)
Lose(h) ==
    /\ path[h] # <<>> /\ Fault
    /\ path' = [path EXCEPT ![h] = Tail(@)]
    /\ UNCHANGED <<conn, dialing, listening, isn, dials, stray, down, history>>

Delay(h, copy) ==
    /\ path[h] # <<>> /\ Fault
    /\ stray' = stray \cup {Head(path[h])}
    /\ path' = IF copy THEN path ELSE [path EXCEPT ![h] = Tail(@)]
    /\ UNCHANGED <<conn, dialing, listening, isn, dials, down, history>>

Outage ==
    /\ Fault
    /\ down' = TRUE /\ path' = [h \in Hosts |-> <<>>] /\ stray' = {}
    /\ UNCHANGED <<conn, dialing, listening, isn, dials, history>>

(* The host restarts: its connections are gone without a word. *)
Restart(h) ==
    /\ Fault
    /\ conn[h] # Closed
    /\ conn' = [conn EXCEPT ![h] = Closed]
    /\ dialing' = [dialing EXCEPT ![h] = FALSE]
    /\ history' = [history EXCEPT ![h].rude = @ \cup {conn[h].iss}]
    /\ UNCHANGED <<listening, isn, dials, path, stray, down>>

Actor(h) == \/ SendSYN(h) \/ HandshakeTimeout(h) \/ Output(h) \/ Retransmit(h)
            \/ CloseTimer(h) \/ ActorAborts(h) \/ RemoveTCP(h)

Next ==
    \/ \E h \in Hosts :
          \/ Dial(h) \/ DialReturns(h) \/ DialCancelled(h)
          \/ Write(h) \/ Read(h) \/ CloseWrite(h) \/ LingerTimeout(h) \/ Restart(h)
          \/ \E lingerZero \in BOOLEAN : Close(h, lingerZero)
          \/ Actor(h) \/ KeepAlive(h)
          \/ Deliver(h) \/ Lose(h) \/ \E copy \in BOOLEAN : Delay(h, copy)
    \/ \E m \in stray : DeliverStray(m)
    \/ Outage

(***************************************************************************)
(* The hosts' goroutines and timers keep running and the network delivers; *)
(* the applications and the faults need not act.  The bounds leave every   *)
(* behaviour finitely many steps (Stops), so fairness is about the state   *)
(* it ends in, and that no step is owed there is what weak fairness of     *)
(* each of them would say; the guards alone are quicker to evaluate.       *)
(***************************************************************************)
Ready(h) == \/ SYNPending(h) \/ DialDecided(h) \/ OutputDue(h) \/ AbortPending(h)
            \/ Finished(h) \/ path[h] # <<>>
Expired(h) == Idle /\ (AwaitingPeer(h) \/ Unacknowledged(h) \/ KeepAliveDue(h))

Fairness ==
    /\ \A h \in Hosts : []<>~(Ready(h) \/ Expired(h) \/ CloseTimerDue(h))
    /\ []<>(stray = {})

Unfair == Init /\ [][Next]_vars

(* Every behaviour ends: no sequence of writes, retransmissions, timers and  *)
(* faults within the bounds goes on for ever, so a goroutine that spins      *)
(* would be a counterexample here and is not hidden by Fairness.             *)
Stops == <>[][FALSE]_vars

Spec == Unfair /\ Fairness

(***************************************************************************)
(* Properties.                                                             *)
(***************************************************************************)
(* An established connection is one both hosts agreed on: the peer had a
   connection with exactly these two initial sequence numbers.  No duplicate
   of an earlier attempt, and no restart, makes handshake or
   passiveHandshake complete against a connection that never was.           *)
HandshakeAgrees ==
    \A h \in Hosts : Open(h) =>
        <<conn[h].irs, conn[h].iss>> \in history[Peer(h)].peers

(* What a connection delivers was written to the connection it is
   synchronised with, and end of file is reported only for a FIN that this
   peer sent and after everything the peer wrote, unless the peer's abortive
   Close dropped some of it: nothing crosses from one incarnation of the
   tuple into the next, TIME-WAIT replaced or not.                          *)
StreamOfThisPeer ==
    \A h \in Hosts : conn[h] # Closed =>
        /\ conn[h].got \subseteq {conn[h].irs}
        /\ conn[h].fin =>
              /\ conn[h].irs \in history[Peer(h)].fin
              /\ conn[h].irs \in history[Peer(h)].wrote \ history[Peer(h)].cut =>
                    conn[h].got # {}

(* README.md: "Orderly TCP EOF is returned directly as io.EOF".  An end of
   file stands for the whole of what the peer wrote; an abortive Close, which
   discards unsent data, is seen as a reset and never as an orderly end.    *)
OrderlyEOFIsWhole ==
    \A h \in Hosts : (conn[h] # Closed /\ conn[h].fin) =>
        (conn[h].irs \in history[Peer(h)].wrote => conn[h].got # {})

(* An established connection is reset only if its peer did end otherwise than
   by an orderly close: aborted, restarted, timed out, or refused data after
   Close.  The last acknowledgement may be lost, and old segments may arrive
   at a host that has forgotten the connection, without that; only a FIN that
   was repeated after a longer pause than TIME-WAIT may find it forgotten.    *)
WasReset(h) == conn[h] # Closed /\ conn[h].open /\ conn[h].err = "ECONNRESET"
ResetHasCause ==
    \A h \in Hosts :
        (WasReset(h) /\ conn[h].tries <= SlowRTOs) =>
            conn[h].irs \in history[Peer(h)].rude

(* TIME-WAIT "retains a completed tuple for twice the conventional 30-second
   maximum segment lifetime" (tcpTimeWaitDuration): long enough, one would
   think, for every repetition of the peer's FIN.                             *)
TimeWaitOutlastsFIN ==
    \A h \in Hosts : WasReset(h) => conn[h].irs \in history[Peer(h)].rude

(* Nothing is retained forever: a dial returns, a connection its application
   closed leaves the table, and a connection whose peer is gone is noticed by
   retransmission or keepalive, also after a restart or an outage.  There are
   finitely many dials, so each of these comes to an end for good.          *)
OrphanOf(h) == Open(h) /\ conn[h].irs \in history[Peer(h)].rude
ClosedByUser(h) == conn[h] # Closed /\ conn[h].closed
NothingRetained ==
    <>[](\A h \in Hosts : ~dialing[h] /\ ~ClosedByUser(h) /\ ~OrphanOf(h))

(* README.md: CloseRead and CloseWrite "leave the opposite direction open".
   A connection that ends in order after its application closed only the
   write side keeps what was received and not yet read.                     *)
HalfCloseKeepsReceive ==
    [][\A h \in Hosts :
         (/\ conn[h] # Closed /\ ~conn[h].closed /\ conn[h].timeWait /\ conn[h].abort = "no"
          /\ conn[h].unread > 0 /\ conn'[h] # Closed) =>
            \/ conn'[h].iss = conn[h].iss /\ conn'[h].unread = conn[h].unread
            \/ conn'[h].iss = conn[h].iss /\ conn'[h].abort # "no"]_vars
=============================================================================
