----------------------------- MODULE SynCookie -----------------------------
(***************************************************************************)
(* The receive window scale of SYN cookies (syn_cookie.go, tcp.go).  A     *)
(* cookie SYN-ACK advertises a scale and keeps no connection state: the    *)
(* tag holds the cookie period, the listener remembers one scale for the   *)
(* current and one for the previous period, and the final ACK is given the *)
(* scale of the period that authenticates it.  Concurrent Write calls      *)
(* stamp a SYN on arrival and take the locks later, in any order, while    *)
(* UpdateConfig changes the configured receive buffer.                     *)
(*                                                                         *)
(* One step is one critical section.  The clock counts cookie periods.  A  *)
(* final ACK that nobody forged matches the tag of its own cookie only.    *)
(* The listener stays open.                                                *)
(***************************************************************************)
EXTENDS Naturals

CONSTANTS
    Writers,       \* Write calls that handle a SYN or a final ACK
    Scales,        \* receive scales UpdateConfig can configure
    LastPeriod,    \* bound on the clock
    None

VARIABLES
    clock, configured,
    epoch,         \* cookieEpoch, None until the first cookie
    cookiePeriod,  \* the latest period a cookie was sent in, None before
    current, previous,   \* the listener's scales: a period and its scale, or None
    writer,
    sent,          \* cookie SYN-ACKs: period, extensions and advertised scale
    accepted       \* final ACKs accepted: the scale advertised and the one restored

listenerVars == <<current, previous>>
passiveVars == <<epoch, cookiePeriod>>
vars == <<clock, configured, passiveVars, listenerVars, writer, sent, accepted>>

Idle == [pc |-> "idle"]

Init ==
    /\ clock = 0 /\ configured \in Scales
    /\ epoch = None /\ cookiePeriod = None
    /\ current = None /\ previous = None
    /\ writer = [w \in Writers |-> Idle]
    /\ sent = {} /\ accepted = {}

\* synCookiePeriodNumber
PeriodNumber(now, start) == IF now <= start THEN 0 ELSE now - start

Set(w, r) == writer' = [writer EXCEPT ![w] = r]
-----------------------------------------------------------------------------
(* handleSYN under backlog pressure: sendSYNCookie. *)

\* The SYN is stamped on arrival.
ReceiveSYN(w) ==
    /\ writer[w] = Idle
    /\ \E timestamp, scaling \in BOOLEAN :
        Set(w, [pc |-> "syn", now |-> clock, timestamp |-> timestamp, scaling |-> scaling])
    /\ UNCHANGED <<clock, configured, passiveVars, listenerVars, sent, accepted>>

\* encodeSYNCookieOptions declines window scaling without timestamps.
Encoded(timestamp, scaling) == timestamp /\ scaling

\* The configured scale is loaded, then synCookieKey fixes the epoch and gives
\* the period of the stamp.
PrepareCookie(w) ==
    /\ writer[w].pc = "syn"
    /\ epoch' = IF epoch = None THEN writer[w].now ELSE epoch
    /\ Set(w, [pc |-> "scale", period |-> PeriodNumber(writer[w].now, epoch'), configured |-> configured,
               scaling |-> Encoded(writer[w].timestamp, writer[w].scaling)])
    /\ UNCHANGED <<clock, configured, cookiePeriod, listenerVars, sent, accepted>>

\* recordSYNCookieScale
RecordScale(w) ==
    /\ writer[w].pc = "scale"
    /\ IF current = None \/ writer[w].period > current.period
       THEN /\ previous' = IF current = None THEN previous ELSE current
            /\ current' = [period |-> writer[w].period, scale |-> writer[w].configured]
       ELSE UNCHANGED listenerVars
    /\ Set(w, [pc |-> "send", period |-> writer[w].period, scaling |-> writer[w].scaling,
               scale |-> current'.scale])
    /\ UNCHANGED <<clock, configured, passiveVars, sent, accepted>>

\* noteSYNCookie and the SYN-ACK, for which the output may have no room
SendCookie(w) ==
    /\ writer[w].pc = "send"
    /\ cookiePeriod' = IF cookiePeriod = None \/ writer[w].period > cookiePeriod
                       THEN writer[w].period ELSE cookiePeriod
    /\ \/ sent' = sent \cup {[period |-> writer[w].period, scaling |-> writer[w].scaling,
                              scale |-> writer[w].scale]}
       \/ UNCHANGED sent
    /\ Set(w, Idle)
    /\ UNCHANGED <<clock, configured, epoch, listenerVars, accepted>>
-----------------------------------------------------------------------------
(* handleSYNCookieACK: validateSYNCookie. *)

\* A final ACK of a cookie; its Timestamp option may have been removed.
ReceiveACK(w) ==
    /\ writer[w] = Idle
    /\ \E x \in sent, present \in BOOLEAN :
        Set(w, [pc |-> "ack", now |-> clock, cookie |-> x, present |-> present])
    /\ UNCHANGED <<clock, configured, passiveVars, listenerVars, sent, accepted>>

\* recentSYNCookieState, and the tag of this or the previous period
Authentic(w) ==
    LET period == PeriodNumber(writer[w].now, epoch)
    IN  /\ period >= cookiePeriod /\ period - cookiePeriod <= 1
        /\ writer[w].cookie.period \in {period} \cup {q \in 0 .. period : q + 1 = period}

Authenticate(w) ==
    /\ writer[w].pc = "ack"
    /\ Set(w, IF Authentic(w) THEN [writer[w] EXCEPT !.pc = "restore"] ELSE Idle)
    /\ UNCHANGED <<clock, configured, passiveVars, listenerVars, sent, accepted>>

\* lookupSYNCookieScale
Remembered(period) == {r.scale : r \in {s \in {current, previous} : s # None /\ s.period = period}}

\* The scale is restored when the SYN-ACK advertised one and the ACK shows it;
\* a cookie of a forgotten period is refused.
Restore(w) ==
    LET x == writer[w].cookie
    IN  /\ writer[w].pc = "restore"
        /\ accepted' = IF x.scaling /\ writer[w].present
                       THEN accepted \cup {[advertised |-> x.scale, restored |-> r] : r \in Remembered(x.period)}
                       ELSE accepted
        /\ Set(w, Idle)
        /\ UNCHANGED <<clock, configured, passiveVars, listenerVars, sent>>
-----------------------------------------------------------------------------
UpdateConfig ==
    /\ configured' \in Scales
    /\ UNCHANGED <<clock, passiveVars, listenerVars, writer, sent, accepted>>

Tick ==
    /\ clock < LastPeriod /\ clock' = clock + 1
    /\ UNCHANGED <<configured, passiveVars, listenerVars, writer, sent, accepted>>

Next ==
    \/ \E w \in Writers :
        \/ ReceiveSYN(w) \/ PrepareCookie(w) \/ RecordScale(w) \/ SendCookie(w)
        \/ ReceiveACK(w) \/ Authenticate(w) \/ Restore(w)
    \/ UpdateConfig \/ Tick

Spec == Init /\ [][Next]_vars
-----------------------------------------------------------------------------
\* "A period remains stable after its first cookie so a configuration update
\* cannot change the scale promised by an outstanding SYN-cookie"
\* (recordSYNCookieScale): a connection made from a cookie uses the receive
\* scale its SYN-ACK advertised.
RestoredScaleIsAdvertised == \A a \in accepted : a.restored = a.advertised
=============================================================================
