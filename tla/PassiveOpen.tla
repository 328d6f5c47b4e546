---------------------------- MODULE PassiveOpen ----------------------------
(***************************************************************************)
(* Passive TCP opens on one local endpoint (tcp.go, syn_cookie.go): a      *)
(* listener with its SYN backlog and accept queue, the stack's connection  *)
(* table, SYN cookies, the TIME-WAIT replacement, Accept, Listener.Close   *)
(* and Stack.Close.  A closed listener may be followed by another one on   *)
(* the same endpoint.                                                      *)
(*                                                                         *)
(* One step is one critical section of Stack.mu or TCPListener.mu, one     *)
(* channel operation or one close of abortCh.  Inside Stack.mu the         *)
(* listener's lock nests, so an admission is a single step.                *)
(***************************************************************************)
EXTENDS Integers, Sequences, FiniteSets

CONSTANTS
    Keys,            \* tuples: remote endpoints that open connections
    Conns,           \* identities of TCPConn objects
    Listeners,       \* identities of TCPListener objects
    Writers,         \* Write calls inside handleTCP
    Accepters,       \* Accept calls
    Backlog, AcceptCapacity,
    MaxConnections,  \* maxTCPConnections
    None

ASSUME Limits == Backlog \in Nat /\ AcceptCapacity \in Nat /\ MaxConnections \in Nat \ {0}
ASSUME NoneFresh == None \notin Conns \cup Listeners \cup Keys

VARIABLES
    tcp,          \* s.tcp: tuple -> connection
    active,       \* activeTCPConnections
    closed,       \* the stack is closed: s.closed, tables detached
    passive,      \* which tcpPassiveState is installed
    dispatch,     \* the listener registered for the endpoint
    lstate,       \* "new", "open", "removed" from dispatch, "closed"
    pending, handshaking,
    accept,       \* contents of the accept channel
    toAbort,      \* connections closeFromStack has still to abort
    conn,         \* per connection: actor position, tuple, listener, the listener of
                  \* the cookie it was made from, who has it, cause of its abort
    writer, accepter,
    cookies       \* SYN cookies sent: tuple and listener generation

stackVars == <<tcp, active, closed, passive, dispatch>>
listenerVars == <<lstate, pending, handshaking, accept, toAbort>>
vars == <<stackVars, listenerVars, conn, writer, accepter, cookies>>

Unused == [pc |-> "unused", key |-> None, listener |-> None, cookie |-> None,
           place |-> "listener", aborted |-> "no"]

\* What is left of a connection whose actor has returned: its identity.
Dead == [Unused EXCEPT !.pc = "dead"]
IdleWriter == [pc |-> "idle"]
IdleAccepter == [pc |-> "idle"]

Init ==
    /\ tcp = [k \in Keys |-> None] /\ active = 0 /\ closed = FALSE
    /\ passive = 0 /\ dispatch = None
    /\ lstate = [l \in Listeners |-> "new"]
    /\ pending = [l \in Listeners |-> {}] /\ handshaking = [l \in Listeners |-> {}]
    /\ accept = [l \in Listeners |-> <<>>] /\ toAbort = [l \in Listeners |-> {}]
    /\ conn = [c \in Conns |-> Unused]
    /\ writer = [w \in Writers |-> IdleWriter]
    /\ accepter = [a \in Accepters |-> IdleAccepter]
    /\ cookies = {}
-----------------------------------------------------------------------------
(* Listen and Close. *)

\* listenTCP: tcpPassiveStateLocked makes a new dispatcher unless a listener of
\* another endpoint kept the old one; only calls under way can tell.
Listen(l) ==
    /\ lstate[l] = "new" /\ dispatch = None /\ ~closed
    /\ dispatch' = l
    /\ passive' \in {passive} \cup {passive + 1 : w \in {v \in Writers : writer[v] # IdleWriter}}
    /\ lstate' = [lstate EXCEPT ![l] = "open"]
    /\ UNCHANGED <<tcp, active, closed, pending, handshaking, accept, toAbort, conn,
                   writer, accepter, cookies>>

\* closeTCPListener, the section under Stack.mu
Unregister(l) ==
    /\ lstate[l] = "open" /\ dispatch = l /\ ~closed
    /\ dispatch' = None
    /\ lstate' = [lstate EXCEPT ![l] = "removed"]
    /\ UNCHANGED <<tcp, active, closed, passive, pending, handshaking, accept, toAbort,
                   conn, writer, accepter, cookies>>

\* closeFromStack, the section under l.mu, called by closeTCPListener or, after
\* Stack.Close, by closeAll.  The channel keeps its contents for Accept calls
\* that hold it; the generation of the cookies will not come back.
Publish(l) ==
    /\ lstate[l] = "removed" \/ (lstate[l] = "open" /\ closed)
    /\ lstate' = [lstate EXCEPT ![l] = "closed"]
    /\ toAbort' = [toAbort EXCEPT ![l] = pending[l]]
    /\ pending' = [pending EXCEPT ![l] = {}]
    /\ handshaking' = [handshaking EXCEPT ![l] = {}]
    /\ cookies' = {x \in cookies : x.listener # l}
    /\ UNCHANGED <<stackVars, accept, conn, writer, accepter>>

\* abortWithReset: the first cause stays.
Aborted(r, cause) == IF r.aborted = "no" /\ r.pc # "dead" THEN [r EXCEPT !.aborted = cause] ELSE r

AbortNext(l, c) ==
    /\ c \in toAbort[l]
    /\ toAbort' = [toAbort EXCEPT ![l] = @ \ {c}]
    /\ conn' = [conn EXCEPT ![c] = Aborted(@, "close")]
    /\ UNCHANGED <<stackVars, lstate, pending, handshaking, accept, writer, accepter,
                   cookies>>

\* Stack.Close: the tables are detached in one section.  closeCh, closed there
\* too, ends every actor by itself.
StackClose ==
    /\ ~closed /\ closed' = TRUE
    /\ tcp' = [k \in Keys |-> None] /\ active' = 0
    /\ UNCHANGED <<passive, dispatch, listenerVars, conn, writer, accepter, cookies>>
-----------------------------------------------------------------------------
(* handleTCP for a tuple without a connection. *)

Entries == {k \in Keys : tcp[k] # None}
Available == Cardinality(Entries) < MaxConnections

\* handleTCP and handleSegment look the connection up, load the dispatcher and
\* look the listener up under separate read locks.  This is the load of the
\* dispatcher.  The call may have begun when the tuple was free, whatever the
\* table says now, and whether there is a listener is asked again under Stack.mu.
Arrives(w, k, pc, l) ==
    /\ writer[w] = IdleWriter
    /\ writer' = [writer EXCEPT ![w] = [pc |-> pc, key |-> k, state |-> passive, listener |-> l]]
    /\ UNCHANGED <<stackVars, listenerVars, conn, accepter, cookies>>

\* handleSYN looks the listener up again under the lock.
ReceiveSYN(w, k) == Arrives(w, k, "syn", None)

\* validateSYNCookie: only a cookie of this very listener authenticates.  A
\* dispatcher that lost its last listener gets none again, so the one that has
\* this listener is still the one that was loaded.
ReceiveACK(w, k) ==
    /\ [key |-> k, listener |-> dispatch] \in cookies
    /\ Arrives(w, k, "ack", dispatch)

\* trackHandshake
BacklogOpen(l) == lstate[l] # "closed" /\ Cardinality(handshaking[l]) < Backlog
Track(l, c) ==
    /\ pending' = [pending EXCEPT ![l] = @ \cup {c}]
    /\ handshaking' = [handshaking EXCEPT ![l] = @ \cup {c}]

\* newTCPConn
Started(k, l, cookie) ==
    [Unused EXCEPT !.pc = "opening", !.key = k, !.listener = l, !.cookie = cookie]

\* What handleSYN and handleSYNCookieACK find when they have Stack.mu again.
StillDispatched(w) == tcp[writer[w].key] = None /\ ~closed /\ passive = writer[w].state

\* handleSYN under Stack.mu, with room for a stateful handshake ...
AdmitSYN(w, c) ==
    /\ writer[w].pc = "syn" /\ conn[c] = Unused
    /\ StillDispatched(w) /\ dispatch # None
    /\ Available /\ BacklogOpen(dispatch)
    /\ Track(dispatch, c)
    /\ conn' = [conn EXCEPT ![c] = Started(writer[w].key, dispatch, None)]
    /\ tcp' = [tcp EXCEPT ![writer[w].key] = c] /\ active' = active + 1
    /\ writer' = [writer EXCEPT ![w] = IdleWriter]
    /\ UNCHANGED <<closed, passive, dispatch, lstate, accept, toAbort, accepter, cookies>>

\* ... without room: a cookie of the listener registered now ...
RefuseSYN(w) ==
    /\ writer[w].pc = "syn"
    /\ StillDispatched(w) /\ dispatch # None
    /\ ~(Available /\ BacklogOpen(dispatch))
    /\ writer' = [writer EXCEPT ![w] = [@ EXCEPT !.pc = "cookie", !.state = 0, !.listener = dispatch]]
    /\ UNCHANGED <<stackVars, listenerVars, conn, accepter, cookies>>

\* ... or the tuple or the dispatcher has changed hands: the segment goes to
\* the connection, or is not handled here.
DropSYN(w) ==
    /\ writer[w].pc = "syn"
    /\ ~(StillDispatched(w) /\ dispatch # None)
    /\ writer' = [writer EXCEPT ![w] = IdleWriter]
    /\ UNCHANGED <<stackVars, listenerVars, conn, accepter, cookies>>

\* Listeners whose cookies can still be answered
Answerable == {l \in Listeners : lstate[l] \in {"open", "removed"}}

\* sendSYNCookie, without any lock; the output may have no room for it.
SendCookie(w) ==
    /\ writer[w].pc = "cookie"
    /\ LET l == writer[w].listener
       IN  cookies' \in {cookies} \cup
                {cookies \cup {[key |-> writer[w].key, listener |-> m]} : m \in {l} \cap Answerable}
    /\ writer' = [writer EXCEPT ![w] = IdleWriter]
    /\ UNCHANGED <<stackVars, listenerVars, conn, accepter>>

\* A cookie is good for the listener that validated it only.
SameListener(w) == dispatch # None /\ dispatch = writer[w].listener

\* Mutant: a cookie connection is not recorded as pending.
TrackCompletedNot(l, c) == UNCHANGED pending

\* trackCompleted: pending without a place in the SYN backlog
TrackCompleted(l, c) == pending' = [pending EXCEPT ![l] = @ \cup {c}]

\* handleSYNCookieACK under Stack.mu
AdmitACK(w, c) ==
    /\ writer[w].pc = "ack" /\ conn[c] = Unused
    /\ StillDispatched(w) /\ SameListener(w)
    /\ Available /\ lstate[dispatch] # "closed"
    /\ TrackCompleted(dispatch, c)
    /\ conn' = [conn EXCEPT ![c] = Started(writer[w].key, dispatch, writer[w].listener)]
    /\ tcp' = [tcp EXCEPT ![writer[w].key] = c] /\ active' = active + 1
    /\ writer' = [writer EXCEPT ![w] = IdleWriter]
    /\ UNCHANGED <<closed, passive, dispatch, lstate, handshaking, accept, toAbort,
                   accepter, cookies>>

DropACK(w) ==
    /\ writer[w].pc = "ack"
    /\ ~(StillDispatched(w) /\ SameListener(w) /\ Available /\ lstate[dispatch] # "closed")
    /\ writer' = [writer EXCEPT ![w] = IdleWriter]
    /\ UNCHANGED <<stackVars, listenerVars, conn, accepter, cookies>>
-----------------------------------------------------------------------------
(* The connection's actor: runPassive and runPassiveCookie. *)

\* TCPListener.enqueue, after passiveHandshake succeeded or, for a cookie, at
\* once; a refused connection is reset and finished.
Enqueue(c) ==
    LET l == conn[c].listener
        taken == lstate[l] # "closed" /\ Len(accept[l]) < AcceptCapacity
    IN  /\ conn[c].pc = "opening"
        /\ handshaking' = [handshaking EXCEPT ![l] = @ \ {c}]
        /\ accept' = IF taken THEN [accept EXCEPT ![l] = Append(@, c)] ELSE accept
        /\ conn' = [conn EXCEPT ![c].pc = IF taken THEN "established" ELSE "refused",
                                ![c].place = IF taken THEN "queue" ELSE "listener"]
        /\ UNCHANGED <<stackVars, lstate, pending, toAbort, writer, accepter, cookies>>

\* The application, which has the connection, closes first.
ToTimeWait(c) ==
    /\ conn[c].place = "application" /\ conn[c].pc = "established"
    /\ conn' = [conn EXCEPT ![c].pc = "timewait"]
    /\ UNCHANGED <<stackVars, listenerVars, writer, accepter, cookies>>

\* replaceTCPTimeWait, called by the actor in TIME-WAIT for a fresh SYN; the
\* old connection is aborted by its own actor.
ReplaceTimeWait(c, new) ==
    LET k == conn[c].key
    IN  /\ conn[c].pc = "timewait" /\ conn[c].aborted = "no" /\ conn[new] = Unused
        /\ tcp[k] = c /\ dispatch # None /\ ~closed
        /\ lstate[dispatch] # "closed" /\ c \notin pending[dispatch]
        /\ BacklogOpen(dispatch)
        /\ Track(dispatch, new)
        /\ conn' = [conn EXCEPT ![c] = Aborted(@, "replaced"),
                                ![new] = Started(k, dispatch, None)]
        /\ tcp' = [tcp EXCEPT ![k] = new]
        /\ UNCHANGED <<active, closed, passive, dispatch, lstate, accept, toAbort, writer,
                       accepter, cookies>>

\* Mutant: the entry is removed whoever owns it.
OwnsEntryUnchecked(c) == tcp[conn[c].key] # None

\* removeTCP compares identities.
OwnsEntry(c) == tcp[conn[c].key] = c

\* The actor ends, for a failed or refused handshake, the peer, a timer, an
\* abort or Stack.Close: finish, which touches nothing modelled here, and the
\* deferred removeTCP.
Finish(c) ==
    /\ \/ conn[c].pc \in {"established", "timewait", "refused"}
       \/ conn[c].pc = "opening" /\ conn[c].cookie = None
    /\ tcp' = IF OwnsEntry(c) THEN [tcp EXCEPT ![conn[c].key] = None] ELSE tcp
    /\ active' = IF OwnsEntry(c) THEN active - 1 ELSE active
    /\ conn' = [conn EXCEPT ![c] = IF @.place # "listener" THEN Dead ELSE [@ EXCEPT !.pc = "removed"]]
    /\ UNCHANGED <<closed, passive, dispatch, listenerVars, writer, accepter, cookies>>

\* removePending
Released(l, c) ==
    /\ pending' = [pending EXCEPT ![l] = @ \ {c}]
    /\ handshaking' = [handshaking EXCEPT ![l] = @ \ {c}]

\* The deferred removal of a connection that was never queued.
RemovePending(c) ==
    /\ conn[c].pc = "removed"
    /\ conn' = [conn EXCEPT ![c] = Dead]
    /\ Released(conn[c].listener, c)
    /\ UNCHANGED <<stackVars, lstate, accept, toAbort, writer, accepter, cookies>>
-----------------------------------------------------------------------------
(* Accept. *)

\* A call that has been waiting receives from the channel.  Calls may be waiting
\* on any listener at any time, and a call that gives up, for its deadline or a
\* closed listener, leaves no trace.  The channel outlives Close for them.
AcceptTake(a, l) ==
    /\ accepter[a] = IdleAccepter /\ accept[l] # <<>>
    /\ accept' = [accept EXCEPT ![l] = Tail(@)]
    /\ accepter' = [accepter EXCEPT ![a] = [pc |-> "taken", listener |-> l, conn |-> Head(accept[l])]]
    /\ UNCHANGED <<stackVars, lstate, pending, handshaking, toAbort, conn, writer, cookies>>

\* The second look at l.closed
MayReturn(l) == lstate[l] # "closed"

AcceptReturn(a) ==
    /\ accepter[a].pc = "taken"
    /\ LET l == accepter[a].listener
           c == accepter[a].conn
       IN  IF MayReturn(l)
           THEN /\ pending' = [pending EXCEPT ![l] = @ \ {c}]
                /\ conn' = [conn EXCEPT ![c] = IF @ = Dead THEN Dead ELSE [@ EXCEPT !.place = "application"]]
           ELSE UNCHANGED <<pending, conn>>
    /\ accepter' = [accepter EXCEPT ![a] = IdleAccepter]
    /\ UNCHANGED <<stackVars, lstate, handshaking, accept, toAbort, writer, cookies>>

ListenerStep(l) == Listen(l) \/ Unregister(l) \/ Publish(l) \/ (\E c \in Conns : AbortNext(l, c))
WriterStep(w) ==
    \/ \E k \in Keys : ReceiveSYN(w, k) \/ ReceiveACK(w, k)
    \/ \E c \in Conns : AdmitSYN(w, c) \/ AdmitACK(w, c)
    \/ RefuseSYN(w) \/ DropSYN(w) \/ SendCookie(w) \/ DropACK(w)
ActorStep(c) ==
    \/ Enqueue(c) \/ ToTimeWait(c) \/ (\E new \in Conns : ReplaceTimeWait(c, new))
    \/ Finish(c) \/ RemovePending(c)
AccepterStep(a) == (\E l \in Listeners : AcceptTake(a, l)) \/ AcceptReturn(a)
Next ==
    \/ \E l \in Listeners : ListenerStep(l)
    \/ StackClose
    \/ \E w \in Writers : WriterStep(w)
    \/ \E c \in Conns : ActorStep(c)
    \/ \E a \in Accepters : AccepterStep(a)

Spec == Init /\ [][Next]_vars
-----------------------------------------------------------------------------
StackTypeOK ==
    /\ tcp \in [Keys -> Conns \cup {None}] /\ active \in Int /\ closed \in BOOLEAN
    /\ passive \in Nat /\ dispatch \in Listeners \cup {None}
ListenerTypeOK ==
    /\ lstate \in [Listeners -> {"new", "open", "removed", "closed"}]
    /\ pending \in [Listeners -> SUBSET Conns] /\ handshaking \in [Listeners -> SUBSET Conns]
    /\ accept \in [Listeners -> Seq(Conns)] /\ toAbort \in [Listeners -> SUBSET Conns]
ConnRecords ==
    [pc : {"unused", "opening", "established", "timewait", "refused", "removed", "dead"},
     key : Keys \cup {None}, listener : Listeners \cup {None}, cookie : Listeners \cup {None},
     place : {"listener", "queue", "application"}, aborted : {"no", "close", "replaced"}]
ConnTypeOK == conn \in [Conns -> ConnRecords]
CallTypeOK ==
    /\ writer \in [Writers -> {IdleWriter} \cup
                      [pc : {"syn", "ack", "cookie"}, key : Keys, state : Nat,
                       listener : Listeners \cup {None}]]
    /\ accepter \in [Accepters -> {IdleAccepter} \cup
                        [pc : {"taken"}, listener : Listeners, conn : Conns]]
    /\ cookies \subseteq [key : Keys, listener : Listeners]

\* Every variable has its type.
TypeOK == StackTypeOK /\ ListenerTypeOK /\ ConnTypeOK /\ CallTypeOK

Running == {c \in Conns : conn[c].pc \in {"opening", "established", "timewait", "refused"}}
Held(l) == {accepter[a].conn : a \in {b \in Accepters : accepter[b].pc = "taken" /\ accepter[b].listener = l}}
Queue(l) == {accept[l][i] : i \in DOMAIN accept[l]}

\* The variables have their types.  On an open stack the table and the actors
\* agree: every running connection
\* that was not replaced is the owner of its tuple, every entry belongs to a
\* running actor, and the activity count and the connection limit are exact,
\* although a replaced TIME-WAIT actor and its successor share a tuple and both
\* come to removeTCP.  Nothing enters the table of a closed stack, which is nil.
TableSound ==
    /\ TypeOK
    /\ closed => Entries = {}
    /\ ~closed =>
        /\ \A c \in Running : conn[c].aborted # "replaced" => tcp[conn[c].key] = c
        /\ \A k \in Entries : tcp[k] \in Running /\ conn[tcp[k]].key = k
        /\ active = Cardinality(Entries) /\ active <= MaxConnections

\* The SYN backlog counts exactly connections on their way to the accept queue,
\* each of which still has the step before it that gives its place back; pending
\* holds what Close would have to abort and nothing Accept has returned.
PendingSound ==
    \A l \in Listeners :
        /\ Cardinality(handshaking[l]) <= Backlog /\ handshaking[l] \subseteq pending[l]
        /\ \A c \in handshaking[l] : conn[c].pc \in {"opening", "removed"}
        /\ \A c \in pending[l] :
              /\ conn[c].place # "application" /\ (conn[c] # Dead => conn[c].listener = l)
              /\ (conn[c].place = "queue" \/ conn[c] = Dead) => c \in Queue(l) \cup Held(l)
        /\ lstate[l] # "closed" => Queue(l) \cup Held(l) \subseteq pending[l]

\* Once Close has finished, no connection it never handed out lives on: each
\* was aborted, whatever SYN, cookie ACK, enqueue or Accept was under way.
NothingAbandoned ==
    \A l \in Listeners, c \in Conns :
        (/\ lstate[l] = "closed" /\ toAbort[l] = {}
         /\ conn[c].listener = l /\ conn[c].place # "application"
         /\ conn[c].pc \in {"opening", "established", "timewait"})
            => conn[c].aborted # "no"

\* "Close stops listening without closing connections already returned by
\* Accept": a connection is returned or aborted by Close, never both.
AcceptedSurviveClose ==
    \A c \in Conns :
        conn[c].place = "application" => /\ conn[c].aborted # "close"
                                         /\ \A l \in Listeners : c \notin toAbort[l]

\* A connection made from a cookie belongs to the listener whose cookie it was,
\* not to one that replaced it between validation and admission.
CookieOfThisListener ==
    \A c \in Conns : conn[c].cookie \in {None, conn[c].listener}

\* Every admission, by SYN or by cookie, leaves the connection table, the two
\* counts of the listener and the owner of the connection in agreement.
AdmissionSound == TableSound /\ PendingSound /\ CookieOfThisListener

\* Close ends exactly what Accept never returned.
CloseIsExact == NothingAbandoned /\ AcceptedSurviveClose
=============================================================================
