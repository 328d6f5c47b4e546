------------------------------ MODULE Forwarder ------------------------------
(***************************************************************************)
(* One fallback forwarder (forwarder.go): the request a handler decides,   *)
(* the endpoints it accepts and the responders it detaches, against        *)
(* Close, Stack.Close and UpdateConfig.  The four kinds share one request  *)
(* machine; `protocol` says which of them runs and the guards say how they *)
(* differ.  One step is one critical section (Stack.mu or forwarder.mu) or *)
(* one compare-and-swap.                                                   *)
(***************************************************************************)
EXTENDS Integers, FiniteSets

CONSTANTS
    Requests,     \* request objects; each is used once
    Flows,        \* four-tuples
    Locals,       \* destinations
    LocalOf,      \* the destination of a flow
    Writers,      \* concurrent inbound packets
    Updaters,     \* UpdateConfig calls, one each
    Networks,     \* admitted destinations of the configurations
    Kinds,        \* the kinds of forwarder that are started
    MaxInFlight,  \* bound of undecided TCP requests
    None

ASSUME KnownKinds == Kinds \subseteq {"tcp", "udp", "ip", "icmp"}
ASSUME FlowLocals == LocalOf \in [Flows -> Locals]
ASSUME KnownNetworks == Networks \subseteq SUBSET Locals
\* A tuple, a destination and the absence of one are told apart.
ASSUME DistinctScopes == Flows \cap Locals = {} /\ None \notin Flows

VARIABLES
    protocol,    \* "tcp", "udp", "ip" or "icmp"
    installed,   \* Stack.xForwarder is this forwarder
    closed,      \* forwarderRuntime.closed
    stackClosed, \* Stack.closed
    network,     \* destinations the published configuration admits
    requests,    \* forwarder.requests
    handlers,    \* TCPForwarder.handlers
    state, flow, \* per request
    doneClosed,  \* TCPForwarderRequest.done is closed
    call,        \* the terminal call in progress: what it does next
    reply,       \* a Reply between beginReply and its output
    handler,     \* "none", "runs", "leaving", "cancel", "gone"
    counted,     \* how often a terminal counter was incremented for a request
    endpoint,    \* the connection a request created: none, open, closed
    scope,       \* what that connection is bound to: a flow or a local
    table,       \* requests whose connection is in Stack.udpForwarded or tcp
    responder,   \* the detached responder's state
    writer,      \* captured lookups of inbound packets
    closer,      \* progress of Close or Stack.Close
    updater      \* progress of the UpdateConfig calls

requestVars == <<requests, handlers, state, flow, doneClosed, counted>>
handlerVars == <<call, reply, handler>>
endpointVars == <<endpoint, scope, table>>
stackVars == <<protocol, installed, closed, stackClosed, network>>
actorVars == <<writer, closer, updater>>
vars == <<stackVars, requestVars, handlerVars, endpointVars, responder, actorVars>>

Terminal == {"detached", "accepted", "dropped", "rejected", "completed"}
ReplyCapable == protocol # "tcp"
Keyed == protocol \in {"tcp", "udp"}
\* The states from which a terminal action may be claimed; a TCP request has no
\* replies.
Undecided == IF ReplyCapable THEN {"pending", "replyStarted"} ELSE {"pending"}

RequestTypeOK ==
    /\ requests \subseteq Requests /\ handlers \subseteq Requests /\ table \subseteq Requests
    /\ state \in [Requests -> Terminal \cup {"free", "pending", "claimed", "replyStarted"}]
    /\ flow \in [Requests -> Flows \cup {None}]
    /\ call \in [Requests -> {"none", "accept", "listen", "detach", "detachForReplies",
                              "handshake", "drop", "finish", "remove", "forget"}]
    /\ handler \in [Requests -> {"none", "runs", "leaving", "cancel", "gone"}]
    /\ counted \in [Requests -> Nat]
    /\ endpoint \in [Requests -> {"none", "open", "closed"}]
    /\ scope \in [Requests -> Flows \cup Locals \cup {None}]
    /\ responder \in [Requests -> {"none", "active", "repliesOnly", "dropped", "rejected"}]

FlagsTypeOK ==
    /\ installed \in BOOLEAN /\ closed \in BOOLEAN /\ stackClosed \in BOOLEAN
    /\ doneClosed \in [Requests -> BOOLEAN]
    /\ reply \in [Requests -> BOOLEAN]

ActorTypeOK ==
    /\ protocol \in {"tcp", "udp", "ip", "icmp"}
    /\ network \subseteq Locals
    /\ writer \in [Writers -> Flows \cup {None}]
    /\ closer \in [step : {"idle", "lock", "drop", "done"}, snapshot : SUBSET Requests,
                   running : SUBSET Requests, conns : SUBSET Requests]
    /\ updater \in [Updaters -> [step : {"idle", "scan", "conns", "done"},
                                 net : SUBSET Locals, conns : SUBSET Requests]]

TypeOK == RequestTypeOK /\ FlagsTypeOK /\ ActorTypeOK

Init ==
    /\ protocol \in Kinds
    /\ installed = TRUE /\ closed = FALSE /\ stackClosed = FALSE
    /\ network = Locals
    /\ requests = {} /\ handlers = {} /\ table = {}
    /\ state = [r \in Requests |-> "free"]
    /\ flow = [r \in Requests |-> None]
    /\ doneClosed = [r \in Requests |-> FALSE]
    /\ counted = [r \in Requests |-> 0]
    /\ call = [r \in Requests |-> "none"]
    /\ reply = [r \in Requests |-> FALSE]
    /\ handler = [r \in Requests |-> "none"]
    /\ endpoint = [r \in Requests |-> "none"]
    /\ scope = [r \in Requests |-> None]
    /\ responder = [r \in Requests |-> "none"]
    /\ writer = [w \in Writers |-> None]
    /\ closer = [step |-> "idle", snapshot |-> {}, running |-> {}, conns |-> {}]
    /\ updater = [u \in Updaters |-> [step |-> "idle", net |-> {}, conns |-> {}]]

(***************************************************************************)
(* Inbound dispatch: the lookup under Stack.mu, then the forwarder's own   *)
(* admission under its lock.                                               *)
(***************************************************************************)
\* The connection that owns a flow: an exact one or a local one.
Owners(f) == {r \in table : scope[r] \in {f, LocalOf[f]}}

Lookup(w, f) ==
    /\ writer[w] = None
    /\ ~stackClosed /\ installed
    /\ LocalOf[f] \in network
    /\ Owners(f) = {}
    /\ writer' = [writer EXCEPT ![w] = f]
    /\ UNCHANGED <<stackVars, requestVars, handlerVars, endpointVars, responder, closer, updater>>

\* Mutant: admitSegment trusts the admission decided at lookup.
PolicyDropsUnchecked(f) == protocol = "tcp" /\ Cardinality(requests) >= MaxInFlight

\* What each kind refuses: a flow that already has a request; for TCP also a
\* full request set or a destination that is no longer admitted.
Coalesced(f) == Keyed /\ \E r \in requests : flow[r] = f
PolicyDrops(f) ==
    /\ protocol = "tcp"
    /\ \/ Cardinality(requests) >= MaxInFlight
       \/ LocalOf[f] \notin network

HandlePacketRefuses(w) ==
    /\ writer[w] # None
    /\ closed \/ Coalesced(writer[w]) \/ PolicyDrops(writer[w])
    /\ writer' = [writer EXCEPT ![w] = None]
    /\ UNCHANGED <<stackVars, requestVars, handlerVars, endpointVars, responder, closer, updater>>

HandlePacket(w, r) ==
    /\ writer[w] # None
    /\ ~closed /\ ~Coalesced(writer[w]) /\ ~PolicyDrops(writer[w])
    /\ state[r] = "free"
    /\ state' = [state EXCEPT ![r] = "pending"]
    /\ flow' = [flow EXCEPT ![r] = writer[w]]
    /\ requests' = requests \cup {r}
    /\ handlers' = IF protocol = "tcp" THEN handlers \cup {r} ELSE handlers
    /\ handler' = [handler EXCEPT ![r] = "runs"]
    /\ writer' = [writer EXCEPT ![w] = None]
    /\ UNCHANGED <<stackVars, doneClosed, counted, call, reply, endpointVars, responder,
                   closer, updater>>

(***************************************************************************)
(* The request's actions.  A terminal transition is one compare-and-swap;  *)
(* remove and count follow as a separate step of the same call.            *)
(***************************************************************************)
Complete(r, outcome) ==
    /\ handler[r] = "runs" /\ call[r] = "none"
    /\ state[r] \in Undecided
    /\ state' = [state EXCEPT ![r] = outcome]
    /\ call' = [call EXCEPT ![r] = "remove"]
    /\ UNCHANGED <<stackVars, requests, handlers, flow, doneClosed, counted, reply, handler,
                   endpointVars, responder, actorVars>>

Claim(r, operation) ==
    /\ handler[r] = "runs" /\ call[r] = "none"
    /\ operation \in CASE protocol = "tcp" -> {"accept"}
                       [] protocol = "udp" -> {"accept", "listen", "detach", "detachForReplies"}
                       [] OTHER -> {"detach", "detachForReplies"}
    /\ state[r] \in Undecided
    /\ state' = [state EXCEPT ![r] = "claimed"]
    /\ call' = [call EXCEPT ![r] = operation]
    /\ UNCHANGED <<stackVars, requests, handlers, flow, doneClosed, counted, reply, handler,
                   endpointVars, responder, actorVars>>

\* acceptTCP, acceptUDP and listenUDP under Stack.mu: what the new endpoint
\* would be bound to and who already holds it.
Wanted(r) == IF call[r] = "listen" THEN LocalOf[flow[r]] ELSE flow[r]

Conflict(r) ==
    IF call[r] = "listen"
    THEN \E q \in table : LocalOf[flow[q]] = LocalOf[flow[r]]
    ELSE Owners(flow[r]) # {}

MayRegister(r) ==
    /\ ~stackClosed /\ installed
    /\ LocalOf[flow[r]] \in network
    /\ ~Conflict(r)

Register(r) ==
    /\ call[r] \in {"accept", "listen"}
    /\ MayRegister(r)
    /\ endpoint' = [endpoint EXCEPT ![r] = "open"]
    /\ scope' = [scope EXCEPT ![r] = Wanted(r)]
    /\ table' = table \cup {r}
    /\ call' = [call EXCEPT ![r] = IF protocol = "tcp" THEN "forget" ELSE "finish"]
    /\ UNCHANGED <<stackVars, requestVars, reply, handler, responder, actorVars>>

\* Any of its errors, among them the ones outside this model: no route, an
\* ordinary binding of the same port, the connection limit.
RegisterFails(r) ==
    /\ call[r] \in {"accept", "listen"}
    /\ call' = [call EXCEPT ![r] = "drop"]
    /\ UNCHANGED <<stackVars, requestVars, reply, handler, endpointVars, responder, actorVars>>

\* acceptTCP takes the request out of the set as soon as the tuple has an owner.
Forget(r) ==
    /\ call[r] = "forget"
    /\ requests' = requests \ {r}
    /\ call' = [call EXCEPT ![r] = "handshake"]
    /\ UNCHANGED <<stackVars, handlers, state, flow, doneClosed, counted, reply, handler,
                   endpointVars, responder, actorVars>>

\* The handshake succeeded.
HandshakeDone(r) ==
    /\ call[r] = "handshake"
    /\ call' = [call EXCEPT ![r] = "finish"]
    /\ UNCHANGED <<stackVars, requestVars, reply, handler, endpointVars, responder, actorVars>>

\* Mutant: the canceled Accept returns without aborting its connection.
HandshakeAbandoned(r) ==
    /\ call[r] = "handshake"
    /\ call' = [call EXCEPT ![r] = "drop"]
    /\ UNCHANGED <<stackVars, requestVars, reply, handler, endpointVars, responder, actorVars>>

\* It failed, the handler's context ended or the stack closed: the connection is
\* aborted.
HandshakeFails(r) ==
    /\ call[r] = "handshake"
    /\ endpoint' = [endpoint EXCEPT ![r] = "closed"]
    /\ call' = [call EXCEPT ![r] = "drop"]
    /\ UNCHANGED <<stackVars, requestVars, reply, handler, scope, table, responder, actorVars>>

\* The actor of an ended TCP connection leaves the table (removeTCP).
RemoveTCP(r) ==
    /\ protocol = "tcp" /\ endpoint[r] = "closed" /\ r \in table
    /\ table' = table \ {r}
    /\ UNCHANGED <<stackVars, requestVars, handlerVars, endpoint, scope, responder, actorVars>>

\* finish: the claimed request's result is stored.
Finish(r) ==
    /\ call[r] \in {"drop", "finish"}
    /\ state' = [state EXCEPT ![r] = IF call[r] = "drop" THEN "dropped" ELSE "accepted"]
    /\ call' = [call EXCEPT ![r] = "remove"]
    /\ UNCHANGED <<stackVars, requests, handlers, flow, doneClosed, counted, reply, handler,
                   endpointVars, responder, actorVars>>

\* remove, then count: nothing reads the counters in between.
Remove(r) ==
    /\ call[r] = "remove"
    /\ requests' = requests \ {r}
    /\ counted' = [counted EXCEPT ![r] = @ + IF state[r] = "completed" THEN 0 ELSE 1]
    /\ call' = [call EXCEPT ![r] = "none"]
    /\ UNCHANGED <<stackVars, handlers, state, flow, doneClosed, reply, handler,
                   endpointVars, responder, actorVars>>

\* Mutant: detach publishes the responder and leaves the request in the set.
DetachKeepsRequest(r) ==
    /\ call[r] \in {"detach", "detachForReplies"}
    /\ ~closed /\ LocalOf[flow[r]] \in network
    /\ call' = [call EXCEPT ![r] = "none"]
    /\ state' = [state EXCEPT ![r] = "detached"]
    /\ responder' = [responder EXCEPT ![r] = IF call[r] = "detach" THEN "active" ELSE "repliesOnly"]
    /\ UNCHANGED <<stackVars, requests, handlers, flow, doneClosed, counted, reply, handler,
                   endpointVars, actorVars>>

\* detach holds forwarder.mu throughout; one that is refused drops the request.
Detach(r) ==
    /\ call[r] \in {"detach", "detachForReplies"}
    /\ ~closed /\ LocalOf[flow[r]] \in network
    /\ call' = [call EXCEPT ![r] = "none"]
    /\ requests' = requests \ {r}
    /\ state' = [state EXCEPT ![r] = "detached"]
    /\ responder' = [responder EXCEPT ![r] = IF call[r] = "detach" THEN "active" ELSE "repliesOnly"]
    /\ UNCHANGED <<stackVars, handlers, flow, doneClosed, counted, reply, handler,
                   endpointVars, actorVars>>

DetachRefused(r) ==
    /\ call[r] \in {"detach", "detachForReplies"}
    /\ closed \/ LocalOf[flow[r]] \notin network
    /\ call' = [call EXCEPT ![r] = "drop"]
    /\ UNCHANGED <<stackVars, requestVars, reply, handler, endpointVars, responder, actorVars>>

BeginReply(r) ==
    /\ ReplyCapable
    /\ handler[r] = "runs" /\ ~reply[r]
    /\ state[r] \in Undecided
    /\ state' = [state EXCEPT ![r] = "replyStarted"]
    /\ reply' = [reply EXCEPT ![r] = TRUE]
    /\ UNCHANGED <<stackVars, requests, handlers, flow, doneClosed, counted, call, handler,
                   endpointVars, responder, actorVars>>

\* A reply that began may finish whatever the request became meanwhile.
EndReply(r) ==
    /\ reply[r]
    /\ reply' = [reply EXCEPT ![r] = FALSE]
    /\ UNCHANGED <<stackVars, requestVars, call, handler, endpointVars, responder, actorVars>>

(***************************************************************************)
(* The handler returns: every call it made has ended.                      *)
(***************************************************************************)
HandlerReturns(r) ==
    /\ handler[r] = "runs" /\ call[r] = "none" /\ ~reply[r]
    /\ handler' = [handler EXCEPT ![r] = "leaving"]
    /\ state' = [state EXCEPT ![r] = CASE @ = "pending" -> "dropped"
                                       [] @ = "replyStarted" -> "completed"
                                       [] OTHER -> @]
    /\ call' = [call EXCEPT ![r] = IF state[r] \in {"pending", "replyStarted"} THEN "remove" ELSE "none"]
    /\ UNCHANGED <<stackVars, requests, handlers, flow, doneClosed, counted, reply,
                   endpointVars, responder, actorVars>>

\* The deferred rest of the TCP goroutine; the other kinds are done.
HandlerCancels(r) ==
    /\ handler[r] = "leaving" /\ call[r] = "none"
    /\ handler' = [handler EXCEPT ![r] = IF protocol = "tcp" THEN "cancel" ELSE "gone"]
    /\ doneClosed' = [doneClosed EXCEPT ![r] = @ \/ protocol = "tcp"]
    /\ UNCHANGED <<stackVars, requests, handlers, state, flow, counted, call, reply,
                   endpointVars, responder, actorVars>>

RemoveHandler(r) ==
    /\ handler[r] = "cancel"
    /\ handler' = [handler EXCEPT ![r] = "gone"]
    /\ handlers' = handlers \ {r}
    /\ UNCHANGED <<stackVars, requests, state, flow, doneClosed, counted, call, reply,
                   endpointVars, responder, actorVars>>

(***************************************************************************)
(* A detached responder, used by any goroutine after the handler.          *)
(***************************************************************************)
RestrictToReplies(r) ==
    /\ responder[r] = "active"
    /\ responder' = [responder EXCEPT ![r] = "repliesOnly"]
    /\ UNCHANGED <<stackVars, requestVars, handlerVars, endpointVars, actorVars>>

ResponderFinish(r, outcome) ==
    /\ responder[r] = "active"
    /\ responder' = [responder EXCEPT ![r] = outcome]
    /\ counted' = [counted EXCEPT ![r] = @ + 1]
    /\ UNCHANGED <<stackVars, requests, handlers, state, flow, doneClosed, handlerVars,
                   endpointVars, actorVars>>

(***************************************************************************)
(* The accepted connections, closed by their owner, Close, Stack.Close and *)
(* UpdateConfig.                                                           *)
(***************************************************************************)
\* closeUDP takes the connection out of the table; a TCP actor does it itself.
AfterClosing(r) == IF protocol = "tcp" THEN table ELSE table \ {r}

CloseEndpoint(r) ==
    /\ endpoint[r] = "open" /\ state[r] = "accepted"
    /\ endpoint' = [endpoint EXCEPT ![r] = "closed"]
    /\ table' = AfterClosing(r)
    /\ UNCHANGED <<stackVars, requestVars, handlerVars, scope, responder, actorVars>>

\* Close and the first part of Stack.Close: unregister under Stack.mu.
BeginClose ==
    /\ closer.step = "idle" /\ installed
    /\ installed' = FALSE
    /\ closer' = [closer EXCEPT !.step = "lock"]
    /\ UNCHANGED <<protocol, closed, stackClosed, network, requestVars, handlerVars,
                   endpointVars, responder, writer, updater>>

BeginStackClose ==
    /\ closer.step = "idle"
    /\ ~stackClosed
    /\ stackClosed' = TRUE
    /\ installed' = FALSE
    /\ table' = {}
    /\ closer' = [closer EXCEPT !.step = "lock", !.conns = table]
    /\ UNCHANGED <<protocol, closed, network, requestVars, handlerVars, endpoint, scope,
                   responder, writer, updater>>

\* Mutant: Close counts every request of its snapshot as dropped.
CloseDropCountsAll(r) ==
    /\ closer.step = "drop" /\ r \in closer.snapshot
    /\ state' = [state EXCEPT ![r] = CASE @ = "pending" -> "dropped"
                                       [] @ = "replyStarted" -> "completed"
                                       [] OTHER -> @]
    /\ counted' = [counted EXCEPT ![r] = @ + 1]
    /\ closer' = [closer EXCEPT !.snapshot = @ \ {r}]
    /\ UNCHANGED <<stackVars, requests, handlers, flow, doneClosed, handlerVars,
                   endpointVars, responder, writer, updater>>

\* closeFromStack under forwarder.mu.
CloseSnapshot ==
    /\ closer.step = "lock"
    /\ closed' = TRUE
    /\ closer' = [closer EXCEPT !.step = "drop", !.snapshot = requests, !.running = handlers]
    /\ requests' = {} /\ handlers' = {}
    /\ UNCHANGED <<protocol, installed, stackClosed, network, state, flow, doneClosed, counted,
                   handlerVars, endpointVars, responder, writer, updater>>

CloseDrop(r) ==
    /\ closer.step = "drop" /\ r \in closer.snapshot
    /\ state' = [state EXCEPT ![r] = CASE @ = "pending" -> "dropped"
                                       [] @ = "replyStarted" -> "completed"
                                       [] OTHER -> @]
    /\ counted' = [counted EXCEPT ![r] = @ + IF state[r] = "pending" THEN 1 ELSE 0]
    /\ closer' = [closer EXCEPT !.snapshot = @ \ {r}]
    /\ UNCHANGED <<stackVars, requests, handlers, flow, doneClosed, handlerVars,
                   endpointVars, responder, writer, updater>>

CloseCancel(r) ==
    /\ closer.step = "drop" /\ closer.snapshot = {} /\ r \in closer.running
    /\ doneClosed' = [doneClosed EXCEPT ![r] = TRUE]
    /\ closer' = [closer EXCEPT !.running = @ \ {r}]
    /\ UNCHANGED <<stackVars, requests, handlers, state, flow, counted, handlerVars,
                   endpointVars, responder, writer, updater>>

CloseConnection(r) ==
    /\ closer.step = "drop" /\ closer.snapshot = {} /\ closer.running = {} /\ r \in closer.conns
    /\ endpoint' = [endpoint EXCEPT ![r] = "closed"]
    /\ closer' = [closer EXCEPT !.conns = @ \ {r}]
    /\ UNCHANGED <<stackVars, requestVars, handlerVars, scope, table, responder, writer, updater>>

CloseEnds ==
    /\ closer.step = "drop"
    /\ closer.snapshot = {} /\ closer.running = {} /\ closer.conns = {}
    /\ closer' = [closer EXCEPT !.step = IF stackClosed THEN "done" ELSE "idle"]
    /\ UNCHANGED <<stackVars, requestVars, handlerVars, endpointVars, responder, writer, updater>>

\* UpdateConfig: publish the configuration and take the snapshots.
StoreNetwork(u, admitted) ==
    /\ updater[u].step = "idle" /\ ~stackClosed
    /\ network' = admitted
    /\ updater' = [updater EXCEPT ![u] = [step |-> IF installed THEN "scan" ELSE "conns",
                                          net |-> admitted, conns |-> table]]
    /\ UNCHANGED <<protocol, installed, closed, stackClosed, requestVars, handlerVars,
                   endpointVars, responder, writer, closer>>

Withdrawn(u) == {r \in requests : LocalOf[flow[r]] \notin updater[u].net}

\* The forwarder's own updateConfig, under forwarder.mu.
ScanRequests(u) ==
    /\ updater[u].step = "scan"
    /\ LET drops == {r \in Withdrawn(u) : state[r] = "pending"}
           ends == {r \in Withdrawn(u) : state[r] = "replyStarted"}
       IN /\ state' = [r \in Requests |-> CASE r \in drops -> "dropped"
                                            [] r \in ends -> "completed"
                                            [] OTHER -> state[r]]
          /\ counted' = [r \in Requests |-> counted[r] + IF r \in drops THEN 1 ELSE 0]
          /\ requests' = requests \ (drops \cup ends)
          /\ doneClosed' = [r \in Requests |-> doneClosed[r] \/ (protocol = "tcp" /\ r \in drops)]
    /\ updater' = [updater EXCEPT ![u].step = "conns"]
    /\ UNCHANGED <<stackVars, handlers, flow, handlerVars, endpointVars, responder, writer, closer>>

CloseWithdrawn(u, r) ==
    /\ updater[u].step = "conns" /\ r \in updater[u].conns
    /\ updater' = [updater EXCEPT ![u].conns = @ \ {r}]
    /\ IF LocalOf[flow[r]] \in updater[u].net
       THEN UNCHANGED <<endpoint, table>>
       ELSE /\ endpoint' = [endpoint EXCEPT ![r] = "closed"]
            /\ table' = AfterClosing(r)
    /\ UNCHANGED <<stackVars, requestVars, handlerVars, scope, responder, writer, closer>>

UpdateEnds(u) ==
    /\ updater[u].step = "conns" /\ updater[u].conns = {}
    /\ updater' = [updater EXCEPT ![u].step = "done"]
    /\ UNCHANGED <<stackVars, requestVars, handlerVars, endpointVars, responder, writer, closer>>

Next ==
    \/ \E w \in Writers, f \in Flows : Lookup(w, f)
    \/ \E w \in Writers : HandlePacketRefuses(w)
    \/ \E w \in Writers, r \in Requests : HandlePacket(w, r)
    \/ \E r \in Requests :
        \/ Complete(r, "dropped") \/ Complete(r, "rejected")
        \/ \E operation \in {"accept", "listen", "detach", "detachForReplies"} : Claim(r, operation)
        \/ Register(r) \/ RegisterFails(r) \/ Forget(r) \/ HandshakeDone(r) \/ HandshakeFails(r) \/ RemoveTCP(r)
        \/ Finish(r) \/ Remove(r) \/ Detach(r) \/ DetachRefused(r)
        \/ BeginReply(r) \/ EndReply(r)
        \/ HandlerReturns(r) \/ HandlerCancels(r) \/ RemoveHandler(r)
        \/ RestrictToReplies(r)
        \/ ResponderFinish(r, "dropped") \/ ResponderFinish(r, "rejected")
        \/ CloseEndpoint(r)
        \/ CloseDrop(r) \/ CloseCancel(r) \/ CloseConnection(r)
    \/ BeginClose \/ BeginStackClose \/ CloseSnapshot \/ CloseEnds
    \/ \E u \in Updaters :
        \/ \E admitted \in Networks : StoreNetwork(u, admitted)
        \/ ScanRequests(u) \/ UpdateEnds(u)
        \/ \E r \in Requests : CloseWithdrawn(u, r)

Spec == Init /\ [][Next]_vars

-----------------------------------------------------------------------------
Updating == \E u \in Updaters : updater[u].step \in {"scan", "conns"}

\* A request is decided exactly once: what it became is counted once, by its
\* own call, by Close or by UpdateConfig, whichever won the compare-and-swap,
\* and a request that only replied or was handed to a responder not at all
\* until the responder ends (forwarderRuntime.count and the direct increments).
DecidedOnce ==
    \A r \in Requests :
        /\ counted[r] <= 1
        /\ state[r] = "completed" => counted[r] = 0
        /\ handler[r] = "gone" /\ closer.step # "drop" =>
              counted[r] = CASE state[r] \in {"accepted", "dropped", "rejected"} -> 1
                             [] state[r] = "detached" -> IF responder[r] \in {"dropped", "rejected"} THEN 1 ELSE 0
                             [] OTHER -> 0

\* A request leaves the undecided set when its handler is gone, whichever of
\* the handler, Close and UpdateConfig decided it: a request left behind would
\* swallow the flow's packets or hold a place of MaxInFlight for ever.  A handler
\* that outlives a closed TCP forwarder has been told (TCPForwarderRequest.Done),
\* also one whose request was decided before.
NothingLeftBehind ==
    \A r \in Requests :
        /\ handler[r] = "gone" => r \notin requests \cup handlers
        /\ r \in requests => state[r] \in {"pending", "replyStarted", "claimed"} \/ call[r] = "remove"
        /\ protocol = "tcp" /\ closed /\ closer.step # "drop" /\ handler[r] = "runs" => doneClosed[r]

\* A connection that Accept did not return is not left in the stack, and no two
\* connections receive the same flow.
EndpointsOwned ==
    /\ \A r \in Requests : handler[r] = "gone" /\ endpoint[r] = "open" => state[r] = "accepted"
    /\ \A f \in Flows : Cardinality(Owners(f)) <= 1
    /\ closer.step = "done" => \A r \in Requests : endpoint[r] # "open"

\* When no update is under way, no connection is bound to a destination that
\* is not admitted, and no undecided TCP request waits for one ("Rechecking here
\* prevents an in-flight SYN from adding an invalid request after the scan",
\* forwarder.go): the configuration is published before requests and
\* connections are looked at.
UpdateIsComplete ==
    ~Updating =>
        /\ \A r \in table : endpoint[r] = "open" => LocalOf[flow[r]] \in network
        /\ protocol = "tcp" /\ closer.step # "lock" =>
              \A r \in requests : state[r] = "pending" => LocalOf[flow[r]] \in network
=============================================================================
