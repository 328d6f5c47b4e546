----------------------------- MODULE Endpoints -----------------------------
(***************************************************************************)
(* The socket tables of one Stack and the configuration they are checked   *)
(* against: ListenUDP, DialUDP, ListenTCP, DialTCP, ListenIP and DialIP    *)
(* register sockets, a SYN registers the child of a listener, Close and    *)
(* UpdateConfig remove them, and Stack.Close detaches everything           *)
(* (stack.go, udp.go, ip.go, tcp.go, reuse.go).                            *)
(*                                                                         *)
(* Every table is protected by Stack.mu and a step that holds it is one    *)
(* action.  UpdateConfig holds it only while it publishes the new network; *)
(* it then visits listeners, TCP connections, UDP sockets and IP sockets   *)
(* one at a time, each under a new lock, while other calls, other updates  *)
(* included, proceed.  An inbound SYN is classified against the network    *)
(* loaded by handleInboundPacket before the lock is taken.                 *)
(*                                                                         *)
(* A socket is a number given in the order of registration, so a reuse     *)
(* group is ordered by the numbers of its members.  Addresses are model    *)
(* values; there is one remote endpoint per family.  A call that fails     *)
(* changes nothing and is a guard that does not hold.                      *)
(***************************************************************************)
EXTENDS Integers, FiniteSets, FiniteSetsExt

CONSTANTS V4, V6,         \* the addresses a configuration may make local
          Any4, Any6,     \* 0.0.0.0 and ::
          Ports,          \* port numbers; 0 asks for an automatic one
          Networks,       \* configurations: [locals, routed]
          Initial,        \* the one the stack is made with
          Requests,       \* the socket calls the application makes
          Mixed,          \* FALSE bounds a behaviour to the sockets of one protocol
          MaxSockets,     \* bound on sockets ever registered
          MaxUpdates      \* bound on UpdateConfig calls

ASSUME EndpointAssumptions ==
    /\ V4 \cap V6 = {} /\ Any4 # Any6 /\ {Any4, Any6} \cap (V4 \cup V6) = {}
    /\ Initial \in Networks
    /\ 0 \notin Ports /\ Mixed \in BOOLEAN
    /\ MaxSockets \in Nat /\ MaxUpdates \in Nat
    /\ \A n \in Networks : n.locals \subseteq V4 \cup V6 /\ n.routed \subseteq {4, 6}

VARIABLES network,     \* Stack.network
          closed,      \* Stack.closed
          sock,        \* the sockets ever registered, in order
          registered,  \* the sockets in Stack.udp, udpReuse, tcpPassive, tcp and ip
          open,        \* sockets whose closeFromStack or abort has not run
          pending,     \* children their listener's Accept has not returned
          detached,    \* sockets Stack.Close took from the tables and has not closed yet
          identity,    \* how many tcpPassiveState and ipEndpointState objects were made
          updates,     \* the UpdateConfig calls in progress or done
          input,       \* a SYN between its classification and handleSYN
          history      \* see History

vars == <<network, closed, sock, registered, open, pending, detached, identity,
          updates, input, history>>

\* What happened to sockets, for the properties: a network published after the
\* registration did not support it; it was registered while an update with such
\* a network was still running; it is the child of a SYN and the network did not
\* support it when it was registered; an update closed it.
History == {"unsupported", "overtaken", "late", "forced"}

Ids == 1 .. MaxSockets
Calls == 1 .. MaxUpdates
None == [kind |-> "none"]

Unspecified == {Any4, Any6}
Family(address) == IF address \in V6 \cup {Any6} THEN 6 ELSE 4
HasLocal(n, address) == address \in n.locals
HasFamily(n, family) == \E address \in n.locals : Family(address) = family
HasRoute(n, family) == family \in n.routed

Addresses == V4 \cup V6 \cup Unspecified

\* What an application may ask for: a connection has a remote endpoint and a
\* family a listener asks for is its address's (validateListenNetwork).
ASSUME RequestAssumption ==
    \A req \in Requests :
        /\ req.net \in {0, 4, 6} /\ req.addr \in Addresses /\ req.port \in Ports \cup {0}
        /\ req.ra \in BOOLEAN /\ req.rp \in BOOLEAN
        /\ req.op \in {"dialUDP", "dialTCP", "dialIP"} => req.net # 0
        /\ req.op \in {"listenUDP", "listenTCP", "listenIP"} /\ req.net # 0 => Family(req.addr) = req.net

Of(kind) == {i \in registered : sock[i].kind = kind}
Used == Cardinality({i \in Ids : sock[i] # None})

----------------------------------------------------------------------------
(* Bindings                                                                *)

\* listenAddressesOverlap: two bindings cover a common local address.
Overlap(left, leftDual, right, rightDual) ==
    \/ (leftDual \/ rightDual) /\ {left, right} \subseteq Unspecified
    \/ leftDual /\ Family(right) = 4
    \/ rightDual /\ Family(left) = 4
    \/ /\ Family(left) = Family(right)
       /\ left = right \/ {left, right} \cap Unspecified # {}

Clash(i, address, port, dual) ==
    sock[i].port = port /\ Overlap(sock[i].addr, sock[i].dual, address, dual)

Reusable(i) == sock[i].ra \/ sock[i].rp

\* Both sockets selected SO_REUSEADDR or both SO_REUSEPORT; a connection has
\* the options of the listener that made it (connectionReusable).
SharesOption(binding, i) == (binding.ra /\ sock[i].ra) \/ (binding.rp /\ sock[i].rp)

\* udpEndpointAvailableLocked with the binding's own rule: an exclusive socket
\* overlaps nothing, two reusable ones share an option and, at one address,
\* agree about IPv4 (reusableUDPBindingAvailable).  The table of accepted
\* forwarder sockets, which the code scans last, has no entries here.
UDPAvailable(binding, address, port, dual) ==
    \A i \in Of("udp") : Clash(i, address, port, dual) =>
        /\ Reusable(i)
        /\ ~(sock[i].addr = address /\ sock[i].dual # dual)
        /\ SharesOption(binding, i)

\* exclusiveTCPListenerBinding and reuseTCPListenerBinding.available: only
\* SO_REUSEPORT lets two listeners overlap.
ListenerAvailable(binding, address, port, dual) ==
    \A i \in Of("listener") : Clash(i, address, port, dual) =>
        /\ binding.rp /\ sock[i].rp
        /\ ~(sock[i].addr = address /\ sock[i].dual # dual)

\* Active connections were not looked at.
TCPListenAvailableListenersOnly(binding, address, port, dual) ==
    ListenerAvailable(binding, address, port, dual)

\* tcpListenEndpointAvailableLocked.
TCPListenAvailable(binding, address, port, dual) ==
    /\ ListenerAvailable(binding, address, port, dual)
    /\ \A i \in Of("tcp") : Clash(i, address, port, dual) => SharesOption(binding, i)

\* tcpPortListenedLocked and the four-tuple test of dialTCP.
TCPDialAvailable(local, port, family) ==
    /\ ~\E i \in Of("listener") : Clash(i, local, port, FALSE)
    /\ ~\E i \in Of("tcp") : sock[i].addr = local /\ sock[i].port = port /\ sock[i].remote = family

Exclusive == [ra |-> FALSE, rp |-> FALSE]

\* allocateAutomaticPort probes every port of the range; the keyed order of the
\* probes is abstracted.
PortsFor(req) == IF req.port = 0 THEN Ports ELSE {req.port}

\* Automatic ports are unused even by reusable sockets.
ProbedAs(req) == IF req.port = 0 THEN Exclusive ELSE req

\* listenAddress: the generic wildcard is :: and dual when IPv4 is there too.
ListenAddress(n, req) ==
    LET generic == req.net = 0 /\ req.addr \in Unspecified IN
    IF ~generic
    THEN {b \in {[addr |-> req.addr, dual |-> FALSE]} : req.net # 0 => HasFamily(n, req.net)}
    ELSE IF HasFamily(n, 6) THEN {[addr |-> Any6, dual |-> HasFamily(n, 4)]}
    ELSE {b \in {[addr |-> Any4, dual |-> FALSE]} : HasFamily(n, 4)}

Bindable(n, address) == address \in Unspecified \/ HasLocal(n, address)

\* sourceForUnicast: the remote endpoint has a route; the source is the
\* requested address, when it is local, or one that source selection prefers.
SourceFor(n, family, requested) ==
    {address \in n.locals :
        /\ HasRoute(n, family)
        /\ Family(address) = family
        /\ requested \in Unspecified \/ requested = address}

\* localEndpointFor: the requested address is of the remote endpoint's family.
LocalFor(n, req) ==
    IF req.addr \notin Unspecified /\ Family(req.addr) # req.net THEN {}
    ELSE SourceFor(n, req.net, req.addr)

----------------------------------------------------------------------------
(* Registration                                                            *)

Socket(kind, address, port, dual, remote, binding, parent) ==
    [kind |-> kind, addr |-> address, port |-> port, dual |-> dual, remote |-> remote,
     ra |-> binding.ra, rp |-> binding.rp, parent |-> parent]

\* A dual-stack socket needed both families.
SupportedBoth(s, n) ==
    /\ IF s.dual THEN HasFamily(n, 4) /\ HasFamily(n, 6)
       ELSE IF s.addr \in Unspecified THEN HasFamily(n, Family(s.addr))
       ELSE HasLocal(n, s.addr)
    /\ s.remote # 0 => HasRoute(n, s.remote)

\* The test every kind of socket is put to: its address, or the family of its
\* wildcard, and the way to its remote endpoint.
Supported(s, n) ==
    /\ IF s.dual THEN HasFamily(n, 4) \/ HasFamily(n, 6)
       ELSE IF s.addr \in Unspecified THEN HasFamily(n, Family(s.addr))
       ELSE HasLocal(n, s.addr)
    /\ s.remote # 0 => HasRoute(n, s.remote)

\* A binding covers a local address: it is bound to it, to its family's
\* wildcard, or to the dual-stack wildcard.
Covers(s, address) ==
    \/ s.addr = address
    \/ s.addr \in Unspecified /\ Family(s.addr) = Family(address)
    \/ s.dual

\* What the properties mean by a socket a network supports: it covers a local
\* address and, when connected, there is a route.
Usable(s, n) ==
    /\ \E address \in n.locals : Covers(s, address)
    /\ s.remote # 0 => HasRoute(n, s.remote)

\* The exclusive maps are keyed by address and port, Stack.tcp by the tuple: an
\* insertion takes the place of what has the same key.
SameSlot(i, s) ==
    /\ sock[i].kind = s.kind
    /\ sock[i].addr = s.addr /\ sock[i].port = s.port
    /\ CASE s.kind = "udp" -> ~Reusable(i) /\ ~(s.ra \/ s.rp)
         [] s.kind = "listener" -> ~sock[i].rp /\ ~s.rp
         [] s.kind = "tcp" -> sock[i].remote = s.remote
         [] OTHER -> FALSE

\* The dispatchers of listeners and of IP sockets are made when first needed
\* and dropped when empty.
Made(kind) ==
    IF kind \in {"listener", "ip"} /\ Of(kind) = {}
    THEN [identity EXCEPT ![kind] = @ + 1] ELSE identity

\* The tables of different protocols share nothing but the network.
Protocol(kind) == IF kind = "listener" THEN "tcp" ELSE kind

Register(s) ==
    LET i == Used + 1 IN
    /\ Used < MaxSockets
    /\ Mixed \/ \A j \in 1 .. Used : Protocol(sock[j].kind) = Protocol(s.kind)
    /\ sock' = [sock EXCEPT ![i] = s]
    /\ registered' = {j \in registered : ~SameSlot(j, s)} \cup {i}
    /\ open' = open \cup {i}
    /\ identity' = Made(s.kind)
    /\ history' = [history EXCEPT
           !["overtaken"] = @ \cup {j \in {i} : \E u \in Calls :
                                 updates[u].stage \notin {"new", "done"} /\ ~Usable(s, updates[u].net)},
           !["late"] = @ \cup {j \in {i} : s.parent # 0 /\ ~Usable(s, network)}]


Ready == ~closed

\* listenUDP.
ListenUDP(req) ==
    /\ Ready /\ req.op = "listenUDP"
    /\ \E b \in ListenAddress(network, req) :
         /\ Bindable(network, b.addr)
         /\ \E p \in PortsFor(req) :
              /\ UDPAvailable(ProbedAs(req), b.addr, p, b.dual)
              /\ Register(Socket("udp", b.addr, p, b.dual, 0, req, 0))
    /\ UNCHANGED <<network, closed, pending, detached, updates, input>>

\* dialUDP: connected sockets are exclusive.
DialUDP(req) ==
    /\ Ready /\ req.op = "dialUDP"
    /\ \E local \in LocalFor(network, req) :
         \E p \in PortsFor(req) :
              /\ UDPAvailable(Exclusive, local, p, FALSE)
              /\ Register(Socket("udp", local, p, FALSE, req.net, Exclusive, 0))
    /\ UNCHANGED <<network, closed, pending, detached, updates, input>>

\* listenTCP.
ListenTCP(req) ==
    /\ Ready /\ req.op = "listenTCP"
    /\ \E b \in ListenAddress(network, req) :
         /\ Bindable(network, b.addr)
         /\ \E p \in PortsFor(req) :
              /\ TCPListenAvailable(ProbedAs(req), b.addr, p, b.dual)
              /\ Register(Socket("listener", b.addr, p, b.dual, 0, req, 0))
    /\ UNCHANGED <<network, closed, pending, detached, updates, input>>

\* dialTCP up to the registration; the connection's life is TCPConnection's.
DialTCP(req) ==
    /\ Ready /\ req.op = "dialTCP"
    /\ \E local \in LocalFor(network, req) :
         \E p \in PortsFor(req) :
              /\ TCPDialAvailable(local, p, req.net)
              /\ Register(Socket("tcp", local, p, FALSE, req.net, Exclusive, 0))
    /\ UNCHANGED <<network, closed, pending, detached, updates, input>>

\* listenIP and dialIP: IP sockets share addresses freely and have no port.
ListenIP(req) ==
    /\ Ready /\ req.op = "listenIP"
    /\ \E b \in ListenAddress(network, req) :
         /\ Bindable(network, b.addr)
         /\ Register(Socket("ip", b.addr, 0, b.dual, 0, Exclusive, 0))
    /\ UNCHANGED <<network, closed, pending, detached, updates, input>>

DialIP(req) ==
    /\ Ready /\ req.op = "dialIP"
    /\ \E local \in LocalFor(network, req) :
         Register(Socket("ip", local, 0, FALSE, req.net, Exclusive, 0))
    /\ UNCHANGED <<network, closed, pending, detached, updates, input>>

----------------------------------------------------------------------------
(* Dispatch                                                                *)

\* A level of the lookup: the sockets bound to one address and port.
Bound(kind, address, port) ==
    {i \in Of(kind) : sock[i].addr = address /\ sock[i].port = port}

\* udpReuseRegistry.connection and tcpReuseRegistry.listener: with a member
\* that did not select SO_REUSEPORT the newest socket is taken, otherwise the
\* flow hash chooses one.
FromGroup(group) ==
    IF group = {} \/ \A i \in group : sock[i].rp THEN group
    ELSE {Max(group)}

\* The lookup stopped at the address's own family.
LevelOneFamily(kind, address, port) ==
    LET exact == Bound(kind, address, port)
    IN IF exact # {} THEN exact
       ELSE Bound(kind, IF Family(address) = 6 THEN Any6 ELSE Any4, port)

\* The first level that has a socket: the address itself, its family's
\* wildcard, and for IPv4 the dual-stack wildcard.  The code chooses from the
\* group at :: and then asks whether its choice is dual; a group agrees about
\* that (UDPAvailable, ListenerAvailable), so asking first finds the same.
Level(kind, address, port) ==
    LET exact == Bound(kind, address, port)
        wildcard == Bound(kind, IF Family(address) = 6 THEN Any6 ELSE Any4, port)
        dual == {i \in Bound(kind, Any6, port) : sock[i].dual}
    IN IF exact # {} THEN exact
       ELSE IF wildcard # {} THEN wildcard
       ELSE {i \in dual : Family(address) = 4}

\* tcpPassiveState.listener and udpOrdinaryConnectionLocked.
Lookup(kind, address, port) == FromGroup(Level(kind, address, port))

\* connectionsForLocked: an IP packet goes to every level.
RawFanout(address) ==
    Bound("ip", address, 0) \cup Bound("ip", IF Family(address) = 6 THEN Any6 ELSE Any4, 0)
    \cup {i \in Bound("ip", Any6, 0) : Family(address) = 4 /\ sock[i].dual}

\* handleInboundPacket loads the network, classifies the destination of a SYN
\* as local and calls handleTCP.
ClassifySYN(address, port) ==
    /\ Ready /\ input = None
    /\ HasLocal(network, address)
    /\ Of("listener") # {}
    /\ input' = [kind |-> "syn", addr |-> address, port |-> port]
    /\ UNCHANGED <<network, closed, sock, registered, open, pending, detached, identity,
                   updates, history>>

\* handleSYN under the lock, which looks at the tuple and at the listener and
\* no longer at the network.  Backlog limits and cookies are PassiveOpen's.
HandleSYN ==
    /\ input # None
    /\ LET child(binding, parent) ==
               Socket("tcp", input.addr, input.port, FALSE, Family(input.addr), binding, parent)
           owners == Lookup("listener", input.addr, input.port)
       IN IF closed \/ (\E i \in registered : SameSlot(i, child(Exclusive, 0))) \/ owners = {}
          THEN UNCHANGED <<sock, registered, open, pending, identity, history>>
          ELSE \E l \in owners :
                 /\ Register(child(sock[l], l))
                 /\ pending' = pending \cup {Used + 1}
    /\ input' = None
    /\ UNCHANGED <<network, closed, detached, updates>>

\* Accept returns a child, which its listener then no longer owns.
AcceptChild(i) ==
    /\ i \in pending /\ i \in open
    /\ pending' = pending \ {i}
    /\ UNCHANGED <<network, closed, sock, registered, open, detached, identity, updates,
                   input, history>>

----------------------------------------------------------------------------
(* Closing                                                                 *)

\* closeFromStack of a listener aborts the children Accept has not returned.
\* An aborted connection stays in Stack.tcp until its actor removes it.
Ended(ids) ==
    ids \cup {j \in pending : sock[j].parent \in ids /\ sock[sock[j].parent].kind = "listener"}

\* What a socket was bound to is forgotten once nothing refers to it.
Forget ==
    sock' = [i \in Ids |-> IF sock[i] = None \/ i \in registered' \cup open' \cup detached' THEN sock[i]
                          ELSE Socket(sock[i].kind, Any4, 0, FALSE, 0, Exclusive, 0)]

\* closeUDP, closeIP, closeTCPListener, or an abort of a connection.
CloseSocket(i) ==
    /\ registered' = IF sock[i].kind = "tcp" THEN registered ELSE registered \ {i}
    /\ open' = open \ Ended({i})
    /\ pending' = pending \ Ended({i})
    /\ UNCHANGED detached
    /\ Forget

\* The application's Close.
Close(i) ==
    /\ i \in open
    /\ CloseSocket(i)
    /\ UNCHANGED <<network, closed, identity, updates, input, history>>

\* removeTCP: the actor of an aborted connection has finished.
RemoveTCP(i) ==
    /\ i \in registered \ open
    /\ registered' = registered \ {i}
    /\ UNCHANGED <<network, closed, open, pending, detached, identity, updates, input, history>>
    /\ Forget

\* Stack.Close empties every table under the lock and then closes what it took,
\* the listeners first.
CloseStack ==
    /\ ~closed
    /\ closed' = TRUE
    /\ detached' = registered
    /\ registered' = {}
    /\ UNCHANGED <<network, sock, open, pending, identity, updates, input, history>>

CloseDetached(i) ==
    /\ i \in detached
    /\ sock[i].kind = "listener" \/ \A j \in detached : sock[j].kind # "listener"
    /\ detached' = detached \ {i}
    /\ open' = open \ Ended({i})
    /\ pending' = pending \ Ended({i})
    /\ UNCHANGED <<network, closed, registered, identity, updates, input, history>>
    /\ Forget

----------------------------------------------------------------------------
(* UpdateConfig                                                            *)

Unsupported(ids, n) == {i \in ids : ~Supported(sock[i], n)}

\* A call that has returned, and one not made yet.
Done == [stage |-> "done", todo |-> {}]
New == [stage |-> "new", todo |-> {}]

\* The dispatcher an update captured: none, or the one of that identity.
Captured(kind) == IF Of(kind) = {} THEN 0 ELSE identity[kind]

\* The sockets an update finds in a dispatcher that is still the captured one.
Snapshot(kind, captured) ==
    IF Of(kind) # {} /\ identity[kind] = captured THEN Of(kind) ELSE {}

\* The stages of UpdateConfig: listeners, TCP connections, UDP sockets, IP
\* sockets.  A stage with nothing to close reads nothing and is passed over.
IPStage(c) == IF c.ip = 0 THEN Done ELSE [c EXCEPT !.stage = "ip", !.todo = {}]

\* Without UDP sockets the call returned at once.
UDPStageReturns(c) == IF c.udps = {} THEN Done ELSE [c EXCEPT !.stage = "udp", !.todo = c.udps]

UDPStage(c) == IF c.udps = {} THEN IPStage(c) ELSE [c EXCEPT !.stage = "udp", !.todo = c.udps]
TCPStage(c) == IF c.conns = {} THEN UDPStage(c) ELSE [c EXCEPT !.stage = "tcp", !.todo = c.conns]
ListenerStage(c) == IF c.listener = 0 THEN TCPStage(c) ELSE c

\* UpdateConfig up to the unlock: the network is published and the connections,
\* the UDP sockets and the dispatchers are captured.
UpdateConfig(u, n) ==
    /\ Ready
    /\ updates[u].stage = "new" /\ \A v \in 1 .. u - 1 : updates[v].stage # "new"
    /\ network' = n
    /\ updates' = [updates EXCEPT ![u] = ListenerStage(
           [stage |-> "passive", net |-> n, todo |-> {},
            conns |-> Unsupported(Of("tcp"), n), udps |-> Unsupported(Of("udp"), n),
            listener |-> Captured("listener"), ip |-> Captured("ip")])]
    /\ history' = [history EXCEPT !["unsupported"] = @ \cup {i \in open : ~Usable(sock[i], n)}]
    /\ UNCHANGED <<closed, sock, registered, open, pending, detached, identity, input>>

\* The dispatcher of listeners or of IP sockets is enumerated under the lock.
Enumerate(u) ==
    /\ updates[u].stage \in {"passive", "ip"}
    /\ LET c == updates[u] IN
       updates' = [updates EXCEPT ![u] =
           IF c.stage = "passive"
           THEN [c EXCEPT !.stage = "listeners",
                          !.todo = Unsupported(Snapshot("listener", c.listener), c.net)]
           ELSE [c EXCEPT !.stage = "raw", !.todo = Unsupported(Snapshot("ip", c.ip), c.net)]]
    /\ UNCHANGED <<network, closed, sock, registered, open, pending, detached, identity, input,
                   history>>

\* Nothing is left to close in this stage.
NextStage(u) ==
    /\ updates[u].todo = {} /\ updates[u].stage \in {"listeners", "tcp", "udp", "raw"}
    /\ LET c == updates[u] IN
       updates' = [updates EXCEPT ![u] =
           CASE c.stage = "listeners" -> TCPStage(c)
             [] c.stage = "tcp" -> UDPStage(c)
             [] c.stage = "udp" -> IPStage(c)
             [] c.stage = "raw" -> Done]
    /\ UNCHANGED <<network, closed, sock, registered, open, pending, detached, identity, input,
                   history>>

\* One socket of the stage is closed; one that is closed already stays so.
CloseUnsupported(u, i) ==
    /\ i \in updates[u].todo
    /\ updates' = [updates EXCEPT ![u].todo = @ \ {i}]
    /\ CloseSocket(i)
    /\ history' = [history EXCEPT !["forced"] = @ \cup ({i} \cap open)]
    /\ UNCHANGED <<network, closed, identity, input>>

----------------------------------------------------------------------------
Bindings ==
    [kind : {"udp", "listener", "tcp", "ip"}, addr : Addresses, port : Ports \cup {0},
     dual : BOOLEAN, remote : {0, 4, 6}, ra : BOOLEAN, rp : BOOLEAN, parent : Ids \cup {0}]

Running ==
    [stage : {"passive", "listeners", "tcp", "udp", "ip", "raw"}, net : Networks,
     todo : SUBSET Ids, conns : SUBSET Ids, udps : SUBSET Ids, listener : Nat, ip : Nat]

TypeOK ==
    /\ network \in Networks /\ closed \in BOOLEAN
    /\ sock \in [Ids -> {None} \cup Bindings]
    /\ registered \subseteq Ids /\ open \subseteq Ids /\ pending \subseteq Ids /\ detached \subseteq Ids
    /\ identity \in [{"listener", "ip"} -> Nat]
    /\ updates \in [Calls -> {New, Done} \cup Running]
    /\ input \in {None} \cup [kind : {"syn"}, addr : V4 \cup V6, port : Ports]
    /\ history \in [History -> SUBSET Ids]

Init ==
    /\ network = Initial /\ closed = FALSE
    /\ sock = [i \in Ids |-> None]
    /\ registered = {} /\ open = {} /\ pending = {} /\ detached = {}
    /\ identity = [k \in {"listener", "ip"} |-> 0]
    /\ updates = [u \in Calls |-> New]
    /\ input = None /\ history = [h \in History |-> {}]

Next ==
    \/ \E req \in Requests : ListenUDP(req) \/ DialUDP(req) \/ ListenTCP(req) \/ DialTCP(req)
                                \/ ListenIP(req) \/ DialIP(req)
    \/ \E address \in V4 \cup V6, p \in Ports : ClassifySYN(address, p)
    \/ HandleSYN
    \/ \E i \in Ids : AcceptChild(i) \/ Close(i) \/ RemoveTCP(i) \/ CloseDetached(i)
    \/ CloseStack
    \/ \E u \in Calls : \/ \E n \in Networks \ {network} : UpdateConfig(u, n)
                        \/ Enumerate(u) \/ NextStage(u)
                        \/ \E i \in Ids : CloseUnsupported(u, i)

Spec == Init /\ [][Next]_vars

----------------------------------------------------------------------------
(* Properties                                                              *)

\* Two sockets that cover a common address and port agreed to: UDP sockets and
\* listeners share a reuse option, a connection under a listener shares one
\* with it or is its child, and no two connections have one tuple
\* (udpEndpointAvailableLocked, tcpListenEndpointAvailableLocked, dialTCP).
BindingsCompatible ==
    \A i, j \in registered : i < j /\ sock[i].kind # "ip" /\ sock[j].kind # "ip" =>
        LET s == sock[i]  t == sock[j]
            shares == (s.ra /\ t.ra) \/ (s.rp /\ t.rp)
            overlap == s.port = t.port /\ Overlap(s.addr, s.dual, t.addr, t.dual)
        IN /\ s.kind = t.kind /\ s.kind \in {"udp", "listener"} /\ overlap => shares
           /\ {s.kind, t.kind} = {"tcp", "listener"} /\ overlap
                => shares \/ s.parent = j \/ t.parent = i
           /\ s.kind = "tcp" /\ t.kind = "tcp"
                => <<s.addr, s.port, s.remote>> # <<t.addr, t.port, t.remote>>

\* Every open socket is in its table, or Stack.Close is about to close it, and
\* the dispatcher finds one for exactly the local addresses and ports some
\* socket covers, an exact binding before a wildcard; IP packets reach every
\* socket that covers their destination (udpOrdinaryConnectionLocked,
\* tcpPassiveState.listener, connectionsForLocked).
EveryBindingReachable ==
    /\ open \subseteq registered \cup detached
    /\ \A address \in network.locals :
         /\ \A kind \in {"udp", "listener"}, p \in Ports :
              LET found == Lookup(kind, address, p)
                  covering == {i \in Of(kind) : sock[i].port = p /\ Covers(sock[i], address)}
              IN /\ found \subseteq covering
                 /\ covering # {} => found # {}
                 /\ (\E i \in covering : sock[i].addr = address)
                       => \A i \in found : sock[i].addr = address
         /\ RawFanout(address) = {i \in Of("ip") : Covers(sock[i], address)}

\* An update still has to visit the socket.
WillVisit(u, i) ==
    LET c == updates[u] IN
    \/ i \in c.todo
    \/ /\ c.stage \in {"passive", "listeners", "tcp", "udp", "ip"}
       /\ ~Supported(sock[i], c.net)
       /\ \/ sock[i].kind = "listener" /\ c.stage = "passive" /\ c.listener = identity["listener"]
          \/ sock[i].kind = "tcp" /\ c.stage \in {"passive", "listeners"} /\ i \in c.conns
          \/ sock[i].kind = "udp" /\ c.stage \in {"passive", "listeners", "tcp"} /\ i \in c.udps
          \/ sock[i].kind = "ip" /\ c.stage # "raw" /\ c.ip = identity["ip"]

\* UpdateConfig leaves no socket behind: one the current network does not
\* support is still to be visited by an update in progress, whatever was
\* registered and closed meanwhile.  The exception is a child that was never
\* supported: handleSYN does not look at the network, so its SYN may have been
\* classified under an earlier one, or its source may have no route.
RemovedAddressesAreVisited ==
    \A i \in open \cap registered :
        ~Usable(sock[i], network) =>
            i \in history["late"] \/ \E u \in Calls : WillVisit(u, i)

\* UpdateConfig closes a socket only when a network published during the
\* socket's life did not support it; a listener or IP socket may also be closed
\* by an update that was still running when it was registered.
ClosedForCause ==
    \A i \in history["forced"] :
        \/ i \in history["unsupported"]
        \/ sock[i].kind \in {"listener", "ip"} /\ i \in history["overtaken"]

\* stack.go says of UpdateConfig that "Sockets bound to removed addresses or
\* destinations without a remaining route are closed": once every call has
\* returned no socket is open at an address that is not local.
RemovedAddressesAreClosed ==
    (\A u \in Calls : updates[u].stage \in {"new", "done"}) =>
        \A i \in open \cap registered :
            sock[i].addr \in Unspecified \/ HasLocal(network, sock[i].addr)

\* The same sentence read the other way: an update that has been replaced by a
\* later one does not close sockets the later one supports.
OnlyRemovedAreClosed ==
    \A i \in history["forced"] : i \in history["unsupported"]
=============================================================================
