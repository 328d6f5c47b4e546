-------------------------- MODULE EndpointsProofs --------------------------
(***************************************************************************)
(* Machine-checked proofs about Endpoints, for any addresses, ports,       *)
(* configurations and socket calls and any number of sockets and of        *)
(* concurrent UpdateConfig calls: bindings that share an address agreed    *)
(* to, every binding can be found, and UpdateConfig closes what the        *)
(* network no longer supports and nothing else.                            *)
(***************************************************************************)
EXTENDS Endpoints, FiniteSetTheorems, WellFoundedInduction, TLAPS

(* The inductive invariant. *)

\* The numbers given so far.
Given == {i \in Ids : sock[i] # None}

\* Numbers are given in order and only given ones are referred to.
NumberInv ==
    /\ \E n \in 0 .. MaxSockets : Given = 1 .. n
    /\ registered \cup open \cup pending \cup detached \subseteq Given
    /\ \A h \in History : history[h] \subseteq Given
    /\ \A u \in Calls : updates[u].todo \subseteq Given
    /\ \A u \in Calls : updates[u] \in Running => updates[u].conns \cup updates[u].udps \subseteq Given

\* The dual-stack wildcard is ::, and an IP socket has no port.
ShapeInv ==
    \A i \in Given :
        /\ sock[i].dual => sock[i].addr = Any6
        /\ sock[i].kind = "ip" => sock[i].port = 0

\* The tables, before and after Stack.Close, and the dispatchers in them.
TableInv ==
    /\ IF closed THEN registered = {} ELSE detached = {}
    /\ open \subseteq registered \cup detached
    /\ \A kind \in {"listener", "ip"} : Of(kind) # {} => identity[kind] # 0

\* The stages that enumerate a dispatcher have nothing to close yet; a stage
\* that is entered with a list was entered for it.
StageInv ==
    \A u \in Calls : updates[u].stage \in {"new", "done", "passive", "ip"} => updates[u].todo = {}

\* A socket a network of the history did not support.
Blamed(i) ==
    \/ i \in history["unsupported"]
    \/ sock[i].kind \in {"listener", "ip"} /\ i \in history["overtaken"]

\* What an update in progress has still to close it closes for a cause.
CauseInv ==
    \A u \in Calls : updates[u] \in Running =>
        /\ \A i \in open : ~Usable(sock[i], updates[u].net) =>
              i \in history["unsupported"] \cup history["overtaken"]
        /\ \A i \in open \cap (updates[u].conns \cup updates[u].udps) : i \in history["unsupported"]
        /\ \A i \in open \cap updates[u].todo : Blamed(i)

IndInv ==
    /\ TypeOK /\ NumberInv /\ ShapeInv /\ TableInv /\ StageInv /\ CauseInv
    /\ BindingsCompatible /\ RemovedAddressesAreVisited /\ ClosedForCause
-----------------------------------------------------------------------------
(* The operators. *)

\* Every address and every wildcard is of one family.
LEMMA Families ==
    /\ \A a \in V4 : Family(a) = 4 /\ a \notin Unspecified
    /\ \A a \in V6 : Family(a) = 6 /\ a \notin Unspecified
    /\ Family(Any4) = 4 /\ Family(Any6) = 6 /\ Any4 # Any6
  BY EndpointAssumptions DEF Family, Unspecified

\* A registered socket is told apart from a number not given yet.
LEMMA SocketIsNotNone == \A s \in Bindings : s # None
  <1> SUFFICES ASSUME NEW s \in Bindings, s = None
               PROVE  FALSE
    OBVIOUS
  <1>1. s.kind \in {"udp", "listener", "tcp", "ip"} /\ None.kind = "none"
    BY DEF Bindings, None
  <1> QED
    BY <1>1

\* The test the code applies is the meaning the properties give it.
LEMMA SupportedIsUsable ==
    ASSUME NEW s \in Bindings, s.dual => s.addr = Any6, NEW n \in Networks
    PROVE  Usable(s, n) <=> Supported(s, n)
  <1>1. \A a \in n.locals : a \in V4 \cup V6
    BY EndpointAssumptions
  <1>2. \A a \in n.locals : Family(a) \in {4, 6} /\ a \notin Unspecified
    BY <1>1, Families
  <1>3. CASE s.dual
    BY <1>2, <1>3 DEF Usable, Supported, Covers, HasFamily
  <1>4. CASE ~s.dual /\ s.addr \in Unspecified
    BY <1>2, <1>4 DEF Usable, Supported, Covers, HasFamily
  <1>5. CASE ~s.dual /\ s.addr \notin Unspecified
    BY <1>2, <1>5 DEF Usable, Supported, Covers, HasLocal
  <1> QED
    BY <1>3, <1>4, <1>5

\* Two bindings that cover one address overlap (listenAddressesOverlap).
LEMMA CoveringOverlap ==
    ASSUME NEW a \in V4 \cup V6, NEW s \in Bindings, NEW t \in Bindings,
           s.dual => s.addr = Any6, t.dual => t.addr = Any6,
           Overlap(s.addr, s.dual, a, FALSE), Overlap(t.addr, t.dual, a, FALSE)
    PROVE  Overlap(s.addr, s.dual, t.addr, t.dual)
  <1>1. a \notin Unspecified /\ Family(a) \in {4, 6}
    BY Families
  <1>2. \A r \in Bindings : (r.dual => r.addr = Any6) /\ Overlap(r.addr, r.dual, a, FALSE) =>
            \/ r.dual /\ r.addr = Any6
            \/ r.addr = a
            \/ r.addr \in Unspecified /\ Family(r.addr) = Family(a)
    BY <1>1 DEF Overlap, Bindings
  <1>3. /\ \/ s.dual /\ s.addr = Any6
           \/ s.addr = a
           \/ s.addr \in Unspecified /\ Family(s.addr) = Family(a)
        /\ \/ t.dual /\ t.addr = Any6
           \/ t.addr = a
           \/ t.addr \in Unspecified /\ Family(t.addr) = Family(a)
    BY <1>2
  <1>4. Any6 \in Unspecified /\ Family(Any6) = 6
    BY Families DEF Unspecified
  <1> QED
    BY <1>1, <1>3, <1>4 DEF Overlap

\* A set of socket numbers has a newest one.
LEMMA MaxIsMember ==
    ASSUME NEW S, S \subseteq Ids, S # {}
    PROVE  Max(S) \in S
  <1> DEFINE T == {MaxSockets - i : i \in S}
             R == OpToRel(<, Nat)
  <1>1. MaxSockets \in Nat /\ \A i \in S : i \in Int /\ 1 <= i /\ i <= MaxSockets
    BY EndpointAssumptions DEF Ids
  <1>2. T \subseteq Nat /\ T # {}
    <2>1. \A i \in S : MaxSockets - i \in Nat
      BY <1>1
    <2> QED
      BY <2>1
  <1>3. \A x, y \in Nat : x < y => <<x, y>> \in R
    BY DEF OpToRel
  <1>4. IsWellFoundedOn(R, Nat)
    BY NatLessThanWellFounded
  <1> HIDE DEF R, T
  <1>5. PICK x \in T : \A y \in T : ~ (<<y, x>> \in R)
    BY <1>2, <1>4, WFMin
  <1>6. PICK m \in S : x = MaxSockets - m
    BY <1>5 DEF T
  <1>7. \A i \in S : m >= i
    <2> TAKE i \in S
    <2>1. MaxSockets - i \in T /\ MaxSockets - i \in Nat /\ x \in Nat
      BY <1>1, <1>2, <1>5 DEF T
    <2>2. ~(MaxSockets - i < x)
      BY <1>3, <1>5, <2>1
    <2> QED
      BY <1>1, <1>6, <2>1, <2>2
  <1> QED
    BY <1>6, <1>7 DEF Max

\* The next number is free and above every number that was given.
LEMMA NextNumber ==
    ASSUME TypeOK, NumberInv
    PROVE  /\ Used \in 0 .. MaxSockets /\ Given = 1 .. Used
           /\ Used < MaxSockets => Used + 1 \in Ids /\ Used + 1 \notin Given
           /\ \A i \in Given : i < Used + 1
  <1>1. PICK n \in 0 .. MaxSockets : Given = 1 .. n
    BY DEF NumberInv
  <1>2. MaxSockets \in Nat /\ n \in Nat
    BY <1>1, EndpointAssumptions
  <1>3. Cardinality(1 .. n) = n
    <2>1. Cardinality(1 .. n) = IF 1 > n THEN 0 ELSE n - 1 + 1
      BY <1>2, FS_Interval
    <2> QED
      BY <1>2, <2>1
  <1>4. Used = n
    BY <1>1, <1>3 DEF Used, Given
  <1> QED
    BY <1>1, <1>2, <1>4 DEF Ids

\* An update is not made yet, has returned, or has all its fields.
LEMMA UpdateRecords ==
    \A c \in {New, Done} \cup Running :
        /\ c \in Running <=> c.stage \notin {"new", "done"}
        /\ c \notin Running => c.todo = {}
  <1>1. New.stage = "new" /\ New.todo = {} /\ Done.stage = "done" /\ Done.todo = {}
    BY DEF New, Done
  <1>2. \A c \in Running : c.stage \in {"passive", "listeners", "tcp", "udp", "ip", "raw"}
    BY DEF Running
  <1> QED
    BY <1>1, <1>2

LEMMA UpdateShape ==
    ASSUME TypeOK, NEW u \in Calls
    PROVE  /\ updates[u] \in {New, Done} \cup Running
           /\ updates[u] \in Running <=> updates[u].stage \notin {"new", "done"}
           /\ updates[u] \notin Running => updates[u].todo = {}
  <1>1. updates[u] \in {New, Done} \cup Running
    BY DEF TypeOK
  <1> QED
    BY <1>1, UpdateRecords

\* What the stage that follows the listeners, the connections or the UDP
\* sockets takes over, and what it has still to visit.
Follows(c, d) ==
    /\ d \in {Done} \cup Running
    /\ d.todo \subseteq c.conns \cup c.udps
    /\ d.stage \in {"done", "ip"} => d.todo = {}
    /\ d \in Running =>
          /\ d.stage \in {"tcp", "udp", "ip"} /\ d.net = c.net
          /\ d.conns = c.conns /\ d.udps = c.udps /\ d.listener = c.listener /\ d.ip = c.ip
    /\ c.ip # 0 => d \in Running

\* The stages follow one another, and none is passed over that has a socket.
LEMMA Stages ==
    ASSUME NEW c \in Running
    PROVE  /\ Follows(c, IPStage(c)) /\ Follows(c, UDPStage(c)) /\ Follows(c, TCPStage(c))
           /\ c.udps \subseteq UDPStage(c).todo
           /\ c.conns \subseteq TCPStage(c).todo
           /\ TCPStage(c).stage # "tcp" => c.udps \subseteq TCPStage(c).todo
  <1>1. Done.stage = "done" /\ Done.todo = {} /\ Done \notin Running
    BY DEF Done, Running
  <1>2. /\ Follows(c, IPStage(c))
    BY <1>1 DEF Follows, IPStage, Running
  <1>3. Follows(c, UDPStage(c)) /\ c.udps \subseteq UDPStage(c).todo
    BY <1>1, <1>2 DEF Follows, UDPStage, Running
  <1>4. /\ Follows(c, TCPStage(c)) /\ c.conns \subseteq TCPStage(c).todo
        /\ TCPStage(c).stage # "tcp" => c.udps \subseteq TCPStage(c).todo
    BY <1>1, <1>3 DEF Follows, TCPStage, Running
  <1> QED
    BY <1>2, <1>3, <1>4
-----------------------------------------------------------------------------
(* Registration. *)

\* What BindingsCompatible asks of an older and a newer socket.
Compatible(i, s, j, t) ==
    LET shares == (s.ra /\ t.ra) \/ (s.rp /\ t.rp)
        overlap == s.port = t.port /\ Overlap(s.addr, s.dual, t.addr, t.dual)
    IN /\ s.kind = t.kind /\ s.kind \in {"udp", "listener"} /\ overlap => shares
       /\ {s.kind, t.kind} = {"tcp", "listener"} /\ overlap => shares \/ s.parent = j \/ t.parent = i
       /\ s.kind = "tcp" /\ t.kind = "tcp" => <<s.addr, s.port, s.remote>> # <<t.addr, t.port, t.remote>>

LEMMA BindingsAgree ==
    BindingsCompatible <=>
        \A i, j \in registered :
            i < j /\ sock[i].kind # "ip" /\ sock[j].kind # "ip" => Compatible(i, sock[i], j, sock[j])
  BY DEF BindingsCompatible, Compatible

\* What the availability tests give: the socket is well formed and, unless it
\* is a child, usable, takes no other socket's place and agrees with the rest.
Admissible(s) ==
    /\ s.dual => s.addr = Any6
    /\ s.kind = "ip" => s.port = 0
    /\ s.parent = 0 => Usable(s, network)
    /\ \A j \in registered : ~SameSlot(j, s)
    /\ \A j \in registered : sock[j].kind # "ip" /\ s.kind # "ip" => Compatible(j, sock[j], Used + 1, s)

\* The registration of an admissible socket preserves the inductive invariant.
LEMMA RegisterPreserves ==
    ASSUME IndInv, ~closed, NEW s \in Bindings, Admissible(s), Register(s),
           UNCHANGED <<network, closed, detached, updates>>,
           pending' \subseteq pending \cup {Used + 1},
           input' \in {None} \cup [kind : {"syn"}, addr : V4 \cup V6, port : Ports]
    PROVE  IndInv'
  <1>a. /\ TypeOK /\ NumberInv /\ ShapeInv /\ TableInv /\ StageInv /\ CauseInv
        /\ BindingsCompatible /\ RemovedAddressesAreVisited /\ ClosedForCause
    BY DEF IndInv
  <1> DEFINE i == Used + 1
  <1>1. /\ i \in Ids /\ i \notin Given /\ Given = 1 .. Used /\ Used \in Nat /\ Used + 1 <= MaxSockets
        /\ \A j \in Given : j < i
    BY <1>a, NextNumber, EndpointAssumptions DEF Register
  <1>2. /\ sock' = [sock EXCEPT ![i] = s] /\ open' = open \cup {i} /\ identity' = Made(s.kind)
        /\ registered' = registered \cup {i}
    BY DEF Register, Admissible
  <1>3. /\ history'["unsupported"] = history["unsupported"] /\ history'["forced"] = history["forced"]
        /\ history["overtaken"] \subseteq history'["overtaken"] /\ history["late"] \subseteq history'["late"]
        /\ history'["overtaken"] \cup history'["late"] \subseteq history["overtaken"] \cup history["late"] \cup {i}
        /\ s.parent # 0 /\ ~Usable(s, network) => i \in history'["late"]
        /\ \A u \in Calls : updates[u].stage \notin {"new", "done"} /\ ~Usable(s, updates[u].net)
              => i \in history'["overtaken"]
        /\ history' \in [History -> SUBSET Ids]
    BY <1>a, <1>1 DEF Register, TypeOK, History
  <1> HIDE DEF i
  <1>4. sock'[i] = s /\ \A j \in Ids : j # i => sock'[j] = sock[j]
    BY <1>a, <1>1, <1>2 DEF TypeOK
  <1>5. Given' = Given \cup {i}
    BY <1>a, <1>1, <1>4, SocketIsNotNone DEF Given
  <1>6. /\ registered \cup open \cup pending \cup detached \subseteq Given
        /\ \A j \in Given : j \in Ids /\ j # i /\ sock'[j] = sock[j]
    BY <1>a, <1>1, <1>4 DEF NumberInv, Given
  <1>7. \A kind \in {"listener", "ip"} :
            /\ Of(kind) # {} => identity'[kind] = identity[kind]
            /\ s.kind = kind => identity'[kind] # 0
    BY <1>a, <1>2 DEF Made, TypeOK, TableInv
  <1>8. TypeOK'
    <2>1. sock' \in [Ids -> {None} \cup Bindings] /\ registered' \subseteq Ids /\ open' \subseteq Ids
      BY <1>a, <1>1, <1>2 DEF TypeOK
    <2>2. identity' \in [{"listener", "ip"} -> Nat]
      BY <1>a, <1>2 DEF TypeOK, Made
    <2>3. pending' \subseteq Ids /\ detached' \subseteq Ids
      BY <1>a, <1>1 DEF TypeOK, i
    <2> QED
      BY <1>a, <1>3, <2>1, <2>2, <2>3 DEF TypeOK
  <1>9. NumberInv'
    <2>1. Given' = 1 .. i /\ i \in 0 .. MaxSockets
      BY <1>1, <1>5, EndpointAssumptions DEF i
    <2>2. (registered \cup open \cup pending \cup detached)' \subseteq Given'
      BY <1>2, <1>5, <1>6 DEF i
    <2>3. \A h \in History : history'[h] \subseteq Given'
      BY <1>a, <1>3, <1>5 DEF NumberInv, History
    <2>4. \A u \in Calls : updates'[u].todo \subseteq Given'
      BY <1>a, <1>5 DEF NumberInv
    <2>5. \A u \in Calls : updates'[u] \in Running => updates'[u].conns \cup updates'[u].udps \subseteq Given'
      BY <1>a, <1>5 DEF NumberInv
    <2> QED
      BY <2>1, <2>2, <2>3, <2>4, <2>5 DEF NumberInv
  <1>10. ShapeInv'
    BY <1>a, <1>4, <1>5, <1>6 DEF ShapeInv, Admissible
  <1>11. TableInv'
    <2>1. \A kind \in {"listener", "ip"} : Of(kind)' # {} => identity'[kind] # 0
      <3> SUFFICES ASSUME NEW kind \in {"listener", "ip"}, NEW j \in registered', sock'[j].kind = kind
                   PROVE  identity'[kind] # 0
        BY DEF Of
      <3>1. CASE j = i
        BY <1>4, <1>7, <3>1
      <3>2. CASE j # i
        <4>1. j \in registered /\ sock[j].kind = kind
          BY <1>2, <1>6, <3>2
        <4>2. Of(kind) # {} /\ identity[kind] # 0
          BY <1>a, <4>1 DEF Of, TableInv
        <4> QED
          BY <1>7, <4>2
      <3> QED
        BY <3>1, <3>2
    <2> QED
      BY <1>a, <1>2, <2>1 DEF TableInv
  <1>12. StageInv'
    BY <1>a DEF StageInv
  <1>13. CauseInv'
    <2> SUFFICES ASSUME NEW u \in Calls, updates[u] \in Running
                 PROVE  /\ \A j \in open' : ~Usable(sock'[j], updates[u].net) =>
                              j \in history'["unsupported"] \cup history'["overtaken"]
                        /\ \A j \in open' \cap (updates[u].conns \cup updates[u].udps) :
                              j \in history'["unsupported"]
                        /\ \A j \in open' \cap updates[u].todo : Blamed(j)'
      BY DEF CauseInv
    <2>1. updates[u].stage \notin {"new", "done"}
      BY <1>a, UpdateShape
    <2>2. updates[u].conns \cup updates[u].udps \cup updates[u].todo \subseteq Given
      BY <1>a DEF NumberInv
    <2>3. ASSUME NEW j \in open'
          PROVE  ~Usable(sock'[j], updates[u].net) => j \in history'["unsupported"] \cup history'["overtaken"]
      <3>1. CASE j = i
        BY <1>3, <1>4, <2>1, <3>1
      <3>2. CASE j # i
        BY <1>a, <1>2, <1>3, <1>6, <3>2 DEF CauseInv
      <3> QED
        BY <3>1, <3>2
    <2>4. \A j \in open' \cap (updates[u].conns \cup updates[u].udps) : j \in history'["unsupported"]
      BY <1>a, <1>1, <1>2, <1>3, <2>2 DEF CauseInv
    <2>5. \A j \in open' \cap updates[u].todo : Blamed(j)'
      BY <1>a, <1>1, <1>2, <1>3, <1>6, <2>2 DEF CauseInv, Blamed
    <2> QED
      BY <2>3, <2>4, <2>5
  <1>14. BindingsCompatible'
    <2>1. ASSUME NEW j \in registered', NEW k \in registered', j < k,
                 sock'[j].kind # "ip", sock'[k].kind # "ip"
          PROVE  Compatible(j, sock'[j], k, sock'[k])
      <3>1. j \in registered
        BY <1>1, <1>2, <1>6, <2>1 DEF Ids
      <3>2. CASE k = i
        BY <1>4, <1>6, <2>1, <3>1, <3>2 DEF Admissible, i
      <3>3. CASE k # i
        BY <1>a, <1>2, <1>6, <2>1, <3>1, <3>3, BindingsAgree
      <3> QED
        BY <3>2, <3>3
    <2> QED
      BY <2>1 DEF BindingsCompatible, Compatible
  <1>15. RemovedAddressesAreVisited'
    <2> SUFFICES ASSUME NEW j \in open', j \in registered', ~Usable(sock'[j], network)
                 PROVE  j \in history'["late"] \/ \E u \in Calls : WillVisit(u, j)'
      BY DEF RemovedAddressesAreVisited
    <2>1. CASE j = i
      BY <1>3, <1>4, <2>1 DEF Admissible
    <2>2. CASE j # i
      <3>1. j \in open /\ j \in registered /\ sock'[j] = sock[j]
        BY <1>2, <1>6, <2>2
      <3>2. j \in history["late"] \/ \E u \in Calls : WillVisit(u, j)
        BY <1>a, <3>1 DEF RemovedAddressesAreVisited
      <3>3. \A kind \in {"listener", "ip"} : sock[j].kind = kind => identity'[kind] = identity[kind]
        BY <1>7, <3>1 DEF Of
      <3>4. \A u \in Calls : WillVisit(u, j) => WillVisit(u, j)'
        BY <3>1, <3>3 DEF WillVisit
      <3> QED
        BY <1>3, <3>2, <3>4
    <2> QED
      BY <2>1, <2>2
  <1>16. ClosedForCause'
    <2>1. history["forced"] \subseteq Given
      BY <1>a DEF NumberInv, History
    <2> QED
      BY <1>a, <1>3, <1>6, <2>1 DEF ClosedForCause
  <1> QED
    BY <1>8, <1>9, <1>10, <1>11, <1>12, <1>13, <1>14, <1>15, <1>16 DEF IndInv

\* What a listening call binds to is a local address or a wildcard the network
\* supports.
LEMMA ListenBinds ==
    ASSUME TypeOK, NEW req \in Requests, req.op \in {"listenUDP", "listenTCP", "listenIP"},
           NEW b \in ListenAddress(network, req), Bindable(network, b.addr)
    PROVE  /\ b.addr \in Addresses /\ b.dual \in BOOLEAN /\ (b.dual => b.addr = Any6)
           /\ \A kind, p, binding : Usable(Socket(kind, b.addr, p, b.dual, 0, binding, 0), network)
  <1>1. /\ req.net \in {0, 4, 6} /\ req.addr \in Addresses
        /\ req.net # 0 => Family(req.addr) = req.net
    BY RequestAssumption
  <1>2. /\ network.locals \subseteq V4 \cup V6
        /\ \A a \in network.locals : Family(a) \in {4, 6} /\ a \notin Unspecified
    BY EndpointAssumptions, Families DEF TypeOK
  <1>3. /\ b.addr \in Addresses /\ b.dual \in BOOLEAN /\ (b.dual => b.addr = Any6)
        /\ b.addr \in Unspecified => HasFamily(network, Family(b.addr))
    <2>1. CASE ~(req.net = 0 /\ req.addr \in Unspecified)
      <3>1. b = [addr |-> req.addr, dual |-> FALSE] /\ (req.net # 0 => HasFamily(network, req.net))
        BY <2>1 DEF ListenAddress
      <3>2. b.addr = req.addr /\ b.dual = FALSE
        BY <3>1
      <3> QED
        BY <1>1, <2>1, <3>1, <3>2
    <2>2. CASE req.net = 0 /\ req.addr \in Unspecified
      <3>1. \/ HasFamily(network, 6) /\ b = [addr |-> Any6, dual |-> HasFamily(network, 4)]
            \/ HasFamily(network, 4) /\ b = [addr |-> Any4, dual |-> FALSE]
        BY <2>2 DEF ListenAddress
      <3>2. HasFamily(network, 4) \in BOOLEAN
        BY DEF HasFamily
      <3>3. \/ HasFamily(network, 6) /\ b.addr = Any6 /\ b.dual \in BOOLEAN
            \/ HasFamily(network, 4) /\ b.addr = Any4 /\ b.dual = FALSE
        BY <3>1, <3>2
      <3> QED
        BY <3>3, Families DEF Addresses, Unspecified
    <2> QED
      BY <2>1, <2>2
  <1>4. \E a \in network.locals :
            b.addr = a \/ (b.addr \in Unspecified /\ Family(b.addr) = Family(a)) \/ b.dual
    BY <1>3 DEF Bindable, HasLocal, HasFamily
  <1>5. ASSUME NEW kind, NEW p, NEW binding
        PROVE  Usable(Socket(kind, b.addr, p, b.dual, 0, binding, 0), network)
    BY <1>4 DEF Usable, Covers, Socket
  <1> QED
    BY <1>3, <1>5

\* What a dialing call binds to is local and has a route.
LEMMA DialBinds ==
    ASSUME TypeOK, NEW req \in Requests, req.net # 0, NEW local \in LocalFor(network, req)
    PROVE  /\ local \in V4 \cup V6 /\ req.net \in {4, 6}
           /\ \A kind, p, binding : Usable(Socket(kind, local, p, FALSE, req.net, binding, 0), network)
  <1>1. local \in network.locals /\ HasRoute(network, req.net)
    BY DEF LocalFor, SourceFor
  <1>2. req.net \in {4, 6} /\ network.locals \subseteq V4 \cup V6
    BY EndpointAssumptions, RequestAssumption DEF TypeOK
  <1>3. ASSUME NEW kind, NEW p, NEW binding
        PROVE  Usable(Socket(kind, local, p, FALSE, req.net, binding, 0), network)
    BY <1>1 DEF Usable, Covers, Socket
  <1> QED
    BY <1>1, <1>2, <1>3

\* The port of a call is one of the range or the requested one.
LEMMA RequestedPorts ==
    ASSUME NEW req \in Requests
    PROVE  PortsFor(req) \subseteq Ports \cup {0} /\ req.ra \in BOOLEAN /\ req.rp \in BOOLEAN
  BY RequestAssumption DEF PortsFor

\* listenUDP preserves the inductive invariant.
LEMMA ListenUDPPreserves ==
    ASSUME IndInv, NEW req \in Requests, ListenUDP(req)
    PROVE  IndInv'
  <1>a. TypeOK
    BY DEF IndInv
  <1>1. PICK b \in ListenAddress(network, req), p \in PortsFor(req) :
            /\ Bindable(network, b.addr) /\ UDPAvailable(ProbedAs(req), b.addr, p, b.dual)
            /\ Register(Socket("udp", b.addr, p, b.dual, 0, req, 0))
    BY DEF ListenUDP
  <1> DEFINE s == Socket("udp", b.addr, p, b.dual, 0, req, 0)
  <1>2. /\ s \in Bindings /\ s.kind = "udp" /\ s.addr = b.addr /\ s.port = p /\ s.dual = b.dual
        /\ s.ra = req.ra /\ s.rp = req.rp /\ s.parent = 0 /\ (s.dual => s.addr = Any6)
    BY <1>a, <1>1, ListenBinds, RequestedPorts DEF ListenUDP, Socket, Bindings
  <1>3. Usable(s, network)
    BY <1>a, <1>1, ListenBinds DEF ListenUDP
  <1> HIDE DEF s
  <1>4. ASSUME NEW j \in registered, sock[j].kind = "udp", sock[j].port = s.port,
               Overlap(sock[j].addr, sock[j].dual, s.addr, s.dual)
        PROVE  Reusable(j) /\ ((sock[j].ra /\ s.ra) \/ (sock[j].rp /\ s.rp))
    BY <1>1, <1>2, <1>4 DEF UDPAvailable, Of, Clash, SharesOption, ProbedAs, Exclusive
  <1>5. ASSUME NEW j \in registered
        PROVE  ~SameSlot(j, s)
    BY <1>2, <1>4 DEF SameSlot, Overlap
  <1>6. ASSUME NEW j \in registered
        PROVE  Compatible(j, sock[j], Used + 1, s)
    BY <1>2, <1>4 DEF Compatible
  <1>7. Admissible(s)
    BY <1>2, <1>3, <1>5, <1>6 DEF Admissible
  <1> QED
    BY <1>a, <1>1, <1>2, <1>7, RegisterPreserves DEF ListenUDP, Ready, TypeOK, s

\* dialUDP preserves the inductive invariant.
LEMMA DialUDPPreserves ==
    ASSUME IndInv, NEW req \in Requests, DialUDP(req)
    PROVE  IndInv'
  <1>a. TypeOK /\ req.net # 0
    BY RequestAssumption DEF IndInv, DialUDP
  <1>1. PICK local \in LocalFor(network, req), p \in PortsFor(req) :
            /\ UDPAvailable(Exclusive, local, p, FALSE)
            /\ Register(Socket("udp", local, p, FALSE, req.net, Exclusive, 0))
    BY DEF DialUDP
  <1> DEFINE s == Socket("udp", local, p, FALSE, req.net, Exclusive, 0)
  <1>2. /\ s \in Bindings /\ s.kind = "udp" /\ s.addr = local /\ s.port = p /\ s.dual = FALSE
        /\ ~s.ra /\ ~s.rp /\ s.parent = 0
    BY <1>a, <1>1, DialBinds, RequestedPorts DEF Socket, Bindings, Exclusive, Addresses
  <1>3. Usable(s, network)
    BY <1>a, <1>1, DialBinds
  <1> HIDE DEF s
  <1>4. ASSUME NEW j \in registered, sock[j].kind = "udp", sock[j].port = s.port
        PROVE  ~Overlap(sock[j].addr, sock[j].dual, s.addr, s.dual)
    BY <1>1, <1>2, <1>4 DEF UDPAvailable, Of, Clash, SharesOption, Exclusive
  <1>5. ASSUME NEW j \in registered
        PROVE  ~SameSlot(j, s)
    BY <1>2, <1>4 DEF SameSlot, Overlap
  <1>6. ASSUME NEW j \in registered
        PROVE  Compatible(j, sock[j], Used + 1, s)
    BY <1>2, <1>4 DEF Compatible
  <1>7. Admissible(s)
    BY <1>2, <1>3, <1>5, <1>6 DEF Admissible
  <1> QED
    BY <1>a, <1>1, <1>2, <1>7, RegisterPreserves DEF DialUDP, Ready, TypeOK, s

\* listenTCP preserves the inductive invariant.
LEMMA ListenTCPPreserves ==
    ASSUME IndInv, NEW req \in Requests, ListenTCP(req)
    PROVE  IndInv'
  <1>a. TypeOK
    BY DEF IndInv
  <1>1. PICK b \in ListenAddress(network, req), p \in PortsFor(req) :
            /\ Bindable(network, b.addr) /\ TCPListenAvailable(ProbedAs(req), b.addr, p, b.dual)
            /\ Register(Socket("listener", b.addr, p, b.dual, 0, req, 0))
    BY DEF ListenTCP
  <1> DEFINE s == Socket("listener", b.addr, p, b.dual, 0, req, 0)
  <1>2. /\ s \in Bindings /\ s.kind = "listener" /\ s.addr = b.addr /\ s.port = p /\ s.dual = b.dual
        /\ s.ra = req.ra /\ s.rp = req.rp /\ s.parent = 0 /\ (s.dual => s.addr = Any6)
    BY <1>a, <1>1, ListenBinds, RequestedPorts DEF ListenTCP, Socket, Bindings
  <1>3. Usable(s, network)
    BY <1>a, <1>1, ListenBinds DEF ListenTCP
  <1> HIDE DEF s
  <1>4. ASSUME NEW j \in registered, sock[j].port = s.port,
               Overlap(sock[j].addr, sock[j].dual, s.addr, s.dual)
        PROVE  /\ sock[j].kind = "listener" => sock[j].rp /\ s.rp
               /\ sock[j].kind = "tcp" => (sock[j].ra /\ s.ra) \/ (sock[j].rp /\ s.rp)
    BY <1>1, <1>2, <1>4 DEF TCPListenAvailable, ListenerAvailable, Of, Clash, SharesOption, ProbedAs, Exclusive
  <1>5. ASSUME NEW j \in registered
        PROVE  ~SameSlot(j, s)
    BY <1>2, <1>4 DEF SameSlot, Overlap
  <1>6. ASSUME NEW j \in registered
        PROVE  Compatible(j, sock[j], Used + 1, s)
    BY <1>2, <1>4 DEF Compatible
  <1>7. Admissible(s)
    BY <1>2, <1>3, <1>5, <1>6 DEF Admissible
  <1> QED
    BY <1>a, <1>1, <1>2, <1>7, RegisterPreserves DEF ListenTCP, Ready, TypeOK, s

\* dialTCP preserves the inductive invariant.
LEMMA DialTCPPreserves ==
    ASSUME IndInv, NEW req \in Requests, DialTCP(req)
    PROVE  IndInv'
  <1>a. TypeOK /\ req.net # 0
    BY RequestAssumption DEF IndInv, DialTCP
  <1>1. PICK local \in LocalFor(network, req), p \in PortsFor(req) :
            /\ TCPDialAvailable(local, p, req.net)
            /\ Register(Socket("tcp", local, p, FALSE, req.net, Exclusive, 0))
    BY DEF DialTCP
  <1> DEFINE s == Socket("tcp", local, p, FALSE, req.net, Exclusive, 0)
  <1>2. /\ s \in Bindings /\ s.kind = "tcp" /\ s.addr = local /\ s.port = p /\ s.dual = FALSE
        /\ s.remote = req.net /\ s.parent = 0
    BY <1>a, <1>1, DialBinds, RequestedPorts DEF Socket, Bindings, Exclusive, Addresses
  <1>3. Usable(s, network)
    BY <1>a, <1>1, DialBinds
  <1> HIDE DEF s
  <1>4. ASSUME NEW j \in registered, sock[j].port = s.port
        PROVE  /\ sock[j].kind = "listener" => ~Overlap(sock[j].addr, sock[j].dual, s.addr, s.dual)
               /\ ~(sock[j].kind = "tcp" /\ sock[j].addr = s.addr /\ sock[j].remote = s.remote)
    BY <1>1, <1>2, <1>4 DEF TCPDialAvailable, Of, Clash
  <1>5. ASSUME NEW j \in registered
        PROVE  ~SameSlot(j, s)
    BY <1>2, <1>4 DEF SameSlot
  <1>6. ASSUME NEW j \in registered
        PROVE  Compatible(j, sock[j], Used + 1, s)
    BY <1>2, <1>4 DEF Compatible
  <1>7. Admissible(s)
    BY <1>2, <1>3, <1>5, <1>6 DEF Admissible
  <1> QED
    BY <1>a, <1>1, <1>2, <1>7, RegisterPreserves DEF DialTCP, Ready, TypeOK, s

\* listenIP and dialIP preserve the inductive invariant.
LEMMA IPPreserves ==
    ASSUME IndInv, NEW req \in Requests, ListenIP(req) \/ DialIP(req)
    PROVE  IndInv'
  <1>a. TypeOK
    BY DEF IndInv
  <1>1. ASSUME NEW s \in Bindings, s.kind = "ip", s.port = 0, s.dual => s.addr = Any6, Usable(s, network)
        PROVE  Admissible(s)
    BY <1>1 DEF Admissible, SameSlot
  <1>2. CASE ListenIP(req)
    <2>1. PICK b \in ListenAddress(network, req) :
              Bindable(network, b.addr) /\ Register(Socket("ip", b.addr, 0, b.dual, 0, Exclusive, 0))
      BY <1>2 DEF ListenIP
    <2> DEFINE s == Socket("ip", b.addr, 0, b.dual, 0, Exclusive, 0)
    <2>2. s \in Bindings /\ s.kind = "ip" /\ s.port = 0 /\ (s.dual => s.addr = Any6) /\ Usable(s, network)
      <3>1. s \in Bindings /\ s.kind = "ip" /\ s.port = 0 /\ (s.dual => s.addr = Any6)
        BY <1>a, <1>2, <2>1, ListenBinds DEF ListenIP, Socket, Bindings, Exclusive
      <3> QED
        BY <1>a, <1>2, <2>1, <3>1, ListenBinds DEF ListenIP
    <2>3. Admissible(s)
      BY <1>1, <2>2
    <2> HIDE DEF s
    <2> QED
      BY <1>a, <1>2, <2>1, <2>2, <2>3, RegisterPreserves DEF ListenIP, Ready, TypeOK, s
  <1>3. CASE DialIP(req)
    <2>a. req.net # 0
      BY <1>3, RequestAssumption DEF DialIP
    <2>1. PICK local \in LocalFor(network, req) :
              Register(Socket("ip", local, 0, FALSE, req.net, Exclusive, 0))
      BY <1>3 DEF DialIP
    <2> DEFINE s == Socket("ip", local, 0, FALSE, req.net, Exclusive, 0)
    <2>2. s \in Bindings /\ s.kind = "ip" /\ s.port = 0 /\ (s.dual => s.addr = Any6) /\ Usable(s, network)
      <3>1. s \in Bindings /\ s.kind = "ip" /\ s.port = 0 /\ (s.dual => s.addr = Any6)
        BY <1>a, <2>a, <2>1, DialBinds DEF Socket, Bindings, Exclusive, Addresses
      <3> QED
        BY <1>a, <2>a, <2>1, <3>1, DialBinds
    <2>3. Admissible(s)
      BY <1>1, <2>2
    <2> HIDE DEF s
    <2> QED
      BY <1>a, <1>3, <2>1, <2>2, <2>3, RegisterPreserves DEF DialIP, Ready, TypeOK, s
  <1> QED
    BY <1>2, <1>3

\* The dispatcher takes one of the sockets of the first level that has any.
LEMMA LookupCovers ==
    ASSUME TypeOK, NEW kind, NEW a \in V4 \cup V6, NEW p, NEW l \in Lookup(kind, a, p)
    PROVE  /\ l \in Of(kind) /\ sock[l].port = p
           /\ \/ sock[l].addr = a
              \/ sock[l].addr \in Unspecified /\ Family(sock[l].addr) = Family(a)
              \/ sock[l].dual /\ Family(a) = 4
  <1>1. Level(kind, a, p) \subseteq Ids
    BY DEF Level, Bound, Of, TypeOK
  <1>2. l \in Level(kind, a, p)
    BY <1>1, MaxIsMember DEF Lookup, FromGroup
  <1>3. \/ l \in Bound(kind, a, p)
        \/ l \in Bound(kind, IF Family(a) = 6 THEN Any6 ELSE Any4, p)
        \/ l \in Bound(kind, Any6, p) /\ sock[l].dual /\ Family(a) = 4
    BY <1>2 DEF Level
  <1>4. Family(a) \in {4, 6}
    BY Families
  <1> QED
    BY <1>3, <1>4, Families DEF Bound, Unspecified

\* handleSYN preserves the inductive invariant: the child of a listener agrees
\* with every other listener of its address because its parent does.
LEMMA HandleSYNPreserves ==
    ASSUME IndInv, HandleSYN
    PROVE  IndInv'
  <1>a. /\ TypeOK /\ NumberInv /\ ShapeInv /\ TableInv /\ StageInv /\ CauseInv
        /\ BindingsCompatible /\ RemovedAddressesAreVisited /\ ClosedForCause
    BY DEF IndInv
  <1> DEFINE child(binding, parent) ==
                 Socket("tcp", input.addr, input.port, FALSE, Family(input.addr), binding, parent)
             owners == Lookup("listener", input.addr, input.port)
  <1>1. CASE closed \/ (\E i \in registered : SameSlot(i, child(Exclusive, 0))) \/ owners = {}
    <2>1. UNCHANGED <<sock, registered, open, pending, identity, history, network, closed, detached, updates>>
      BY <1>1 DEF HandleSYN
    <2>2. TypeOK'
      BY <1>a, <2>1 DEF HandleSYN, TypeOK
    <2>3. NumberInv' /\ ShapeInv' /\ TableInv' /\ StageInv' /\ CauseInv'
      BY <1>a, <2>1 DEF NumberInv, Given, ShapeInv, TableInv, Of, StageInv, CauseInv, Blamed
    <2>4. BindingsCompatible' /\ RemovedAddressesAreVisited' /\ ClosedForCause'
      BY <1>a, <2>1 DEF BindingsCompatible, RemovedAddressesAreVisited, WillVisit, ClosedForCause
    <2> QED
      BY <2>2, <2>3, <2>4 DEF IndInv
  <1>2. CASE ~(closed \/ (\E i \in registered : SameSlot(i, child(Exclusive, 0))) \/ owners = {})
    <2>1. PICK l \in owners :
              /\ Register(child(sock[l], l))
              /\ pending' = pending \cup {Used + 1}
      BY <1>2 DEF HandleSYN
    <2> DEFINE s == child(sock[l], l)
    <2>2. input.addr \in V4 \cup V6 /\ input.port \in Ports
      BY <1>a DEF HandleSYN, TypeOK
    <2>3. Family(input.addr) \in {4, 6} /\ input.addr \notin Unspecified
      BY <2>2, Families
    <2>4. /\ l \in registered /\ l \in Ids /\ l \in Given /\ sock[l] \in Bindings
          /\ sock[l].kind = "listener" /\ sock[l].port = input.port
          /\ Overlap(sock[l].addr, sock[l].dual, input.addr, FALSE)
      <3>1. /\ l \in Of("listener") /\ sock[l].port = input.port
            /\ \/ sock[l].addr = input.addr
               \/ sock[l].addr \in Unspecified /\ Family(sock[l].addr) = Family(input.addr)
               \/ sock[l].dual /\ Family(input.addr) = 4
        BY <1>a, <2>1, <2>2, LookupCovers
      <3>2. l \in registered /\ sock[l].kind = "listener" /\ l \in Given /\ l \in Ids
        BY <1>a, <3>1 DEF Of, NumberInv, Given
      <3> QED
        BY <1>a, <3>1, <3>2 DEF Overlap, TypeOK, Given
    <2>5. /\ s \in Bindings /\ s.kind = "tcp" /\ s.addr = input.addr /\ s.port = input.port /\ s.dual = FALSE
          /\ s.remote = Family(input.addr) /\ s.ra = sock[l].ra /\ s.rp = sock[l].rp /\ s.parent = l
          /\ s.parent # 0
      <3>1. s = [kind |-> "tcp", addr |-> input.addr, port |-> input.port, dual |-> FALSE,
                 remote |-> Family(input.addr), ra |-> sock[l].ra, rp |-> sock[l].rp, parent |-> l]
        BY DEF Socket
      <3>2. sock[l].ra \in BOOLEAN /\ sock[l].rp \in BOOLEAN
        BY <2>4 DEF Bindings
      <3>3. l # 0 /\ l \in Ids \cup {0} /\ input.addr \in Addresses
        BY <2>2, <2>4 DEF Ids, Addresses
      <3> HIDE DEF s
      <3> QED
        BY <2>2, <2>3, <3>1, <3>2, <3>3 DEF Bindings
    <2>6. ASSUME NEW j \in registered
          PROVE  ~SameSlot(j, s)
      BY <1>2, <2>5 DEF SameSlot, Socket
    <2> HIDE DEF s, child, owners
    <2>7. ASSUME NEW j \in registered
          PROVE  Compatible(j, sock[j], Used + 1, s)
      <3>1. j \in Given /\ j \in Ids /\ sock[j] \in Bindings /\ (sock[j].dual => sock[j].addr = Any6)
        BY <1>a DEF NumberInv, TypeOK, Given, ShapeInv
      <3>2. CASE /\ sock[j].kind = "listener" /\ sock[j].port = s.port /\ j # l
                 /\ Overlap(sock[j].addr, sock[j].dual, s.addr, s.dual)
        <4>1. sock[l].dual => sock[l].addr = Any6
          BY <1>a, <2>4 DEF ShapeInv
        <4>2. /\ Overlap(sock[l].addr, sock[l].dual, sock[j].addr, sock[j].dual)
              /\ Overlap(sock[j].addr, sock[j].dual, sock[l].addr, sock[l].dual)
          BY <2>2, <2>4, <2>5, <3>1, <3>2, <4>1, CoveringOverlap
        <4>3. j < l \/ l < j
          BY <2>4, <3>1, <3>2 DEF Ids
        <4>4. (sock[j].ra /\ sock[l].ra) \/ (sock[j].rp /\ sock[l].rp)
          BY <1>a, <2>4, <2>5, <3>2, <4>2, <4>3 DEF BindingsCompatible
        <4> QED
          BY <2>5, <3>2, <4>4 DEF Compatible
      <3>3. CASE sock[j].kind = "listener" /\ j = l
        BY <2>5, <3>3 DEF Compatible
      <3>4. CASE /\ sock[j].kind = "listener"
                 /\ ~(sock[j].port = s.port /\ Overlap(sock[j].addr, sock[j].dual, s.addr, s.dual))
        BY <2>5, <3>4 DEF Compatible
      <3>5. CASE sock[j].kind # "listener"
        BY <2>5, <2>6, <3>5 DEF Compatible, SameSlot
      <3> QED
        BY <3>2, <3>3, <3>4, <3>5
    <2>8. Admissible(s)
      BY <2>5, <2>6, <2>7 DEF Admissible
    <2>9. Register(s)
      BY <2>1 DEF s, child
    <2> QED
      BY <1>a, <1>2, <2>1, <2>5, <2>8, <2>9, RegisterPreserves DEF HandleSYN
  <1> QED
    BY <1>1, <1>2

\* The classification of a SYN and the return of a child by Accept preserve the
\* inductive invariant.
LEMMA SYNPreserves ==
    ASSUME IndInv,
           \/ \E address \in V4 \cup V6, p \in Ports : ClassifySYN(address, p)
           \/ \E i \in Ids : AcceptChild(i)
    PROVE  IndInv'
  <1>a. /\ TypeOK /\ NumberInv /\ ShapeInv /\ TableInv /\ StageInv /\ CauseInv
        /\ BindingsCompatible /\ RemovedAddressesAreVisited /\ ClosedForCause
    BY DEF IndInv
  <1>1. /\ UNCHANGED <<sock, registered, open, identity, history, network, closed, detached, updates>>
        /\ pending' \subseteq pending
    BY DEF ClassifySYN, AcceptChild
  <1>2. input' \in {None} \cup [kind : {"syn"}, addr : V4 \cup V6, port : Ports]
    BY <1>a DEF ClassifySYN, AcceptChild, TypeOK
  <1>3. TypeOK'
    BY <1>a, <1>1, <1>2 DEF TypeOK
  <1>4. NumberInv' /\ ShapeInv' /\ TableInv' /\ StageInv' /\ CauseInv'
    BY <1>a, <1>1 DEF NumberInv, Given, ShapeInv, TableInv, Of, StageInv, CauseInv, Blamed
  <1>5. BindingsCompatible' /\ RemovedAddressesAreVisited' /\ ClosedForCause'
    BY <1>a, <1>1 DEF BindingsCompatible, RemovedAddressesAreVisited, WillVisit, ClosedForCause
  <1> QED
    BY <1>3, <1>4, <1>5 DEF IndInv
-----------------------------------------------------------------------------
(* Closing. *)

\* What is forgotten is not referred to, and keeps its kind.
LEMMA Forgotten ==
    ASSUME TypeOK, ShapeInv, Forget
    PROVE  /\ sock' \in [Ids -> {None} \cup Bindings] /\ Given' = Given /\ ShapeInv'
           /\ \A j \in Given : sock'[j].kind = sock[j].kind
           /\ \A j \in Ids : j \in registered' \cup open' \cup detached' => sock'[j] = sock[j]
  <1>1. ASSUME NEW j \in Ids
        PROVE  \/ sock'[j] = sock[j]
               \/ /\ sock[j] # None /\ sock[j] \in Bindings /\ j \notin registered' \cup open' \cup detached'
                  /\ sock'[j] = Socket(sock[j].kind, Any4, 0, FALSE, 0, Exclusive, 0)
    BY DEF Forget, TypeOK
  <1>2. ASSUME NEW s \in Bindings
        PROVE  /\ Socket(s.kind, Any4, 0, FALSE, 0, Exclusive, 0) \in Bindings
               /\ Socket(s.kind, Any4, 0, FALSE, 0, Exclusive, 0).kind = s.kind
               /\ Socket(s.kind, Any4, 0, FALSE, 0, Exclusive, 0).port = 0
               /\ Socket(s.kind, Any4, 0, FALSE, 0, Exclusive, 0).dual = FALSE
    BY DEF Socket, Bindings, Exclusive, Addresses, Unspecified
  <1>3. sock' \in [Ids -> {None} \cup Bindings]
    <2>1. \A j \in Ids : sock'[j] \in {None} \cup Bindings
      BY <1>1, <1>2 DEF TypeOK
    <2> QED
      BY <2>1 DEF Forget
  <1>4. Given' = Given
    BY <1>1, <1>2, SocketIsNotNone DEF Given
  <1>5. \A j \in Given : sock'[j].kind = sock[j].kind
    BY <1>1, <1>2 DEF Given
  <1>6. ShapeInv'
    <2> SUFFICES ASSUME NEW j \in Given
                 PROVE  (sock'[j].dual => sock'[j].addr = Any6) /\ (sock'[j].kind = "ip" => sock'[j].port = 0)
      BY <1>4 DEF ShapeInv
    <2>1. j \in Ids
      BY DEF Given
    <2>2. CASE sock'[j] = sock[j]
      BY <2>2 DEF ShapeInv
    <2>3. CASE sock'[j] # sock[j]
      <3>1. /\ sock[j] \in Bindings
            /\ sock'[j] = Socket(sock[j].kind, Any4, 0, FALSE, 0, Exclusive, 0)
        BY <1>1, <2>1, <2>3
      <3>2. sock'[j].dual = FALSE /\ sock'[j].port = 0
        BY <1>2, <3>1
      <3> QED
        BY <3>2
    <2> QED
      BY <2>2, <2>3
  <1> QED
    BY <1>1, <1>3, <1>4, <1>5, <1>6

\* A closing step of an update may leave out of its list what is closed.
Trimmed ==
    /\ updates' \in [Calls -> {New, Done} \cup Running]
    /\ \A u \in Calls :
          /\ updates'[u].stage = updates[u].stage
          /\ updates'[u].todo \subseteq updates[u].todo
          /\ \A j \in updates[u].todo : j \in open' => j \in updates'[u].todo
          /\ updates[u] \in Running =>
                /\ updates'[u].net = updates[u].net
                /\ updates'[u].conns = updates[u].conns /\ updates'[u].udps = updates[u].udps
                /\ updates'[u].listener = updates[u].listener /\ updates'[u].ip = updates[u].ip

\* A step that only closes sockets preserves the inductive invariant.
LEMMA ClosingPreserves ==
    ASSUME IndInv, Forget, UNCHANGED <<network, closed, identity, input>>,
           registered' \subseteq registered, open' \subseteq open, pending' \subseteq pending,
           detached' \subseteq detached, open' \subseteq registered' \cup detached', Trimmed,
           history' \in [History -> SUBSET Ids],
           \A h \in History \ {"forced"} : history'[h] = history[h],
           \A j \in history'["forced"] : j \in history["forced"] \/ (j \in Given /\ Blamed(j))
    PROVE  IndInv'
  <1>a. /\ TypeOK /\ NumberInv /\ ShapeInv /\ TableInv /\ StageInv /\ CauseInv
        /\ BindingsCompatible /\ RemovedAddressesAreVisited /\ ClosedForCause
    BY DEF IndInv
  <1>b. /\ sock' \in [Ids -> {None} \cup Bindings] /\ Given' = Given /\ ShapeInv'
        /\ \A j \in Given : sock'[j].kind = sock[j].kind
        /\ \A j \in Ids : j \in registered' \cup open' \cup detached' => sock'[j] = sock[j]
    BY <1>a, Forgotten
  <1>1. TypeOK'
    BY <1>a, <1>b DEF TypeOK, Trimmed
  <1>2. \A u \in Calls : (updates'[u] \in Running) = (updates[u] \in Running)
    BY <1>a, UpdateRecords DEF TypeOK, Trimmed
  <1>3. /\ registered' \cup open' \cup pending' \cup detached' \subseteq Given
        /\ history'["unsupported"] = history["unsupported"] /\ history'["overtaken"] = history["overtaken"]
        /\ history'["late"] = history["late"]
        /\ \A j \in registered' \cup open' : j \in Ids /\ sock'[j] = sock[j]
    BY <1>a, <1>b DEF NumberInv, History, Given
  <1>4. NumberInv'
    <2>1. \A h \in History : history'[h] \subseteq Given'
      BY <1>a, <1>b, <1>3 DEF NumberInv, History
    <2>2. \A u \in Calls : updates'[u].todo \subseteq Given'
      BY <1>a, <1>b DEF NumberInv, Trimmed
    <2>3. \A u \in Calls : updates'[u] \in Running => updates'[u].conns \cup updates'[u].udps \subseteq Given'
      BY <1>a, <1>b, <1>2 DEF NumberInv, Trimmed
    <2>4. \E n \in 0 .. MaxSockets : Given' = 1 .. n
      BY <1>a, <1>b DEF NumberInv
    <2> QED
      BY <1>b, <1>3, <2>1, <2>2, <2>3, <2>4 DEF NumberInv
  <1>5. TableInv'
    <2>1. \A kind : Of(kind)' \subseteq Of(kind)
      BY <1>3 DEF Of
    <2> QED
      BY <1>a, <2>1 DEF TableInv
  <1>6. StageInv'
    BY <1>a DEF StageInv, Trimmed
  <1>7. CauseInv'
    <2> SUFFICES ASSUME NEW u \in Calls, updates'[u] \in Running
                 PROVE  /\ \A j \in open' : ~Usable(sock'[j], updates'[u].net) =>
                              j \in history'["unsupported"] \cup history'["overtaken"]
                        /\ \A j \in open' \cap (updates'[u].conns \cup updates'[u].udps) :
                              j \in history'["unsupported"]
                        /\ \A j \in open' \cap updates'[u].todo : Blamed(j)'
      BY DEF CauseInv
    <2>1. updates[u] \in Running
      BY <1>2
    <2> QED
      BY <1>a, <1>3, <2>1 DEF CauseInv, Blamed, Trimmed
  <1>8. BindingsCompatible'
    BY <1>a, <1>3 DEF BindingsCompatible
  <1>9. RemovedAddressesAreVisited'
    <2> SUFFICES ASSUME NEW j \in open', j \in registered', ~Usable(sock'[j], network)
                 PROVE  j \in history'["late"] \/ \E u \in Calls : WillVisit(u, j)'
      BY DEF RemovedAddressesAreVisited
    <2>1. j \in history["late"] \/ \E u \in Calls : WillVisit(u, j)
      BY <1>a, <1>3 DEF RemovedAddressesAreVisited
    <2>2. ASSUME NEW u \in Calls, WillVisit(u, j)
          PROVE  WillVisit(u, j)'
      <3>1. CASE j \in updates[u].todo
        BY <3>1 DEF WillVisit, Trimmed
      <3>2. CASE updates[u] \in Running
        BY <1>3, <2>2, <3>1, <3>2 DEF WillVisit, Trimmed
      <3> QED
        BY <1>a, <2>2, <3>1, <3>2, UpdateShape DEF WillVisit
    <2> QED
      BY <1>3, <2>1, <2>2
  <1>10. ClosedForCause'
    <2>1. history["forced"] \subseteq Given
      BY <1>a DEF NumberInv, History
    <2> QED
      BY <1>a, <1>b, <1>3, <2>1 DEF ClosedForCause, Blamed
  <1> QED
    BY <1>b, <1>1, <1>4, <1>5, <1>6, <1>7, <1>8, <1>9, <1>10 DEF IndInv

\* Close, the end of an aborted connection and Stack.Close's visit of one
\* detached socket preserve the inductive invariant.
LEMMA ClosePreserves ==
    ASSUME IndInv, NEW i \in Ids, Close(i) \/ RemoveTCP(i) \/ CloseDetached(i)
    PROVE  IndInv'
  <1>a. TypeOK /\ TableInv
    BY DEF IndInv
  <1>1. /\ Forget /\ UNCHANGED <<network, closed, identity, input, updates, history>>
        /\ registered' \subseteq registered /\ open' \subseteq open /\ pending' \subseteq pending
        /\ detached' \subseteq detached
    BY DEF Close, CloseSocket, RemoveTCP, CloseDetached
  <1>2. open' \subseteq registered' \cup detached'
    BY <1>a DEF Close, CloseSocket, RemoveTCP, CloseDetached, Ended, TableInv
  <1>3. Trimmed
    BY <1>a, <1>1 DEF Trimmed, TypeOK
  <1> QED
    BY <1>a, <1>1, <1>2, <1>3, ClosingPreserves DEF TypeOK, History

\* UpdateConfig's visit of one socket preserves the inductive invariant.
LEMMA CloseUnsupportedPreserves ==
    ASSUME IndInv, NEW u \in Calls, NEW i \in Ids, CloseUnsupported(u, i)
    PROVE  IndInv'
  <1>a. TypeOK /\ NumberInv /\ TableInv /\ CauseInv
    BY DEF IndInv
  <1>1. /\ Forget /\ UNCHANGED <<network, closed, identity, input, detached>>
        /\ registered' \subseteq registered /\ open' \subseteq open /\ pending' \subseteq pending
        /\ i \notin open'
    BY DEF CloseUnsupported, CloseSocket, Ended
  <1>2. open' \subseteq registered' \cup detached'
    BY <1>a DEF CloseUnsupported, CloseSocket, Ended, TableInv
  <1>3. updates[u] \in Running /\ i \in updates[u].todo /\ updates' = [updates EXCEPT ![u].todo = @ \ {i}]
    BY <1>a, UpdateShape DEF CloseUnsupported
  <1>4. Trimmed
    <2>1. [updates[u] EXCEPT !.todo = @ \ {i}] \in Running
      BY <1>3 DEF Running
    <2>2. updates' \in [Calls -> {New, Done} \cup Running]
      BY <1>a, <1>3, <2>1 DEF TypeOK
    <2>3. /\ updates'[u] = [updates[u] EXCEPT !.todo = @ \ {i}]
          /\ \A v \in Calls : v # u => updates'[v] = updates[v]
      BY <1>a, <1>3 DEF TypeOK
    <2>4. /\ updates'[u].stage = updates[u].stage /\ updates'[u].net = updates[u].net
          /\ updates'[u].todo = updates[u].todo \ {i}
          /\ updates'[u].conns = updates[u].conns /\ updates'[u].udps = updates[u].udps
          /\ updates'[u].listener = updates[u].listener /\ updates'[u].ip = updates[u].ip
      BY <1>3, <2>3 DEF Running
    <2> QED
      BY <1>1, <2>2, <2>3, <2>4 DEF Trimmed
  <1>5. /\ history' \in [History -> SUBSET Ids]
        /\ \A h \in History \ {"forced"} : history'[h] = history[h]
        /\ history'["forced"] = history["forced"] \cup ({i} \cap open)
    BY <1>a DEF CloseUnsupported, TypeOK, History
  <1>6. \A j \in history'["forced"] : j \in history["forced"] \/ (j \in Given /\ Blamed(j))
    BY <1>a, <1>3, <1>5 DEF CauseInv, NumberInv
  <1> QED
    BY <1>1, <1>2, <1>4, <1>5, <1>6, ClosingPreserves

\* Stack.Close's first section preserves the inductive invariant.
LEMMA CloseStackPreserves ==
    ASSUME IndInv, CloseStack
    PROVE  IndInv'
  <1> USE DEF CloseStack
  <1>a. /\ TypeOK /\ NumberInv /\ ShapeInv /\ TableInv /\ StageInv /\ CauseInv
        /\ BindingsCompatible /\ RemovedAddressesAreVisited /\ ClosedForCause
    BY DEF IndInv
  <1>1. TypeOK'
    BY <1>a DEF TypeOK
  <1>2. NumberInv' /\ ShapeInv' /\ StageInv' /\ CauseInv'
    BY <1>a DEF NumberInv, Given, ShapeInv, StageInv, CauseInv, Blamed
  <1>3. TableInv'
    BY <1>a DEF TableInv, Of
  <1>4. BindingsCompatible' /\ RemovedAddressesAreVisited' /\ ClosedForCause'
    BY <1>a DEF BindingsCompatible, RemovedAddressesAreVisited, ClosedForCause
  <1> QED
    BY <1>1, <1>2, <1>3, <1>4 DEF IndInv
-----------------------------------------------------------------------------
(* UpdateConfig. *)

\* UpdateConfig's publication preserves the inductive invariant: every open
\* socket the new network does not support is on one of its lists or in a
\* dispatcher it captured.
LEMMA UpdateConfigPreserves ==
    ASSUME IndInv, NEW u \in Calls, NEW n \in Networks, UpdateConfig(u, n)
    PROVE  IndInv'
  <1>a. /\ TypeOK /\ NumberInv /\ ShapeInv /\ TableInv /\ StageInv /\ CauseInv
        /\ BindingsCompatible /\ RemovedAddressesAreVisited /\ ClosedForCause
    BY DEF IndInv
  <1> DEFINE c == [stage |-> "passive", net |-> n, todo |-> {},
                   conns |-> Unsupported(Of("tcp"), n), udps |-> Unsupported(Of("udp"), n),
                   listener |-> Captured("listener"), ip |-> Captured("ip")]
             d == ListenerStage(c)
  <1>1. /\ network' = n /\ updates' = [updates EXCEPT ![u] = d]
        /\ UNCHANGED <<closed, sock, registered, open, pending, detached, identity, input>>
    BY DEF UpdateConfig
  <1>2. /\ history' \in [History -> SUBSET Ids]
        /\ history'["unsupported"] = history["unsupported"] \cup {i \in open : ~Usable(sock[i], n)}
        /\ history'["overtaken"] = history["overtaken"] /\ history'["late"] = history["late"]
        /\ history'["forced"] = history["forced"]
    BY <1>a DEF UpdateConfig, TypeOK, History
  <1>3. /\ registered \cup open \subseteq Given
        /\ \A i \in Given : i \in Ids /\ sock[i] \in Bindings /\ (Usable(sock[i], n) <=> Supported(sock[i], n))
    BY <1>a, SupportedIsUsable DEF NumberInv, Given, TypeOK, ShapeInv
  <1>4. /\ c \in Running /\ c.stage = "passive" /\ c.net = n /\ c.todo = {}
        /\ c.conns = Unsupported(Of("tcp"), n) /\ c.udps = Unsupported(Of("udp"), n)
        /\ c.listener = Captured("listener") /\ c.ip = Captured("ip")
    <2>1. Captured("listener") \in Nat /\ Captured("ip") \in Nat
      BY <1>a DEF Captured, TypeOK
    <2>2. Unsupported(Of("tcp"), n) \subseteq Ids /\ Unsupported(Of("udp"), n) \subseteq Ids
      BY <1>a DEF Unsupported, Of, TypeOK
    <2> QED
      BY <2>1, <2>2 DEF Running
  <1> HIDE DEF c
  <1>5. /\ d \in {Done} \cup Running /\ d.todo \subseteq c.conns \cup c.udps
        /\ d.stage \in {"done", "passive", "ip"} => d.todo = {}
        /\ d \in Running => /\ d.stage \in {"passive", "tcp", "udp", "ip"} /\ d.net = n
                            /\ d.conns = c.conns /\ d.udps = c.udps /\ d.listener = c.listener /\ d.ip = c.ip
        /\ c.listener # 0 => d = c
        /\ c.listener = 0 => /\ c.conns \subseteq d.todo /\ (d.stage # "tcp" => c.udps \subseteq d.todo)
                             /\ c.ip # 0 => d \in Running
    <2>1. CASE c.listener = 0
      <3>1. d = TCPStage(c)
        BY <2>1 DEF ListenerStage
      <3> HIDE DEF d
      <3>2. /\ Follows(c, d) /\ c.conns \subseteq d.todo
            /\ d.stage # "tcp" => c.udps \subseteq d.todo
        BY <1>4, <3>1, Stages
      <3>3. d.stage # "passive"
        BY <3>2 DEF Follows, Done
      <3> QED
        BY <1>4, <2>1, <3>2, <3>3 DEF Follows
    <2>2. CASE c.listener # 0
      BY <1>4, <2>2 DEF ListenerStage
    <2> QED
      BY <2>1, <2>2
  <1> HIDE DEF d
  <1>6. updates'[u] = d /\ \A v \in Calls : v # u => updates'[v] = updates[v]
    BY <1>a, <1>1 DEF TypeOK
  <1>7. c.conns \cup c.udps \subseteq registered
    BY <1>4 DEF Unsupported, Of
  <1>8. TypeOK'
    BY <1>a, <1>1, <1>2, <1>5 DEF TypeOK
  <1>9. NumberInv'
    <2>1. \A v \in Calls : updates'[v].todo \subseteq Given
      BY <1>a, <1>3, <1>5, <1>6, <1>7 DEF NumberInv
    <2>2. \A v \in Calls : updates'[v] \in Running => updates'[v].conns \cup updates'[v].udps \subseteq Given
      BY <1>a, <1>3, <1>5, <1>6, <1>7 DEF NumberInv
    <2>3. \A h \in History : history'[h] \subseteq Given
      BY <1>a, <1>2, <1>3 DEF NumberInv, History
    <2>4. Given' = Given
      BY <1>1 DEF Given
    <2> QED
      BY <1>a, <1>1, <2>1, <2>2, <2>3, <2>4 DEF NumberInv
  <1>10. ShapeInv' /\ TableInv'
    BY <1>a, <1>1 DEF ShapeInv, Given, TableInv, Of
  <1>11. StageInv'
    <2>1. d.stage # "new"
      BY <1>5 DEF Done
    <2> QED
      BY <1>a, <1>5, <1>6, <2>1 DEF StageInv
  <1>12. CauseInv'
    <2> SUFFICES ASSUME NEW v \in Calls, updates'[v] \in Running
                 PROVE  /\ \A j \in open : ~Usable(sock[j], updates'[v].net) =>
                              j \in history'["unsupported"] \cup history'["overtaken"]
                        /\ \A j \in open \cap (updates'[v].conns \cup updates'[v].udps) :
                              j \in history'["unsupported"]
                        /\ \A j \in open \cap updates'[v].todo : Blamed(j)'
      BY <1>1 DEF CauseInv
    <2>1. CASE v = u
      <3>1. \A j \in open \cap (c.conns \cup c.udps) : j \in history'["unsupported"]
        BY <1>2, <1>3, <1>4 DEF Unsupported
      <3> QED
        BY <1>2, <1>5, <1>6, <2>1, <3>1 DEF Blamed
    <2>2. CASE v # u
      BY <1>a, <1>1, <1>2, <1>6, <2>2 DEF CauseInv, Blamed
    <2> QED
      BY <2>1, <2>2
  <1>13. BindingsCompatible'
    BY <1>a, <1>1 DEF BindingsCompatible
  <1>14. RemovedAddressesAreVisited'
    <2> SUFFICES ASSUME NEW j \in open, j \in registered, ~Usable(sock[j], n)
                 PROVE  WillVisit(u, j)'
      BY <1>1 DEF RemovedAddressesAreVisited
    <2>1. ~Supported(sock[j], n) /\ sock[j].kind \in {"udp", "listener", "tcp", "ip"}
      BY <1>3 DEF Bindings
    <2>2. CASE sock[j].kind = "listener"
      <3>1. c.listener = identity["listener"] /\ c.listener # 0
        BY <1>a, <1>4, <2>2 DEF Captured, Of, TableInv
      <3> QED
        BY <1>1, <1>4, <1>5, <1>6, <2>1, <2>2, <3>1 DEF WillVisit
    <2>3. CASE sock[j].kind = "tcp"
      <3>1. j \in c.conns
        BY <1>4, <2>1, <2>3 DEF Unsupported, Of
      <3> QED
        BY <1>1, <1>4, <1>5, <1>6, <2>1, <2>3, <3>1 DEF WillVisit
    <2>4. CASE sock[j].kind = "udp"
      <3>1. j \in c.udps
        BY <1>4, <2>1, <2>4 DEF Unsupported, Of
      <3>2. d.stage = "tcp" => d \in Running
        BY <1>5 DEF Done
      <3> QED
        BY <1>1, <1>4, <1>5, <1>6, <2>1, <2>4, <3>1, <3>2 DEF WillVisit
    <2>5. CASE sock[j].kind = "ip"
      <3>1. c.ip = identity["ip"] /\ c.ip # 0
        BY <1>a, <1>4, <2>5 DEF Captured, Of, TableInv
      <3>2. d \in Running
        BY <1>4, <1>5, <3>1
      <3> QED
        BY <1>1, <1>5, <1>6, <2>1, <2>5, <3>1, <3>2 DEF WillVisit
    <2> QED
      BY <2>1, <2>2, <2>3, <2>4, <2>5
  <1>15. ClosedForCause'
    BY <1>a, <1>1, <1>2 DEF ClosedForCause
  <1> QED
    BY <1>8, <1>9, <1>10, <1>11, <1>12, <1>13, <1>14, <1>15 DEF IndInv

\* An update goes on to d: it keeps what it captured and loses no socket.
Advances(u, d) ==
    /\ updates[u] \in Running /\ updates' = [updates EXCEPT ![u] = d]
    /\ d \in {Done} \cup Running
    /\ d.todo \subseteq Given
    /\ d.stage \in {"done", "passive", "ip"} => d.todo = {}
    /\ d \in Running =>
          /\ d.net = updates[u].net /\ d.conns = updates[u].conns /\ d.udps = updates[u].udps
          /\ \A j \in open \cap d.todo : Blamed(j)
    /\ \A j \in open \cap registered : WillVisit(u, j) => WillVisit(u, j)'

\* A step of an update that closes nothing preserves the inductive invariant.
LEMMA AdvancePreserves ==
    ASSUME IndInv, NEW u \in Calls, NEW d, Advances(u, d),
           UNCHANGED <<network, closed, sock, registered, open, pending, detached, identity, input, history>>
    PROVE  IndInv'
  <1>a. /\ TypeOK /\ NumberInv /\ ShapeInv /\ TableInv /\ StageInv /\ CauseInv
        /\ BindingsCompatible /\ RemovedAddressesAreVisited /\ ClosedForCause
    BY DEF IndInv
  <1>1. updates'[u] = d /\ \A v \in Calls : v # u => updates'[v] = updates[v]
    BY <1>a DEF TypeOK, Advances
  <1>2. TypeOK'
    BY <1>a DEF TypeOK, Advances
  <1>3. NumberInv'
    <2>1. \A v \in Calls : updates'[v].todo \subseteq Given
      BY <1>a, <1>1 DEF NumberInv, Advances
    <2>2. \A v \in Calls : updates'[v] \in Running => updates'[v].conns \cup updates'[v].udps \subseteq Given
      BY <1>a, <1>1 DEF NumberInv, Advances
    <2>3. Given' = Given
      BY DEF Given
    <2> QED
      BY <1>a, <2>1, <2>2, <2>3 DEF NumberInv
  <1>4. ShapeInv' /\ TableInv'
    BY <1>a DEF ShapeInv, Given, TableInv, Of
  <1>5. StageInv'
    <2>1. d.stage # "new"
      BY DEF Advances, Done, Running
    <2> QED
      BY <1>a, <1>1, <2>1 DEF StageInv, Advances
  <1>6. CauseInv'
    <2> SUFFICES ASSUME NEW v \in Calls, updates'[v] \in Running
                 PROVE  /\ \A j \in open : ~Usable(sock[j], updates'[v].net) =>
                              j \in history["unsupported"] \cup history["overtaken"]
                        /\ \A j \in open \cap (updates'[v].conns \cup updates'[v].udps) :
                              j \in history["unsupported"]
                        /\ \A j \in open \cap updates'[v].todo : Blamed(j)
      BY DEF CauseInv, Blamed
    <2>1. CASE v = u
      BY <1>a, <1>1, <2>1 DEF CauseInv, Advances
    <2>2. CASE v # u
      BY <1>a, <1>1, <2>2 DEF CauseInv
    <2> QED
      BY <2>1, <2>2
  <1>7. BindingsCompatible' /\ ClosedForCause'
    BY <1>a DEF BindingsCompatible, ClosedForCause
  <1>8. RemovedAddressesAreVisited'
    <2> SUFFICES ASSUME NEW j \in open \cap registered, ~Usable(sock[j], network), j \notin history["late"]
                 PROVE  \E v \in Calls : WillVisit(v, j)'
      BY DEF RemovedAddressesAreVisited
    <2>1. PICK v \in Calls : WillVisit(v, j)
      BY <1>a DEF RemovedAddressesAreVisited
    <2>2. CASE v = u
      BY <2>1, <2>2 DEF Advances
    <2>3. CASE v # u
      <3>1. WillVisit(v, j)'
        BY <1>1, <2>1, <2>3 DEF WillVisit
      <3> QED
        BY <3>1
    <2> QED
      BY <2>2, <2>3
  <1> QED
    BY <1>2, <1>3, <1>4, <1>5, <1>6, <1>7, <1>8 DEF IndInv

\* The enumeration of a dispatcher preserves the inductive invariant: it is the
\* captured one as long as one of its sockets is registered.
LEMMA EnumeratePreserves ==
    ASSUME IndInv, NEW u \in Calls, Enumerate(u)
    PROVE  IndInv'
  <1>a. TypeOK /\ NumberInv /\ ShapeInv /\ TableInv /\ StageInv /\ CauseInv
    BY DEF IndInv
  <1> DEFINE c == updates[u]
             kind == IF c.stage = "passive" THEN "listener" ELSE "ip"
             found == Unsupported(Snapshot(kind, IF c.stage = "passive" THEN c.listener ELSE c.ip), c.net)
             d == [c EXCEPT !.stage = IF c.stage = "passive" THEN "listeners" ELSE "raw", !.todo = found]
  <1>1. c \in Running /\ c.stage \in {"passive", "ip"} /\ c.todo = {}
    BY <1>a, UpdateShape DEF Enumerate, StageInv
  <1>2. /\ found \subseteq registered
        /\ \A j \in found : sock[j].kind = kind /\ ~Supported(sock[j], c.net)
    BY DEF Unsupported, Snapshot, Of
  <1>3. registered \subseteq Given /\ registered \subseteq Ids
    BY <1>a DEF NumberInv, TypeOK
  <1>4. updates' = [updates EXCEPT ![u] = d]
    BY <1>1 DEF Enumerate
  <1>5. /\ d \in Running /\ d.todo = found /\ d.net = c.net /\ d.conns = c.conns /\ d.udps = c.udps
        /\ d.listener = c.listener /\ d.ip = c.ip
        /\ d.stage = IF c.stage = "passive" THEN "listeners" ELSE "raw"
    <2>1. found \in SUBSET Ids
      BY <1>2, <1>3
    <2> HIDE DEF found
    <2> QED
      BY <1>1, <2>1 DEF Running
  <1>6. updates'[u] = d
    BY <1>a, <1>4 DEF TypeOK
  <1> HIDE DEF d
  <1>7. ASSUME NEW j \in open, j \in found
        PROVE  Blamed(j)
    <2>1. /\ j \in Given /\ sock[j] \in Bindings /\ (sock[j].dual => sock[j].addr = Any6) /\ c.net \in Networks
          /\ sock[j].kind \in {"listener", "ip"} /\ ~Supported(sock[j], c.net)
      BY <1>a, <1>1, <1>2, <1>3, <1>7 DEF Given, TypeOK, ShapeInv, Running
    <2>2. ~Usable(sock[j], c.net)
      BY <2>1, SupportedIsUsable
    <2> QED
      BY <1>a, <1>1, <2>1, <2>2 DEF CauseInv, Blamed
  <1>8. ASSUME NEW j \in open \cap registered, WillVisit(u, j)
        PROVE  WillVisit(u, j)'
    <2>1. /\ sock' = sock /\ identity' = identity
      BY DEF Enumerate
    <2>2. CASE sock[j].kind = kind
      <3>1. j \in Of(kind) /\ ~Supported(sock[j], c.net)
        BY <1>1, <1>8, <2>2 DEF WillVisit, Of
      <3>2. j \in found
        BY <1>1, <1>8, <2>2, <3>1 DEF WillVisit, Unsupported, Snapshot
      <3> QED
        BY <1>5, <1>6, <3>2 DEF WillVisit
    <2>3. CASE sock[j].kind # kind
      BY <1>1, <1>5, <1>6, <1>8, <2>1, <2>3 DEF WillVisit
    <2> QED
      BY <2>2, <2>3
  <1>9. Advances(u, d)
    BY <1>1, <1>2, <1>3, <1>4, <1>5, <1>7, <1>8 DEF Advances
  <1> QED
    BY <1>9, AdvancePreserves DEF Enumerate

\* The next stage preserves the inductive invariant: none is passed over that
\* still has a socket to close.
LEMMA NextStagePreserves ==
    ASSUME IndInv, NEW u \in Calls, NextStage(u)
    PROVE  IndInv'
  <1>a. TypeOK /\ NumberInv /\ TableInv /\ CauseInv
    BY DEF IndInv
  <1> DEFINE c == updates[u]
  <1>1. /\ c \in Running /\ c.stage \in {"listeners", "tcp", "udp", "raw"} /\ c.todo = {}
        /\ UNCHANGED <<network, closed, sock, registered, open, pending, detached, identity, input, history>>
    BY <1>a, UpdateShape DEF NextStage
  <1>2. PICK d : /\ updates' = [updates EXCEPT ![u] = d]
                 /\ c.stage = "listeners" => d = TCPStage(c)
                 /\ c.stage = "tcp" => d = UDPStage(c)
                 /\ c.stage = "udp" => d = IPStage(c)
                 /\ c.stage = "raw" => d = Done
    BY <1>1 DEF NextStage
  <1>3. updates'[u] = d
    BY <1>a, <1>2 DEF TypeOK
  <1>4. Done.stage = "done" /\ Done.todo = {} /\ Done \notin Running
    BY DEF Done, Running
  <1>5. /\ d \in {Done} \cup Running /\ d.todo \subseteq c.conns \cup c.udps
        /\ d.stage \in {"done", "passive", "ip"} => d.todo = {}
        /\ d \in Running =>
              /\ d.stage \in {"tcp", "udp", "ip"} /\ d.net = c.net
              /\ d.conns = c.conns /\ d.udps = c.udps /\ d.listener = c.listener /\ d.ip = c.ip
        /\ c.stage # "raw" /\ c.ip # 0 => d \in Running
    BY <1>1, <1>2, <1>4, Stages DEF Follows
  <1>6. /\ c.stage = "listeners" => c.conns \subseteq d.todo /\ (d.stage # "tcp" => c.udps \subseteq d.todo)
        /\ c.stage = "tcp" => c.udps \subseteq d.todo
    BY <1>1, <1>2, Stages
  <1>7. c.conns \cup c.udps \subseteq Given /\ \A j \in open \cap (c.conns \cup c.udps) : Blamed(j)
    BY <1>a, <1>1 DEF NumberInv, CauseInv, Blamed
  <1>8. ASSUME NEW j \in open \cap registered, WillVisit(u, j)
        PROVE  WillVisit(u, j)'
    <2>1. ~Supported(sock[j], c.net) /\ c.stage # "raw"
      BY <1>1, <1>8 DEF WillVisit
    <2>2. CASE sock[j].kind = "tcp"
      BY <1>1, <1>3, <1>6, <1>8, <2>2 DEF WillVisit
    <2>3. CASE sock[j].kind = "udp"
      <3>1. j \in c.udps /\ c.stage \in {"listeners", "tcp"}
        BY <1>1, <1>8, <2>3 DEF WillVisit
      <3>2. CASE j \in d.todo
        BY <1>3, <3>2 DEF WillVisit
      <3>3. CASE j \notin d.todo
        <4>1. d.stage = "tcp" /\ d \in Running
          BY <1>4, <1>5, <1>6, <3>1, <3>3
        <4> QED
          BY <1>1, <1>3, <1>5, <2>1, <2>3, <3>1, <4>1 DEF WillVisit
      <3> QED
        BY <3>2, <3>3
    <2>4. CASE sock[j].kind = "ip"
      <3>1. c.ip = identity["ip"] /\ c.ip # 0
        BY <1>a, <1>1, <1>8, <2>4 DEF WillVisit, TableInv, Of
      <3> QED
        BY <1>1, <1>3, <1>5, <2>1, <2>4, <3>1 DEF WillVisit
    <2> QED
      BY <1>1, <1>8, <2>2, <2>3, <2>4 DEF WillVisit
  <1>9. Advances(u, d)
    BY <1>1, <1>2, <1>5, <1>7, <1>8 DEF Advances
  <1> QED
    BY <1>1, <1>9, AdvancePreserves
-----------------------------------------------------------------------------
(* The theorems. *)

\* NewStack establishes the inductive invariant.
LEMMA InitEstablishes ==
    ASSUME Init
    PROVE  IndInv
  <1> USE DEF Init
  <1>1. /\ \A u \in Calls : updates[u] = New
        /\ New.stage = "new" /\ New.todo = {} /\ New \notin Running
    BY DEF New, Running
  <1>2. TypeOK
    BY EndpointAssumptions DEF TypeOK
  <1>3. NumberInv
    <2>1. Given = 1 .. 0 /\ 0 \in 0 .. MaxSockets
      BY EndpointAssumptions DEF Given
    <2> QED
      BY <1>1, <2>1 DEF NumberInv
  <1>4. ShapeInv /\ TableInv
    BY DEF ShapeInv, TableInv, Given, Of
  <1>5. StageInv /\ CauseInv
    BY <1>1 DEF StageInv, CauseInv
  <1>6. BindingsCompatible /\ RemovedAddressesAreVisited
    BY DEF BindingsCompatible, RemovedAddressesAreVisited
  <1>7. ClosedForCause
    BY DEF ClosedForCause, History
  <1> QED
    BY <1>2, <1>3, <1>4, <1>5, <1>6, <1>7 DEF IndInv

\* Every step preserves it.
LEMMA StepPreserves ==
    ASSUME IndInv, [Next]_vars
    PROVE  IndInv'
  <1>1. ASSUME NEW req \in Requests, ListenUDP(req) \/ DialUDP(req)
        PROVE  IndInv'
    BY <1>1, ListenUDPPreserves, DialUDPPreserves
  <1>2. ASSUME NEW req \in Requests, ListenTCP(req) \/ DialTCP(req)
        PROVE  IndInv'
    BY <1>2, ListenTCPPreserves, DialTCPPreserves
  <1>3. ASSUME NEW req \in Requests, ListenIP(req) \/ DialIP(req)
        PROVE  IndInv'
    BY <1>3, IPPreserves
  <1>4. ASSUME \/ \E address \in V4 \cup V6, p \in Ports : ClassifySYN(address, p)
               \/ \E i \in Ids : AcceptChild(i)
        PROVE  IndInv'
    BY <1>4, SYNPreserves
  <1>5. CASE HandleSYN
    BY <1>5, HandleSYNPreserves
  <1>6. ASSUME NEW i \in Ids, Close(i) \/ RemoveTCP(i) \/ CloseDetached(i)
        PROVE  IndInv'
    BY <1>6, ClosePreserves
  <1>7. CASE CloseStack
    BY <1>7, CloseStackPreserves
  <1>8. ASSUME NEW u \in Calls, NEW n \in Networks, UpdateConfig(u, n)
        PROVE  IndInv'
    BY <1>8, UpdateConfigPreserves
  <1>9. ASSUME NEW u \in Calls, Enumerate(u) \/ NextStage(u)
        PROVE  IndInv'
    BY <1>9, EnumeratePreserves, NextStagePreserves
  <1>10. ASSUME NEW u \in Calls, NEW i \in Ids, CloseUnsupported(u, i)
         PROVE  IndInv'
    BY <1>10, CloseUnsupportedPreserves
  <1>11. CASE UNCHANGED vars
    <2>1. UNCHANGED <<network, closed, sock, registered, open, pending, detached, identity, updates, input,
                      history>>
      BY <1>11 DEF vars
    <2>2. (TypeOK' <=> TypeOK) /\ (NumberInv' <=> NumberInv) /\ (ShapeInv' <=> ShapeInv)
      BY <2>1 DEF TypeOK, NumberInv, ShapeInv, Given
    <2>3. (TableInv' <=> TableInv) /\ (StageInv' <=> StageInv) /\ (CauseInv' <=> CauseInv)
      BY <2>1 DEF TableInv, StageInv, CauseInv, Of, Blamed
    <2>4. (BindingsCompatible' <=> BindingsCompatible) /\ (ClosedForCause' <=> ClosedForCause)
      BY <2>1 DEF BindingsCompatible, ClosedForCause
    <2>5. RemovedAddressesAreVisited' <=> RemovedAddressesAreVisited
      BY <2>1 DEF RemovedAddressesAreVisited, WillVisit
    <2> QED
      BY <2>2, <2>3, <2>4, <2>5 DEF IndInv
  <1> QED
    BY <1>1, <1>2, <1>3, <1>4, <1>5, <1>6, <1>7, <1>8, <1>9, <1>10, <1>11 DEF Next

\* A dispatcher finds a socket for exactly what is covered: a UDP datagram or a
\* SYN reaches a socket bound to its destination, and an exact one before a
\* wildcard (udpOrdinaryConnectionLocked, tcpPassiveState.listener).
LEMMA LookupFinds ==
    ASSUME IndInv, NEW kind, NEW a \in V4 \cup V6, NEW p
    PROVE  LET found == Lookup(kind, a, p)
               covering == {i \in Of(kind) : sock[i].port = p /\ Covers(sock[i], a)}
           IN /\ found \subseteq covering
              /\ covering # {} => found # {}
              /\ (\E i \in covering : sock[i].addr = a) => \A i \in found : sock[i].addr = a
  <1>a. TypeOK /\ ShapeInv /\ NumberInv
    BY DEF IndInv
  <1> DEFINE level == Level(kind, a, p)
             found == Lookup(kind, a, p)
             covering == {i \in Of(kind) : sock[i].port = p /\ Covers(sock[i], a)}
  <1>1. found \subseteq covering
    BY <1>a, LookupCovers DEF Covers
  <1>2. level \subseteq Ids
    BY <1>a DEF Level, Bound, Of, TypeOK
  <1>3. found \subseteq level /\ (level # {} => found # {})
    BY <1>2, MaxIsMember DEF Lookup, FromGroup
  <1>4. \A i \in covering : sock[i].dual => sock[i].addr = Any6
    BY <1>a DEF ShapeInv, NumberInv, Of
  <1>5. Family(a) \in {4, 6} /\ \A w \in Unspecified : Family(w) = Family(a) =>
                                     w = IF Family(a) = 6 THEN Any6 ELSE Any4
    BY Families DEF Unspecified
  <1>6. ASSUME NEW i \in covering
        PROVE  level # {}
    <2>1. i \in Of(kind) /\ sock[i].port = p /\ Covers(sock[i], a)
      OBVIOUS
    <2>2. CASE sock[i].addr = a
      BY <2>1, <2>2 DEF Level, Bound
    <2>3. CASE sock[i].addr \in Unspecified /\ Family(sock[i].addr) = Family(a)
      <3>1. i \in Bound(kind, IF Family(a) = 6 THEN Any6 ELSE Any4, p)
        BY <1>5, <2>1, <2>3 DEF Bound
      <3> QED
        BY <3>1 DEF Level
    <2>4. CASE sock[i].dual
      <3>1. i \in Bound(kind, Any6, p)
        BY <1>4, <2>1, <2>4 DEF Bound
      <3>2. CASE Family(a) = 6
        BY <3>1, <3>2 DEF Level
      <3>3. CASE Family(a) = 4
        BY <2>4, <3>1, <3>3 DEF Level
      <3> QED
        BY <1>5, <3>2, <3>3
    <2> QED
      BY <2>1, <2>2, <2>3, <2>4 DEF Covers
  <1>7. ASSUME NEW i \in covering, sock[i].addr = a
        PROVE  level = Bound(kind, a, p)
    BY <1>7 DEF Level, Bound
  <1>8. (\E i \in covering : sock[i].addr = a) => \A i \in found : sock[i].addr = a
    BY <1>3, <1>7 DEF Bound
  <1> QED
    BY <1>1, <1>3, <1>6, <1>8

\* A packet reaches every IP socket that covers its destination
\* (connectionsForLocked).
LEMMA FanoutIsComplete ==
    ASSUME IndInv, NEW a \in V4 \cup V6
    PROVE  RawFanout(a) = {i \in Of("ip") : Covers(sock[i], a)}
  <1>a. ShapeInv /\ NumberInv
    BY DEF IndInv
  <1>1. \A i \in Of("ip") : sock[i].port = 0 /\ (sock[i].dual => sock[i].addr = Any6)
    BY <1>a DEF ShapeInv, NumberInv, Of
  <1>2. Family(a) \in {4, 6} /\ \A w \in Unspecified : Family(w) = Family(a) <=>
                                     w = IF Family(a) = 6 THEN Any6 ELSE Any4
    BY Families DEF Unspecified
  <1>3. Any4 \in Unspecified /\ Any6 \in Unspecified
    BY DEF Unspecified
  <1>4. \A i \in Of("ip") : i \in RawFanout(a) <=> Covers(sock[i], a)
    BY <1>1, <1>2, <1>3 DEF RawFanout, Bound, Covers
  <1>5. RawFanout(a) \subseteq Of("ip")
    BY DEF RawFanout, Bound
  <1> QED
    BY <1>4, <1>5

\* The inductive invariant holds in every reachable state of the tables.
THEOREM EndpointsInvariant == Spec => []IndInv
  BY InitEstablishes, StepPreserves, PTL DEF Spec

\* BindingsCompatible: whatever is registered, closed and reconfigured, two
\* sockets at one address and port agreed to it or one is the other's child
\* (udpEndpointAvailableLocked, tcpListenEndpointAvailableLocked, dialTCP).
THEOREM BindingsStayCompatible == Spec => []BindingsCompatible
  <1>1. IndInv => BindingsCompatible
    BY DEF IndInv
  <1> QED
    BY <1>1, EndpointsInvariant, PTL

\* EveryBindingReachable: no open socket is lost from the tables, and the
\* dispatchers find a socket for exactly what some binding covers
\* (udpOrdinaryConnectionLocked, tcpPassiveState.listener,
\* connectionsForLocked).
THEOREM BindingsAreReachable == Spec => []EveryBindingReachable
  <1>1. ASSUME IndInv
        PROVE  EveryBindingReachable
    <2>1. open \subseteq registered \cup detached
      BY <1>1 DEF IndInv, TableInv
    <2>2. network.locals \subseteq V4 \cup V6
      BY <1>1, EndpointAssumptions DEF IndInv, TypeOK
    <2>3. \A address \in network.locals :
              RawFanout(address) = {i \in Of("ip") : Covers(sock[i], address)}
      BY <1>1, <2>2, FanoutIsComplete
    <2>4. \A address \in network.locals : \A kind \in {"udp", "listener"}, p \in Ports :
              LET found == Lookup(kind, address, p)
                  covering == {i \in Of(kind) : sock[i].port = p /\ Covers(sock[i], address)}
              IN /\ found \subseteq covering
                 /\ covering # {} => found # {}
                 /\ (\E i \in covering : sock[i].addr = address)
                       => \A i \in found : sock[i].addr = address
      BY <1>1, <2>2, LookupFinds
    <2> QED
      BY <2>1, <2>3, <2>4 DEF EveryBindingReachable
  <1> QED
    BY <1>1, EndpointsInvariant, PTL

\* RemovedAddressesAreVisited: an open socket that the published network does
\* not support is still to be visited by an UpdateConfig in progress, unless it
\* is the child of a SYN that was never supported (UpdateConfig, handleSYN).
THEOREM UpdatesVisitAll == Spec => []RemovedAddressesAreVisited
  <1>1. IndInv => RemovedAddressesAreVisited
    BY DEF IndInv
  <1> QED
    BY <1>1, EndpointsInvariant, PTL

\* ClosedForCause: UpdateConfig closes no socket that every network of its life
\* supported, but for a listener or IP socket registered while an update was
\* still running (UpdateConfig).
THEOREM ClosesHaveCause == Spec => []ClosedForCause
  <1>1. IndInv => ClosedForCause
    BY DEF IndInv
  <1> QED
    BY <1>1, EndpointsInvariant, PTL
=============================================================================
