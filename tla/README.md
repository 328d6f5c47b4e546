# A TLA+ verification of the mihomo IP stack

This directory models the concurrent and stateful core of `mipstack`, the
userspace IP stack of mihomo, checks the models with TLC on small instances, and
proves the safety properties of eight of them with TLAPS for every instance.
Paths and line numbers below are relative to the repository root (`src/` in
`PROJECT.json`).

## The system

`Stack` turns IP packets of an L3 link into TCP, UDP and IP sockets.
`Stack.Write` parses inbound packets on the caller's goroutine, reassembles
fragments and dispatches; every TCP connection has one actor goroutine that owns
the protocol state; sockets are used by any number of application goroutines;
all output goes through one fixed-size link queue that `Stack.Read` drains.

| part | state | operations | what makes it hard |
|---|---|---|---|
| TCP receive path (`tcp.go`) | RCV.NXT, out-of-order scoreboard, read buffer, promised right edge, capacity | segment handling, promotion, window advertisement, `Read`, `CloseRead`, `Close`, `SetReadBuffer` | wrapping sequence numbers, retransmissions cut differently, application calls between two critical sections of the actor, windows that may not shrink |
| TCP actor inbox (`tcp.go`) | segment queue with a byte bound, wake flags, one-token channel, timer backlog snapshot | enqueue, `wakeActor`, departure notification, the actor's select loop, `finish` | coalesced notifications of many producers, timers against continuous input |
| Link queue and fair scheduler (`stack.go`) | slots, flow objects, new, old and detached lists, credits, readiness token | reserve, publish, displace, dequeue, `Close` | lock-free reservation against close, several readers and one token, starvation |
| Departure notification (`stack.go`) | slot word with generation and bits, table of waiters | publish, depart, `departureWaiter` | purely atomic operations, slot reuse (ABA) |
| Fragments (`fragment.go`) | table of datagrams with deadlines, global byte count, cleaner goroutine | `Write`, cleaner, eviction, discard, prune, `Close` | lock taken out of arrival order, admission decided before the lock, three limits |
| Passive open (`tcp.go`, `stack.go`) | connection table, listener with SYN backlog, pending set and accept channel | SYN, cookie ACK, handshake end, TIME-WAIT replacement, `Accept`, `Close`, `Stack.Close` | locks dropped between lookup and admission, successor listeners, two actors of one tuple |
| SYN cookies (`syn_cookie.go`) | epoch, recent period, per-listener scales of two periods | send, validate | stamps older than the lock section, configuration updates |
| TCP send path (`tcp.go`) | send buffer, retransmission scoreboard, timers | ACK processing, RTO, RACK/TLP, persist, pacing | late ACKs against timers, blocked output |
| TCP lifecycle (`tcp.go`, `stack.go`) | connection state, linger, TIME-WAIT | dial, handshake, `Close`, `finish` | simultaneous close, resets, replacement of TIME-WAIT |
| Congestion control (`congestion*.go`) | controller state | per-ACK updates | numeric |
| UDP and IP sockets (`udp.go`, `ip.go`) | bounded receive and error queues, deadlines | enqueue, read, close, deadlines | readers, deadlines and Close at once |
| Deadlines (`stack.go`) | timer and channel generation | set, wait, stop, expire | a callback of an old generation |
| Forwarders (`forwarder.go`) | requests and responders | admit, accept, reject, detach, close | handler goroutines with detached lifetimes |
| Multicast (`multicast.go`) | membership filters, report schedule | join, leave, query, report | aggregation and retransmissions |
| ICMP and path MTU (`icmp.go`, `stack.go`) | PMTU cache, rate limiter | errors, expiry | stale entries |
| Ports and reuse (`stack.go`, `reuse.go`) | bindings | bind, allocate, release | overlapping wildcards |
| Configuration and lifecycle (`stack.go`, `config.go`) | published network state | `UpdateConfig`, `Start`, `Close` | published first, applied to sockets and caches afterwards |
| Codec, options, control messages | none | encode, decode | byte-level |

The receive path hands data to the application and asks for acknowledgements;
the actor inbox is how segments, application wake-ups and queue departures reach
the actor; acknowledgements and data leave through the link queue, and the actor
waits there with departure notifications; fragments are put together before any
of this.

## Modules

Every module says in its head comment what one step stands for. A definition
commented "Mutant" is not part of the specification: it is the plausible mistake
that a property is shown to catch. Where TLC needs definitions for constants or a
symmetry set, a module `XMC` extends `X` and adds nothing else; proofs about `X` are in
`XProofs`.

**TCPReceive** - one established connection's receive half. Variables keep the
source's names: `receiveNext`, `outOfOrder`, `pieceStarts` (where held pieces
begin, because pieces are counted and never merged), `unread`
(`outOfOrderUnread`), `right` and `quantumReserve` (`tcpReceiveWindow`),
`readBuffer`, `capacity`. Bytes are their stream positions, so "in order" is
`Delivered[i] = i - 1`. The actor's handlers are split where the code releases the
socket lock or stores the count that `Close` reads after it (`PublishUnread`,
`PromoteEnd`); `Read`, `CloseRead`, `Close` and `SetReadBuffer` interleave with them.

**TCPSend** - the sending half: send buffer, scoreboard, `processAcknowledgment`
with SACK and DSACK, RTO with F-RTO, RACK, tail-loss probes, undo of spurious
recovery, persist, path-MTU retransmission, and the shared retransmission timer.
The actor's state is one record and one turn of the actor one action, composed of
operators in the order of the code; the peer, the lossy network and the device
queue surround it. **ReliableTransfer** is what it promises an application: units
are confirmed in order, and after the application has closed its side the transfer
completes or fails, and does not hang. `TransferIsReliable` instantiates it with a
refinement mapping and is checked as a property, liveness included.

**TCPConnection** - two hosts that run this stack over one tuple: active, passive
and simultaneous open, the established state's treatment of controls, half-close,
graceful and abortive close, orphaned FIN-WAIT, TIME-WAIT and its replacement by a
new SYN, keepalive, restart of a host, and segments that are lost, delayed and
duplicated. Streams are one byte per connection; the two modules above carry them.
Durations are compared where it matters: TIME-WAIT ends after every delayed segment
has expired and before the next FIN of a peer whose retransmission timeout has backed
off `SlowRTOs` times.

**ActorInbox** - `tcpSegmentQueue`, `updateActorWake`, the notification token and
`tcpTimerBacklog` around the select loop of `established`. One step is one lock
section, one atomic operation or one select case.

**OutputQueue** - `packetQueue` and `fairPacketScheduler` with publishers,
readers and a closer; each iteration of the dequeue loop is a step under the
scheduler lock.

**DepartureWaiter** - one slot of the queue at the granularity of single atomic
loads, stores and swaps.

**FragmentSet** - operators only: the plan of `fragmentRangeCursor` and the state
machine `addFragment`, with payload bytes known by their offsets. It has two users:
**PacketReassembly**, the public `IPPacketReassembly`, and **FragmentTable**, the
stack's table: `Write` calls that stamp, load the network state and then lock, the
cleaner goroutine, `UpdateConfig`'s store and its later prune, and `Close`.
**FragmentsMC** lets a behaviour use the one or the other.

**PassiveOpen** - one endpoint's listeners, one after the other, and the stack's
table `tcp`. A `Write` call looks up connection, dispatcher and listener
(`ReceiveSYN`, `ReceiveACK`: three read sections, any of which may be overtaken, so
what it found need not hold together) and takes `Stack.mu` again later (`AdmitSYN`,
`RefuseSYN`, `AdmitACK`, ...), where everything may have changed. The actor's
`Enqueue`, `Finish` (with the deferred `removeTCP`) and `RemovePending`, `Accept`'s
two halves, `Close`'s three (`Unregister`, `Publish`, `AbortNext`) and `StackClose`
interleave with them. The segments of a handshake are abstracted to its outcome;
`TCPConnection` has them.

**SynCookie** - what a cookie promises about the receive window scale:
`sendSYNCookie` split at its locks, `validateSYNCookie`, and configuration updates.

**Forwarder** - one fallback forwarder of any of the four kinds: the request its
handler decides, the endpoint it accepts (whose TCP handshake may fail), the
responder it detaches, replies under way, and `Close`, `Stack.Close` and
`UpdateConfig`, each split at `Stack.mu` and the forwarder's lock. Guards say how
the kinds differ.

**DatagramSocket** - one UDP or raw IP socket: receive queue, error queue and
pending error, the one-token notification of its readers, the generations of its
read deadline with their timers and callbacks, remembered targets, and closure.

**Endpoints** - the socket tables against the configuration: `ListenUDP`,
`DialUDP`, `ListenTCP`, `DialTCP`, `ListenIP`, `DialIP`, the children of inbound
SYNs, lookup, `Close`, `Stack.Close` and `UpdateConfig`, which publishes the
network under the lock and then visits listeners, connections, UDP and IP sockets
one at a time while other calls and other updates run.

**Multicast** - memberships, the interface filter they add up to, and the host
side of IGMP or MLD: change reports repeated against loss, answers to queries, the
fallback to older versions, suppression, configuration updates and closure, first of
the stack and then of the multicast state. The router is external and believes the reports that reach it.

How they fit: `TCPSend` and `TCPReceive` are the two halves of the connection whose
life `TCPConnection` follows; `PassiveOpen`, `Forwarder` and `Endpoints` say how it
enters and leaves the stack's tables; `ActorInbox` is how everything reaches its
actor, and `OutputQueue` with `DepartureWaiter` is where its packets go, abstracted
in `TCPSend` to a queue with `Slots` places. The halves of a configuration update
are actions of `Endpoints`, `Forwarder`, `FragmentTable` and `Multicast`.

## Runs

All of them hold.

| run | question | properties |
|---|---|---|
| `tcp_receive` | is the stream delivered once and in order, is EOF last, is nothing acknowledged and silently dropped, has every promised byte storage, does the right edge stay, does the stream complete? | `StreamFaithful`, `StorageSound`, `RightEdgeNeverRetreats`, `StreamCompletes` |
| `tcp_send` | does the sender implement the reliable transfer; has everything in flight a timer, is a closed window probed although the queue is full, are scoreboard and recovery true to the evidence? | `TransferIsReliable`, `LossTimerArmed`, `ZeroWindowProbed`, `ScoreboardTruthful`, `RecoverySound` |
| `tcp_connection` | do only handshakes of both sides complete, does no byte of another incarnation arrive, has a reset a cause, does every closed connection leave the table? | `HandshakeAgrees`, `StreamOfThisPeer`, `ResetHasCause`, `NothingRetained` |
| `actor_inbox` | is a wake-up lost, does a timer wait only for older segments, are timers, flags and departures served under continuous input? | `InboxSound`, `LateArrivalsDoNotDelayTimers`, `NothingStarves` |
| `output_queue` | are slots and flow lists conserved, does the flow store suffice, do two readers strand a packet, does a closed queue end empty? | `QueueSound`, `NoStrandedPacket` |
| `departure_waiter` | is a departure lost, completed twice, reported before its stamp or never? | `DeparturesSound`, `DepartureReported` |
| `fragments` | is a completed packet whole whatever fragments came, do the stack's own fragments reassemble in every order; are the table's bytes, deadlines and cleaner right although calls take the lock out of order? | `ReassemblyFaithful`, `TableFaithful` |
| `passive_open` | do table, backlog and accept queue stay exact, does a cookie stay with its listener; does Close abort what it never handed out, and only that? | `AdmissionSound`, `CloseIsExact` |
| `forwarder` | is each request decided and counted once, is nothing left behind after Close, is every endpoint owned, does an update leave nothing on a withdrawn destination? | `DecidedOnce`, `NothingLeftBehind`, `EndpointsOwned`, `UpdateIsComplete` |
| `datagram` | does a reader sleep beside a datagram, does an old deadline expire a read, is every charge held by something, does a blocked read return? | `NoStrandedReader`, `DeadlineIsTheLatest`, `ChargedIsHeld`, `BlockedReadsReturn` |
| `multicast` | is the dispatched filter the union of the memberships, does the router learn it, is every change and query answered, and does an answer leave? | `MembershipsSound`, `RouterLearns`, `ReportScheduled`, `AnswersLeave` |
| `endpoints` | can two bindings conflict, is each reachable, does an update visit every socket it must close, and close no other? | `BindingsCompatible`, `EveryBindingReachable`, `RemovedAddressesAreVisited`, `ClosedForCause` |

`QueueSound`, `InboxSound`, `AdmissionSound` and the like are conjunctions of parts
that their modules name one by one. Two supplementary configurations hold as well:
`OutputQueueLive.cfg` (with `OutputQueueMC`) for `EveryPacketLeaves`, every queued
packet leaves however new flows keep arriving, and the dequeue loop ends; and
`TCPConnectionStops.cfg` for `Stops`, no sequence of steps of two hosts and the network
goes on for ever, whatever the fairness.

### Observations

Places where the model shows a behaviour that a comment, a doc or a test of the
repository does not lead one to expect. Each has a configuration that makes TLC print
a shortest trace: `tlc -config <cfg> <module>`.

1. `TCPReceivePieces.cfg`, `TCPReceive`: `storeTCPOutOfOrder` (tcp.go:11953)
   refuses a scoreboard of more than `tcpMaximumOutOfOrder` pieces. Adjacent pieces
   are not merged, so 4096 small pieces above one missing byte refuse the
   retransmission of that byte for ever, although it lies in the advertised window.
   The comment at tcp.go:11963 speaks of merging, and tcp_test.go:4760 says that
   "out-of-order bytes cannot withdraw sequence space that was already promised".
   `StreamCompletes` therefore excepts a full scoreboard. It also excepts a
   `SetReadBuffer` below the bytes already held out of order, after which the
   missing in-order byte finds no room.
2. `TCPReceiveClose.cfg`, `TCPReceive`: `promoteTCPReceived` (tcp.go:11840)
   publishes the out-of-order count after the lock under which the bytes became
   readable. An application that reads them and closes at once finds the old count
   and resets the connection; `TestTCPCloseWithoutUnreadDataRemainsGraceful`
   (tcp_test.go:11758) expects a graceful close.
3. `SynCookie.cfg`, `SynCookie`: `recordSYNCookieScale` (tcp.go:4376) gives a SYN
   that was stamped in one cookie period, but takes the lock after the first cookie
   of the next, the scale of the new period. Its tag carries the old period, so the
   final ACK is given the old scale (or is refused). After a configuration update
   the two ends disagree about the window scale (comment at tcp.go:4356).
4. `TCPConnectionAbort.cfg`, `TCPConnection`: an abortive `Close`
   (tcp.go:6071-6117) sets `writeClosed` and clears `sendBuffer` under the lock and
   calls abort after it. In between `fillWindow` (tcp.go:8536) finds an empty buffer
   and a closed side and sends a FIN, so the peer may read a truncated stream that
   ends in `io.EOF` (README.md:769) before the reset arrives.
5. `TCPConnectionReplace.cfg`, `TCPConnection`: `replaceTCPTimeWait` ends the old
   owner with `abortWithoutReset` (tcp.go:5240), and `finish` discards what its
   application has not read, although it has called `CloseWrite` only and
   README.md:776-779 says that both half-closes "leave the opposite direction open".
6. `EndpointsLate.cfg`, `EndpointsMC`: `handleInboundPacket` classifies a SYN
   against the network it loaded before the lock (stack.go:4351), and `handleSYN`
   (tcp.go:5384) may register the child after `UpdateConfig` captured the
   connections to visit. The child lives on a removed address; the comment at
   stack.go:2577 says sockets bound to removed addresses are closed.
7. `EndpointsOvertaken.cfg`, `EndpointsMC`: of two concurrent `UpdateConfig` calls
   the older one may reach its visits last, with the network it was called with, and
   close IP sockets (ip.go:641) and listeners (tcp.go:4564) that the newer, published
   configuration supports. `ClosedForCause` excepts exactly this case; UDP sockets
   and TCP connections are checked again under the lock.
8. `TCPConnectionTimeWait.cfg`, `TCPConnection`: TIME-WAIT lasts 60 s
   (`tcpTimeWaitDuration`, tcp.go:195), while a retransmission timeout backs off to
   120 s (`tcpMaximumRTO`, tcp.go:168). When the last ACK and a retransmitted FIN are
   lost, the peer's next FIN may find the tuple gone and is answered with a reset,
   although both ends closed gracefully; the comment at tcp.go:193 says that TIME-WAIT
   "retains a completed tuple for twice the conventional 30-second maximum segment
   lifetime".
   `ResetHasCause` excepts exactly a FIN that backed off this far.

Observations without a trace of their own. `departureWaiter` (stack.go:2139) may
take the waiter of a newer generation for a stale one, when the slot is reused
between its loads, and complete it while that packet is queued: a spurious wake-up
and an early departure time, nothing lost (`DeparturesSound`). A fragment may be
stored after the prune that should have removed it, because
`reassembleParsedFragmentStatus` (fragment.go:648) decides admission before the
lock; delivery checks the destination again. A cumulative acknowledgement that
removes the range RACK marked lost leaves `haveRACKLoss` set until it is recomputed;
`RecoverySound` says what holds nevertheless. Two half-open hosts would exchange
challenge ACKs without end but for the limiter, which `TCPConnection` bounds by
`MaxChallenges`. Of concurrent `UpdateConfig` calls an older one may drop a multicast
membership the newer network allows, for the reason of observation 7. A group query
for more than 4096 sources is recorded without those beyond (multicast.go:2042).

### Bounds

Each is a named constant of its configuration.

- `tcp_receive`: a stream of 5 bytes, or of 3, in segments of up to 3, in a sequence
  space of 32 whose wrap lies inside the stream; capacities of 1 to 4, at most 2
  pieces and a window scale of 1 fill buffer, window and scoreboard in many states.
- `tcp_send`: 3 units and the FIN, a peer window of 2, one slot of the device queue,
  one retransmission before giving up, 2 acknowledgements in flight and one adverse
  event, on paths with and without SACK. A duplicate threshold of 1 makes fast
  recovery possible with so few units.
- `tcp_connection`: two dials over one tuple, the second after or beside the first;
  one host listens, the other writes, one half-closes; 2 SYN attempts, one RTO (which
  comes before TIME-WAIT ends: `SlowRTOs` is 1), one keepalive probe, 2 challenge ACKs, one fault (loss, delay, duplicate, early
  timeout, restart, outage, cancelled dial or abortive close).
- `actor_inbox`: a queue of 3 bytes and batches of 2, so that batch, queue and
  snapshot all differ. `output_queue`: 2 slots, 2 flows, 2 publishers, 2 readers and a
  closer, packets larger than the quantum, so that credits go negative.
  `departure_waiter`: 3 registrars and 3 generations of one slot: the owner, a rival
  of the same generation and one of another.
- `fragments`: an offset unit of 2, lengths and capacities around its multiples, all
  ranges in 10 bytes, three ECN codepoints, two identities; for the table 3 datagrams
  of two lifetimes and a limit of 2, up to 4 pieces and a limit of 2, a byte limit
  that one datagram just fills, 2 concurrent calls, and one update that withdraws a
  destination: each of the three limits evicts or refuses.
- `passive_open`: 2 tuples, 2 connection objects and a limit of one, 2 listeners after
  one another, 2 `Write` calls, a backlog and an accept queue of one.
- `forwarder`: 2 requests for 2 flows of one destination, one packet and one update
  under way, one undecided TCP request at a time; TCP, UDP and ICMP.
- `datagram`: 2 readers, capacities of 1 and 2, 4 calls (datagrams, errors, writes and
  deadlines together), so that a deadline is replaced twice with callbacks pending.
- `multicast`: one group, 2 sockets, one source and the stranger, 3 outside events
  (`Stack.Close` is one), one lost report of the two each change is sent with; both families.
- `endpoints`: 3 sockets of one protocol, 2 IPv4 and one IPv6 address and both
  wildcards, one port, 2 updates.

Deadlock checking is off throughout: a closed component, a finished stream or an
exhausted bound lets each of these systems stop. Liveness properties say where it must
not stop early.

### Fairness

The Go scheduler runs ready goroutines, `sync.Mutex` lets every waiter through, and
`select` chooses at random among ready cases; that is what the conditions say.

- `TCPReceive`: the actor returns to its select (a state predicate; with
  `WF_vars(Handler)` instead TLC finds the same in six times as long), takes a published wake-up and gets a
  slot for a pending ACK, the application reads what is there, and the peer retransmits
  the segment at RCV.NXT as long as it may (as TCP senders do).
- `TCPSend`: an actor that stays runnable takes a turn, the user timeout of a closed
  window fires, the embedder drains the device queue, and a peer that stopped reading
  reads again. Losses are bounded by `MaxFaults`; what then fails is the connection.
- `TCPConnection`: no goroutine of a host stays ready, none of its timers expired, no
  segment under way and no delayed segment around for ever. These are state predicates,
  quicker to evaluate than weak fairness of each action; they hide no spin, because
  without any fairness every behaviour stops (`Stops`), and in the state it stops in both
  forms say that none of these steps is possible.
- `ActorInbox`: the actor's reactive steps and the senders that have begun; no output
  slot is assumed. `DepartureWaiter`: the device and goroutines inside the protocol.
- `DatagramSocket`: started reads, deadline changes and callbacks proceed. No datagram,
  deadline or Close is assumed. `Multicast`: weak fairness of the worker and of time.

`Close`, `SetReadBuffer`, new input and other application choices are never fair. The
other runs check safety only.

## Proofs

A module `XProofs` extends `X` and proves its properties for every value of the
constants: any number of goroutines, sockets, connections, requests, calls and
configurations. Each has an inductive invariant `IndInv` whose parts are named, one
lemma per action (or per group of actions that change the same thing), frame lemmas
for the parts a step leaves alone, and a theorem per property. Every `IndInv` was
checked with TLC before it was proved.

| module | proved, each as `Spec => []...` |
|---|---|
| `ActorInboxProofs` | `TypeOK`, `NoLostWakeup`, `SnapshotStillQueued`, their conjunction `InboxSound`, the action property `LateArrivalsDoNotDelayTimers` |
| `DepartureWaiterProofs` | `TypeOK`, `NoLostDeparture`, `CompletedOnce`, `StampBeforeToken`, their conjunction `DeparturesSound` |
| `OutputQueueProofs` | `NoStrandedPacket`, `QueueSound` |
| `DatagramSocketProofs` | `NoStrandedReader`, `DeadlineIsTheLatest`, `ChargedIsHeld` |
| `PassiveOpenProofs` | `AdmissionSound`, `CloseIsExact` |
| `ForwarderProofs` | `DecidedOnce`, `NothingLeftBehind`, `EndpointsOwned`, `UpdateIsComplete` |
| `EndpointsProofs` | `BindingsCompatible`, `EveryBindingReachable`, `RemovedAddressesAreVisited`, `ClosedForCause` |
| `TCPReceiveProofs` | `StreamFaithful`, `StorageSound`, the action property `RightEdgeNeverRetreats` |

**ActorInbox.** `NoLostWakeup` speaks about a blocked actor only and is not inductive.
The invariant adds that only `finish` closes the queue, that the snapshot, the length
read at the loop head and the batch are bounded by the queue (only the actor dequeues),
that masked timers imply an unexhausted snapshot, and that outside a batch segments,
flags and departures are each announced by the token or by a goroutine about to send
it. It rests on `SizesPositive`, `BatchPositive` and `FlagSets`.

**DepartureWaiter.** An installed waiter stays in the table until exactly one goroutine
takes it out (`NotForgotten`, `OneCompleter`); a waiter whose call returned while it is
in the table is covered by the waiter bit of its pending generation or by a dequeuer
that has read that bit (`Covered`); hence a departure finds it. It rests on
`NoWaiterFresh` and `GenerationBound`.

**OutputQueue.** `NoStrandedPacket` follows from a stronger fact: a queued packet has a
token or a reader at the beginning of its call (`Announced`), which a reader in its
batch would not preserve. `SlotInv` places every slot and `ListInv` every flow, on lists
that are sequences without repetition; the list lemmas say what append, remove and taking
the head do to their contents. That `acquireFlow` never reaches its panic is a counting
argument (`EvictableExists`): a publisher holds a slot, so if every flow object had a
packet there would be an injection from as many flows as slots into one slot less. It
needs `StoreInv`, in which a flow under demotion counts as well. `LoopInv` says that the
dequeue loop runs only while a packet is left for it. It rests on `SlotsFinite`,
`ThreadsDisjoint`, `CreditPositive` and `SizesPositive`.

**DatagramSocket.** `NoStrandedReader` is not inductive: the reader that a sleeping one
relies on must be at the first message of its call (`TokenOrTaker`), or it might take a
datagram and return without passing on a pending error. For the deadline, a generation
that was not made yet is unused (`FreshIsUnused`, with `made` counting the `done`
channels), only the one in force has a timer (`TimerInForce`), and a callback that was
started belongs to that timer or to a closed socket (`CallbackInForce`). That the model
has generations enough (`GenerationsSuffice`) is part of the invariant, so the bound
excludes no behaviour. It rests on `SomeCapacity` and `BoundAssumption`.

**PassiveOpen.** The table holds exactly the running connections that were not replaced
(`TableInv`), and until `Close` takes them exactly the connections `Accept` has not
returned are pending (`PendingInv`). A connection is queued once and taken by one
`Accept` (`QueueInv`, a fact about sequences), and what `Close` took is aborted or on its
list and was never returned (`CloseInv`). `active` is the cardinality of the table, for
which finiteness of the table is part of the invariant. It rests on `Limits` and
`NoneFresh`.

**Forwarder.** `CallInv` ties the request's state to the call in progress, `CountInv`
says when it has been counted, `SetInv` and `CloserInv` what may be in the sets of a
forwarder that is open, closing or closed. `EndpointInv` says that an open connection is
in the table or on the list of the `Stack.Close` that emptied it. `UpdateInv` is the
strengthening of `UpdateIsComplete`: a connection or undecided request outside the
published network is still on the list of, or still to be scanned by, an update that
withdrew it, also when a later update published another network. It rests on
`KnownKinds`, `FlowLocals`, `KnownNetworks` and `DistinctScopes`.

**Endpoints.** Sockets are numbered in order and only given numbers are referred to
(`NumberInv`); the dual-stack wildcard is `::` (`ShapeInv`), without which two bindings
that cover one address need not overlap; an open socket is in a table or was taken by
`Stack.Close` (`TableInv`); what a running update has on its lists was unsupported by a
network of the socket's life (`CauseInv`). The lemmas about operators carry the weight:
the code's test is what the properties mean by usable (`SupportedIsUsable`), two bindings
that cover one address overlap (`CoveringOverlap`), a lookup finds exactly what is
covered (`LookupCovers`, `LookupFinds`), and no stage of an update is passed over that
has a socket to close (`Stages`). `Max` of a reuse group is a member of it by a
least-element argument (`MaxIsMember`). It rests on `EndpointAssumptions` and
`RequestAssumption`, which says what `validateListenNetwork` lets through.

**TCPReceive.** The proof works with stream positions: the distance from `ISN`. As long
as the stream and the window together span less than half of the sequence space, the
wrapping comparison is the comparison of positions (`PosLess`), adding is adding
(`PosAdd`), and a difference is a difference (`PosSub`), wherever the wrap lies. The
properties speak of the idle actor and are not inductive. `DeliveryInv` says at every
place of the handlers that what was read and is readable ends at RCV.NXT, with the FIN
counted from the step that consumes it and not from the later one that tells `Read`.
`ScoreboardInv` places the held bytes between RCV.NXT, the promised edge and a held FIN
and says that each run of them begins with a piece: without that the promotion loop might
overlook bytes (`LeastHeld`, `FirstPieceIs`, `PieceEndIs`). `PromiseInv` bounds the edge,
and while tuning is automatic the room it promises, through `NextWindowSound`, a lemma
about `tcpReceiveWindow.next` alone: the edge never moves back, and an edge that moves
promises no more than the free space and the reserve. `JobInv` keeps the window captured
at admission covered by the edge although a newer one may have been published since.
`UnreadInv` says what the count that `Close` reads may miss: only bytes of a segment whose
handler is still running and will reset the connection; `DiscardInv` and with it
`NoSilentDiscard` need exactly that. `StoredSound` (reassembly), `PieceRemoved`
(promotion) and `AppendStep` (delivery) carry the actions. It rests on `SequenceSpace`,
`Stream`, `Capacities` and `WindowFits`. In the code, with 2^32 numbers and a 16-bit field
scaled by at most 2^14, a window stays below 2^30 however large a buffer `SetReadBuffer`
asks for; what `WindowFits` limits is the stretch of stream followed, to about 2^30 bytes.

The proofs changed the models in six places. `ListenAddress` and `Level` had `CASE`
arms with overlapping guards, which TLA+ does not try in order: TLC took the first, the
formula said less. They are now ordered. Type invariants were completed, the deadline's
fresh generation became a counter instead of a choice, removal from a flow list takes
out the one place the flow has, as `outputFlowList.remove` does, the assumption of
`TCPReceive` that a window stays below half of the sequence space now counts the quantum
by which a reopening may exceed the capacity, and the assumptions above were written down.

Only model-checked, and why:

- all liveness properties, since TLAPS does not reason about fairness or `ENABLED` here,
  and with them the liveness part of `TransferIsReliable`;
- `ReassemblyFaithful` and `TableFaithful`, which need sums over sets of fragments and
  what folds over sequences compute, that is, induction over data;
- the invariants of `TCPSend` and the step part of `TransferIsReliable`: a turn publishes
  by a fold over the ranges it sends, and what the fold leaves of the scoreboard is
  induction over data again;
- the properties of `TCPConnection` and `Multicast`, which have not been attempted.

## Not modelled, and the plan

Left out for good: byte-level codecs, checksums and hashes, option setters and
getters, CUBIC and BBR arithmetic, and the interoperability tests. Left out so far: the
path MTU cache and the ICMP rate limiter (with the notification race at
stack.go:2868), timestamps and PAWS, the UDP sockets a forwarder accepted as occupants
of a port (stack.go:3492-3500; `Endpoints` has no forwarder, `Forwarder` no ports), `setMTU` in `OutputQueue`, the loopback queue, and
the TCP variant of the deadline.

What could be proved next: `MembershipsSound` of `Multicast`, which does not depend on the
report protocol, and `HandshakeAgrees` of `TCPConnection`.
