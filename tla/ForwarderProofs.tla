-------------------------- MODULE ForwarderProofs --------------------------
(***************************************************************************)
(* Machine-checked proofs about Forwarder, for any number of requests,     *)
(* flows, inbound packets and concurrent UpdateConfig calls: a request is  *)
(* decided and counted once, nothing it held is left behind, no two        *)
(* connections receive one flow, and an update misses nobody.              *)
(***************************************************************************)
EXTENDS Forwarder, FiniteSetTheorems, TLAPS

(* The inductive invariant. *)

Claims == {"accept", "listen", "detach", "detachForReplies"}
Bound == {"forget", "handshake", "finish"}

\* What a request was counted for by the time its terminal call returned.
Outcome(r) ==
    \/ state[r] \in {"accepted", "dropped", "rejected"}
    \/ state[r] = "detached" /\ responder[r] \in {"dropped", "rejected"}

\* Where the handler and the call in progress are, against the request's state.
CallShape(r) ==
    /\ state[r] = "free" => handler[r] = "none"
    /\ handler[r] = "none" => call[r] = "none" /\ state[r] = "free"
    /\ state[r] # "free" => flow[r] \in Flows
    /\ state[r] = "claimed" <=> call[r] \in Claims \cup Bound \cup {"drop"}
    /\ state[r] \in {"pending", "replyStarted", "claimed"} => handler[r] = "runs"
    /\ call[r] = "remove" => state[r] \in Terminal \ {"detached"} /\ handler[r] \in {"runs", "leaving"}
    /\ responder[r] # "none" => state[r] = "detached"

\* The counters: a decided request once, except while its call has still to count.
CountShape(r) ==
    /\ counted[r] = 1 \/ counted[r] = 0
    /\ counted[r] = 1 <=> Outcome(r) /\ call[r] # "remove"

\* The forwarder's sets, and what a closed forwarder has told its handlers.
SetShape(r) ==
    /\ r \in requests => state[r] \in {"pending", "replyStarted", "claimed"} \/ call[r] = "remove"
    /\ r \in handlers => protocol = "tcp" /\ handler[r] \in {"runs", "leaving", "cancel"}
    /\ protocol = "tcp" /\ handler[r] = "runs" =>
          r \in handlers \/ (closed /\ (doneClosed[r] \/ r \in closer.running))

\* Close takes everything, and a closed forwarder takes nothing more.
CloserInv ==
    /\ closed => requests = {} /\ handlers = {} /\ ~installed
    /\ ~installed => closed \/ closer.step = "lock"
    /\ closer.step # "idle" => ~installed
    /\ closer.step = "drop" => closed
    /\ closer.step # "drop" => closer.snapshot = {} /\ closer.running = {}
    /\ closer.step \in {"idle", "done"} => closer.conns = {}
    /\ closer.step = "done" => stackClosed
    /\ stackClosed => ~installed /\ table = {}

\* A connection exists from its registration on, and until it is closed it can
\* be found: in the table, or by the Stack.Close that emptied the table.
EndpointShape(r) ==
    /\ r \in table \cup closer.conns => endpoint[r] # "none"
    /\ \A u \in Updaters : r \in updater[u].conns => endpoint[r] # "none"
    /\ r \in table => scope[r] \in {flow[r], LocalOf[flow[r]]}
    /\ endpoint[r] # "none" =>
          /\ state[r] \in {"claimed", "accepted", "dropped"}
          /\ call[r] \notin Claims
    /\ endpoint[r] = "open" =>
          /\ state[r] = "accepted" \/ call[r] \in Bound
          /\ r \in table \/ (stackClosed /\ r \in closer.conns)

\* No two connections receive one flow.
OneOwner == \A f \in Flows : \A p, q \in Owners(f) : p = q

\* A connection outside the published configuration is still on the list of an
\* UpdateConfig that withdrew its destination.
ConnCovered(r) ==
    r \in table /\ endpoint[r] = "open" /\ LocalOf[flow[r]] \notin network =>
        \E u \in Updaters :
            /\ updater[u].step \in {"scan", "conns"}
            /\ r \in updater[u].conns /\ LocalOf[flow[r]] \notin updater[u].net

\* A TCP request outside it is still to be scanned, or Close is about to take it.
RequestCovered(r) ==
    (/\ protocol = "tcp" /\ installed
     /\ r \in requests /\ state[r] = "pending" /\ LocalOf[flow[r]] \notin network) =>
        \E u \in Updaters :
            updater[u].step = "scan" /\ LocalOf[flow[r]] \notin updater[u].net

CallInv == \A r \in Requests : CallShape(r)
CountInv == \A r \in Requests : CountShape(r)
SetInv == \A r \in Requests : SetShape(r)
EndpointInv == \A r \in Requests : EndpointShape(r)
UpdateInv == \A r \in Requests : ConnCovered(r) /\ RequestCovered(r)

IndInv ==
    /\ TypeOK /\ CallInv /\ CountInv /\ SetInv /\ CloserInv
    /\ EndpointInv /\ OneOwner /\ UpdateInv

-----------------------------------------------------------------------------
\* The variables each part of the invariant depends on.
LEMMA Frames ==
    ASSUME IndInv
    PROVE  /\ UNCHANGED <<requests, handlers, table, state, flow, call, handler, counted, endpoint, scope, responder>>
                => RequestTypeOK'
           /\ UNCHANGED <<installed, closed, stackClosed, doneClosed, reply>> => FlagsTypeOK'
           /\ UNCHANGED <<protocol, network, writer, closer, updater>> => ActorTypeOK'
           /\ UNCHANGED <<state, call, handler, flow, responder>> => CallInv'
           /\ UNCHANGED <<state, call, counted, responder>> => CountInv'
           /\ UNCHANGED <<protocol, requests, handlers, state, call, handler, closed, doneClosed, closer>>
                => SetInv'
           /\ UNCHANGED <<closed, requests, handlers, installed, closer, stackClosed, table>>
                => CloserInv'
           /\ UNCHANGED <<table, closer, updater, endpoint, scope, flow, state, call, stackClosed>>
                => EndpointInv'
           /\ UNCHANGED <<table, scope>> => OneOwner'
           /\ UNCHANGED <<table, endpoint, flow, network, updater, protocol, installed, requests, state>>
                => UpdateInv'
  <1>1. UNCHANGED <<requests, handlers, table, state, flow, call, handler, counted, endpoint, scope, responder>>
          => RequestTypeOK'
    BY DEF IndInv, TypeOK, RequestTypeOK
  <1>2. UNCHANGED <<installed, closed, stackClosed, doneClosed, reply>> => FlagsTypeOK'
    BY DEF IndInv, TypeOK, FlagsTypeOK
  <1>3. UNCHANGED <<protocol, network, writer, closer, updater>> => ActorTypeOK'
    BY DEF IndInv, TypeOK, ActorTypeOK
  <1>4. UNCHANGED <<state, call, handler, flow, responder>> => CallInv'
    BY DEF IndInv, CallInv, CallShape
  <1>5. UNCHANGED <<state, call, counted, responder>> => CountInv'
    BY DEF IndInv, CountInv, CountShape, Outcome
  <1>6. UNCHANGED <<protocol, requests, handlers, state, call, handler, closed, doneClosed, closer>>
          => SetInv'
    BY DEF IndInv, SetInv, SetShape
  <1>7. UNCHANGED <<closed, requests, handlers, installed, closer, stackClosed, table>>
          => CloserInv'
    BY DEF IndInv, CloserInv
  <1>8. UNCHANGED <<table, closer, updater, endpoint, scope, flow, state, call, stackClosed>>
          => EndpointInv'
    BY DEF IndInv, EndpointInv, EndpointShape
  <1>9. UNCHANGED <<table, scope>> => OneOwner'
    BY DEF IndInv, OneOwner, Owners
  <1>10. UNCHANGED <<table, endpoint, flow, network, updater, protocol, installed, requests, state>>
           => UpdateInv'
    BY DEF IndInv, UpdateInv, ConnCovered, RequestCovered
  <1> QED
    BY <1>1, <1>2, <1>3, <1>4, <1>5, <1>6, <1>7, <1>8, <1>9, <1>10

\* The lookup under Stack.mu preserves the inductive invariant.
LEMMA LookupPreserves ==
    ASSUME IndInv, NEW w \in Writers, NEW f \in Flows, Lookup(w, f)
    PROVE  IndInv'
  <1> USE DEF Lookup, stackVars, requestVars, handlerVars, endpointVars
  <1>a. /\ TypeOK /\ CallInv /\ CountInv /\ SetInv /\ CloserInv
        /\ EndpointInv /\ OneOwner /\ UpdateInv
    BY DEF IndInv
  <1>1. ActorTypeOK'
    BY <1>a DEF TypeOK, ActorTypeOK
  <1> QED
    BY <1>a, <1>1, Frames DEF IndInv, TypeOK

\* A refused packet preserves the inductive invariant.
LEMMA HandlePacketRefusesPreserves ==
    ASSUME IndInv, NEW w \in Writers, HandlePacketRefuses(w)
    PROVE  IndInv'
  <1> USE DEF HandlePacketRefuses, stackVars, requestVars, handlerVars, endpointVars
  <1>a. /\ TypeOK /\ CallInv /\ CountInv /\ SetInv /\ CloserInv
        /\ EndpointInv /\ OneOwner /\ UpdateInv
    BY DEF IndInv
  <1>1. ActorTypeOK'
    BY <1>a DEF TypeOK, ActorTypeOK
  <1> QED
    BY <1>a, <1>1, Frames DEF IndInv, TypeOK

\* An admitted packet preserves the inductive invariant.
LEMMA HandlePacketPreserves ==
    ASSUME IndInv, NEW w \in Writers, NEW r \in Requests, HandlePacket(w, r)
    PROVE  IndInv'
  <1> USE DEF HandlePacket, stackVars, endpointVars
  <1>a. /\ TypeOK /\ CallInv /\ CountInv /\ SetInv /\ CloserInv
        /\ EndpointInv /\ OneOwner /\ UpdateInv
    BY DEF IndInv
  <1>1. RequestTypeOK'
    BY <1>a DEF TypeOK, RequestTypeOK, ActorTypeOK
  <1>2. ActorTypeOK'
    BY <1>a DEF TypeOK, ActorTypeOK
  <1>3. CallInv'
    BY <1>a DEF TypeOK, RequestTypeOK, CallInv, CallShape, ActorTypeOK
  <1>4. CountInv'
    BY <1>a DEF CountInv, CountShape, Outcome
  <1>5. SetInv'
    BY <1>a DEF TypeOK, RequestTypeOK, SetInv, SetShape
  <1>6. CloserInv'
    BY <1>a DEF CloserInv
  <1>7. EndpointInv'
    BY <1>a DEF EndpointInv, EndpointShape
  <1>8. UpdateInv'
    <2> SUFFICES ASSUME NEW q \in Requests
                 PROVE  (ConnCovered(q) /\ RequestCovered(q))'
      BY DEF UpdateInv
    <2>1. CASE q = r
      <3>1. r \notin table
        BY <1>a DEF EndpointInv, EndpointShape
      <3>2. protocol = "tcp" => LocalOf[writer[w]] \in network
        BY DEF PolicyDrops
      <3> QED
        BY <1>a, <2>1, <3>1, <3>2 DEF TypeOK, RequestTypeOK, ConnCovered, RequestCovered
    <2>2. CASE q # r
      BY <1>a, <2>2 DEF UpdateInv, ConnCovered, RequestCovered
    <2> QED
      BY <2>1, <2>2
  <1> QED
    BY <1>a, <1>1, <1>2, <1>3, <1>4, <1>5, <1>6, <1>7, <1>8, Frames DEF IndInv, TypeOK

\* Drop and Reject preserve the inductive invariant.
LEMMA CompletePreserves ==
    ASSUME IndInv, NEW r \in Requests, NEW outcome \in {"dropped", "rejected"}, Complete(r, outcome)
    PROVE  IndInv'
  <1> USE DEF Complete, stackVars, endpointVars, actorVars
  <1>a. /\ TypeOK /\ CallInv /\ CountInv /\ SetInv /\ CloserInv
        /\ EndpointInv /\ OneOwner /\ UpdateInv
    BY DEF IndInv
  <1>1. RequestTypeOK'
    BY <1>a DEF TypeOK, RequestTypeOK, Terminal
  <1>2. CallInv'
    BY <1>a DEF TypeOK, RequestTypeOK, CallInv, CallShape, Claims, Bound, Terminal, Undecided
  <1>3. CountInv'
    BY <1>a DEF TypeOK, RequestTypeOK, CountInv, CountShape, Outcome, Undecided
  <1>4. SetInv'
    BY <1>a DEF TypeOK, RequestTypeOK, SetInv, SetShape
  <1>5. EndpointInv'
    BY <1>a DEF EndpointInv, EndpointShape, Undecided
  <1>6. UpdateInv'
    BY <1>a DEF UpdateInv, ConnCovered, RequestCovered
  <1> QED
    BY <1>a, <1>1, <1>2, <1>3, <1>4, <1>5, <1>6, Frames DEF IndInv, TypeOK

\* The claim of Accept, Listen or Detach preserves the inductive invariant.
LEMMA ClaimPreserves ==
    ASSUME IndInv, NEW r \in Requests, NEW operation \in Claims, Claim(r, operation)
    PROVE  IndInv'
  <1> USE DEF Claim, stackVars, endpointVars, actorVars
  <1>a. /\ TypeOK /\ CallInv /\ CountInv /\ SetInv /\ CloserInv
        /\ EndpointInv /\ OneOwner /\ UpdateInv
    BY DEF IndInv
  <1>1. RequestTypeOK'
    BY <1>a DEF TypeOK, RequestTypeOK
  <1>2. CallInv'
    BY <1>a DEF TypeOK, RequestTypeOK, CallInv, CallShape, Undecided
  <1>3. CountInv'
    BY <1>a DEF CountInv, CountShape, Outcome, Undecided
  <1>4. SetInv'
    BY <1>a DEF SetInv, SetShape
  <1>5. EndpointInv'
    BY <1>a DEF EndpointInv, EndpointShape, Undecided
  <1>6. UpdateInv'
    BY <1>a DEF UpdateInv, ConnCovered, RequestCovered
  <1> QED
    BY <1>a, <1>1, <1>2, <1>3, <1>4, <1>5, <1>6, Frames DEF IndInv, TypeOK

\* acceptTCP, acceptUDP and listenUDP preserve the inductive invariant.
LEMMA RegisterPreserves ==
    ASSUME IndInv, NEW r \in Requests, Register(r)
    PROVE  IndInv'
  <1> USE DEF Register, stackVars, requestVars, actorVars
  <1>a. /\ TypeOK /\ CallInv /\ CountInv /\ SetInv /\ CloserInv
        /\ EndpointInv /\ OneOwner /\ UpdateInv
    BY DEF IndInv
  <1>1. RequestTypeOK'
    <2>1. Wanted(r) \in Flows \cup Locals
      BY <1>a, FlowLocals DEF CallInv, CallShape, Wanted
    <2> QED
      BY <1>a, <2>1 DEF TypeOK, RequestTypeOK
  <1>2. CallInv'
    BY <1>a DEF CallInv, CallShape, Claims, Bound, MayRegister
  <1>3. CountInv'
    BY <1>a DEF CountInv, CountShape, Outcome, MayRegister
  <1>4. SetInv'
    BY <1>a DEF SetInv, SetShape, MayRegister
  <1>5. CloserInv'
    BY <1>a DEF CloserInv, MayRegister
  <1>6. EndpointInv'
    BY <1>a DEF TypeOK, RequestTypeOK, EndpointInv, EndpointShape, CallInv, CallShape, Claims,
       Bound, Wanted, MayRegister
  <1>7. OneOwner'
    <2>1. flow[r] \in Flows /\ r \notin table
      BY <1>a DEF CallInv, CallShape, EndpointInv, EndpointShape, Claims
    <2>2. \A q \in table : q \in Requests /\ flow[q] \in Flows /\ scope[q] \in {flow[q], LocalOf[flow[q]]}
      BY <1>a DEF TypeOK, RequestTypeOK, CallInv, CallShape, EndpointInv, EndpointShape
    <2>3. ASSUME NEW f \in Flows, NEW q \in table, q \in Owners(f)
          PROVE  Wanted(r) \notin {f, LocalOf[f]}
      <3>1. LocalOf[f] \in Locals /\ LocalOf[flow[q]] \in Locals /\ LocalOf[flow[r]] \in Locals
        BY <2>1, <2>2, FlowLocals
      <3>2. scope[q] \in {f, LocalOf[f]}
        BY <2>3 DEF Owners
      <3>3. LocalOf[flow[q]] = LocalOf[f]
        BY <2>2, <3>1, <3>2, DistinctScopes
      <3>4. CASE call[r] = "listen"
        BY <2>1, <3>1, <3>3, <3>4, DistinctScopes DEF Wanted, MayRegister, Conflict
      <3>5. CASE call[r] # "listen"
        <4>1. scope[q] \notin {flow[r], LocalOf[flow[r]]}
          BY <3>5 DEF MayRegister, Conflict, Owners
        <4> QED
          BY <2>1, <3>1, <3>2, <3>5, <4>1, DistinctScopes DEF Wanted
      <3> QED
        BY <3>4, <3>5
    <2>4. \A q \in Requests : scope'[q] = IF q = r THEN Wanted(r) ELSE scope[q]
      BY <1>a DEF TypeOK, RequestTypeOK
    <2>5. ASSUME NEW f \in Flows, NEW p \in Owners(f)', NEW q \in Owners(f)'
          PROVE  p = q
      <3>1. /\ p \in table \cup {r} /\ q \in table \cup {r}
            /\ scope'[p] \in {f, LocalOf[f]} /\ scope'[q] \in {f, LocalOf[f]}
        BY DEF Owners
      <3>2. p \in Requests /\ q \in Requests
        BY <2>2, <3>1
      <3>3. (p \in table => p \in Owners(f)) /\ (q \in table => q \in Owners(f))
        BY <2>1, <2>4, <3>1, <3>2 DEF Owners
      <3>4. (p = r \/ q = r) => Wanted(r) \in {f, LocalOf[f]}
        BY <2>4, <3>1
      <3> QED
        BY <1>a, <2>3, <3>1, <3>3, <3>4 DEF OneOwner
    <2> QED
      BY <2>5 DEF OneOwner
  <1>8. UpdateInv'
    <2>1. \A q \in Requests : RequestCovered(q)'
      BY <1>a DEF UpdateInv, RequestCovered
    <2>2. \A q \in Requests : ConnCovered(q)'
      BY <1>a DEF UpdateInv, ConnCovered, MayRegister
    <2> QED
      BY <2>1, <2>2 DEF UpdateInv
  <1> QED
    BY <1>a, <1>1, <1>2, <1>3, <1>4, <1>5, <1>6, <1>7, <1>8, Frames DEF IndInv, TypeOK

\* A refused registration preserves the inductive invariant.
LEMMA RegisterFailsPreserves ==
    ASSUME IndInv, NEW r \in Requests, RegisterFails(r)
    PROVE  IndInv'
  <1> USE DEF RegisterFails, stackVars, requestVars, endpointVars, actorVars
  <1>a. /\ TypeOK /\ CallInv /\ CountInv /\ SetInv /\ CloserInv
        /\ EndpointInv /\ OneOwner /\ UpdateInv
    BY DEF IndInv
  <1>1. RequestTypeOK'
    BY <1>a DEF TypeOK, RequestTypeOK
  <1>2. CallInv'
    BY <1>a DEF CallInv, CallShape, Claims
  <1>3. CountInv'
    BY <1>a DEF CountInv, CountShape, Outcome
  <1>4. SetInv'
    BY <1>a DEF SetInv, SetShape
  <1>5. EndpointInv'
    BY <1>a DEF EndpointInv, EndpointShape, Claims
  <1> QED
    BY <1>a, <1>1, <1>2, <1>3, <1>4, <1>5, Frames DEF IndInv, TypeOK

\* acceptTCP's removal of its request preserves the inductive invariant.
LEMMA ForgetPreserves ==
    ASSUME IndInv, NEW r \in Requests, Forget(r)
    PROVE  IndInv'
  <1> USE DEF Forget, stackVars, endpointVars, actorVars
  <1>a. /\ TypeOK /\ CallInv /\ CountInv /\ SetInv /\ CloserInv
        /\ EndpointInv /\ OneOwner /\ UpdateInv
    BY DEF IndInv
  <1>1. RequestTypeOK'
    BY <1>a DEF TypeOK, RequestTypeOK
  <1>2. CallInv'
    BY <1>a DEF CallInv, CallShape, Bound
  <1>3. CountInv'
    BY <1>a DEF CountInv, CountShape, Outcome
  <1>4. SetInv'
    BY <1>a DEF SetInv, SetShape
  <1>5. CloserInv'
    BY <1>a DEF CloserInv
  <1>6. EndpointInv'
    BY <1>a DEF EndpointInv, EndpointShape, Claims, Bound
  <1>7. UpdateInv'
    BY <1>a DEF UpdateInv, ConnCovered, RequestCovered
  <1> QED
    BY <1>a, <1>1, <1>2, <1>3, <1>4, <1>5, <1>6, <1>7, Frames DEF IndInv, TypeOK

\* A completed handshake preserves the inductive invariant.
LEMMA HandshakeDonePreserves ==
    ASSUME IndInv, NEW r \in Requests, HandshakeDone(r)
    PROVE  IndInv'
  <1> USE DEF HandshakeDone, stackVars, requestVars, endpointVars, actorVars
  <1>a. /\ TypeOK /\ CallInv /\ CountInv /\ SetInv /\ CloserInv
        /\ EndpointInv /\ OneOwner /\ UpdateInv
    BY DEF IndInv
  <1>1. RequestTypeOK'
    BY <1>a DEF TypeOK, RequestTypeOK
  <1>2. CallInv'
    BY <1>a DEF CallInv, CallShape, Bound
  <1>3. CountInv'
    BY <1>a DEF CountInv, CountShape, Outcome
  <1>4. SetInv'
    BY <1>a DEF SetInv, SetShape
  <1>5. EndpointInv'
    BY <1>a DEF EndpointInv, EndpointShape, Claims, Bound
  <1> QED
    BY <1>a, <1>1, <1>2, <1>3, <1>4, <1>5, Frames DEF IndInv, TypeOK

\* A failed handshake preserves the inductive invariant.
LEMMA HandshakeFailsPreserves ==
    ASSUME IndInv, NEW r \in Requests, HandshakeFails(r)
    PROVE  IndInv'
  <1> USE DEF HandshakeFails, stackVars, requestVars, actorVars
  <1>a. /\ TypeOK /\ CallInv /\ CountInv /\ SetInv /\ CloserInv
        /\ EndpointInv /\ OneOwner /\ UpdateInv
    BY DEF IndInv
  <1>1. RequestTypeOK'
    BY <1>a DEF TypeOK, RequestTypeOK
  <1>2. CallInv'
    BY <1>a DEF CallInv, CallShape, Bound
  <1>3. CountInv'
    BY <1>a DEF CountInv, CountShape, Outcome
  <1>4. SetInv'
    BY <1>a DEF SetInv, SetShape
  <1>5. EndpointInv'
    BY <1>a DEF TypeOK, RequestTypeOK, EndpointInv, EndpointShape, CallInv, CallShape, Claims, Bound
  <1>6. UpdateInv'
    BY <1>a DEF UpdateInv, ConnCovered, RequestCovered
  <1> QED
    BY <1>a, <1>1, <1>2, <1>3, <1>4, <1>5, <1>6, Frames DEF IndInv, TypeOK

\* removeTCP preserves the inductive invariant.
LEMMA RemoveTCPPreserves ==
    ASSUME IndInv, NEW r \in Requests, RemoveTCP(r)
    PROVE  IndInv'
  <1> USE DEF RemoveTCP, stackVars, requestVars, handlerVars, actorVars
  <1>a. /\ TypeOK /\ CallInv /\ CountInv /\ SetInv /\ CloserInv
        /\ EndpointInv /\ OneOwner /\ UpdateInv
    BY DEF IndInv
  <1>1. RequestTypeOK'
    BY <1>a DEF TypeOK, RequestTypeOK
  <1>2. CloserInv'
    BY <1>a DEF CloserInv
  <1>3. EndpointInv'
    BY <1>a DEF EndpointInv, EndpointShape
  <1>4. OneOwner'
    BY <1>a DEF OneOwner, Owners
  <1>5. UpdateInv'
    BY <1>a DEF UpdateInv, ConnCovered, RequestCovered
  <1> QED
    BY <1>a, <1>1, <1>2, <1>3, <1>4, <1>5, Frames DEF IndInv, TypeOK

\* finish preserves the inductive invariant.
LEMMA FinishPreserves ==
    ASSUME IndInv, NEW r \in Requests, Finish(r)
    PROVE  IndInv'
  <1> USE DEF Finish, stackVars, endpointVars, actorVars
  <1>a. /\ TypeOK /\ CallInv /\ CountInv /\ SetInv /\ CloserInv
        /\ EndpointInv /\ OneOwner /\ UpdateInv
    BY DEF IndInv
  <1>1. RequestTypeOK'
    BY <1>a DEF TypeOK, RequestTypeOK, Terminal
  <1>2. CallInv'
    BY <1>a DEF TypeOK, RequestTypeOK, CallInv, CallShape, Claims, Bound, Terminal
  <1>3. CountInv'
    BY <1>a DEF TypeOK, RequestTypeOK, CountInv, CountShape, Outcome, CallInv, CallShape, Bound
  <1>4. SetInv'
    BY <1>a DEF TypeOK, RequestTypeOK, SetInv, SetShape
  <1>5. EndpointInv'
    BY <1>a DEF TypeOK, RequestTypeOK, EndpointInv, EndpointShape, CallInv, CallShape, Claims, Bound
  <1>6. UpdateInv'
    BY <1>a DEF UpdateInv, ConnCovered, RequestCovered
  <1> QED
    BY <1>a, <1>1, <1>2, <1>3, <1>4, <1>5, <1>6, Frames DEF IndInv, TypeOK

\* remove and count preserve the inductive invariant.
LEMMA RemovePreserves ==
    ASSUME IndInv, NEW r \in Requests, Remove(r)
    PROVE  IndInv'
  <1> USE DEF Remove, stackVars, endpointVars, actorVars
  <1>a. /\ TypeOK /\ CallInv /\ CountInv /\ SetInv /\ CloserInv
        /\ EndpointInv /\ OneOwner /\ UpdateInv
    BY DEF IndInv
  <1>1. RequestTypeOK'
    BY <1>a DEF TypeOK, RequestTypeOK
  <1>2. CallInv'
    BY <1>a DEF CallInv, CallShape, Claims, Bound
  <1>3. CountInv'
    BY <1>a DEF TypeOK, RequestTypeOK, CountInv, CountShape, Outcome, CallInv, CallShape, Terminal
  <1>4. SetInv'
    BY <1>a DEF SetInv, SetShape
  <1>5. CloserInv'
    BY <1>a DEF CloserInv
  <1>6. EndpointInv'
    BY <1>a DEF EndpointInv, EndpointShape, CallInv, CallShape, Claims, Terminal
  <1>7. UpdateInv'
    BY <1>a DEF UpdateInv, ConnCovered, RequestCovered
  <1> QED
    BY <1>a, <1>1, <1>2, <1>3, <1>4, <1>5, <1>6, <1>7, Frames DEF IndInv, TypeOK

\* detach preserves the inductive invariant.
LEMMA DetachPreserves ==
    ASSUME IndInv, NEW r \in Requests, Detach(r)
    PROVE  IndInv'
  <1> USE DEF Detach, stackVars, endpointVars, actorVars
  <1>a. /\ TypeOK /\ CallInv /\ CountInv /\ SetInv /\ CloserInv
        /\ EndpointInv /\ OneOwner /\ UpdateInv
    BY DEF IndInv
  <1>1. RequestTypeOK'
    BY <1>a DEF TypeOK, RequestTypeOK, Terminal
  <1>2. CallInv'
    BY <1>a DEF TypeOK, RequestTypeOK, CallInv, CallShape, Claims, Bound
  <1>3. CountInv'
    BY <1>a DEF CountInv, CountShape, Outcome, CallInv, CallShape, Claims
  <1>4. SetInv'
    BY <1>a DEF SetInv, SetShape
  <1>5. CloserInv'
    BY <1>a DEF CloserInv
  <1>6. EndpointInv'
    BY <1>a DEF EndpointInv, EndpointShape, Claims
  <1>7. UpdateInv'
    BY <1>a DEF UpdateInv, ConnCovered, RequestCovered
  <1> QED
    BY <1>a, <1>1, <1>2, <1>3, <1>4, <1>5, <1>6, <1>7, Frames DEF IndInv, TypeOK

\* A refused detach preserves the inductive invariant.
LEMMA DetachRefusedPreserves ==
    ASSUME IndInv, NEW r \in Requests, DetachRefused(r)
    PROVE  IndInv'
  <1> USE DEF DetachRefused, stackVars, requestVars, endpointVars, actorVars
  <1>a. /\ TypeOK /\ CallInv /\ CountInv /\ SetInv /\ CloserInv
        /\ EndpointInv /\ OneOwner /\ UpdateInv
    BY DEF IndInv
  <1>1. RequestTypeOK'
    BY <1>a DEF TypeOK, RequestTypeOK
  <1>2. CallInv'
    BY <1>a DEF CallInv, CallShape, Claims
  <1>3. CountInv'
    BY <1>a DEF CountInv, CountShape, Outcome
  <1>4. SetInv'
    BY <1>a DEF SetInv, SetShape
  <1>5. EndpointInv'
    BY <1>a DEF EndpointInv, EndpointShape, Claims
  <1> QED
    BY <1>a, <1>1, <1>2, <1>3, <1>4, <1>5, Frames DEF IndInv, TypeOK

\* beginReply preserves the inductive invariant.
LEMMA BeginReplyPreserves ==
    ASSUME IndInv, NEW r \in Requests, BeginReply(r)
    PROVE  IndInv'
  <1> USE DEF BeginReply, stackVars, endpointVars, actorVars
  <1>a. /\ TypeOK /\ CallInv /\ CountInv /\ SetInv /\ CloserInv
        /\ EndpointInv /\ OneOwner /\ UpdateInv
    BY DEF IndInv
  <1>1. RequestTypeOK'
    BY <1>a DEF TypeOK, RequestTypeOK
  <1>2. FlagsTypeOK'
    BY <1>a DEF TypeOK, FlagsTypeOK
  <1>3. CallInv'
    BY <1>a DEF CallInv, CallShape, Terminal, Undecided
  <1>4. CountInv'
    BY <1>a DEF CountInv, CountShape, Outcome, Undecided
  <1>5. SetInv'
    BY <1>a DEF SetInv, SetShape
  <1>6. EndpointInv'
    BY <1>a DEF EndpointInv, EndpointShape, Undecided
  <1>7. UpdateInv'
    BY <1>a DEF UpdateInv, ConnCovered, RequestCovered
  <1> QED
    BY <1>a, <1>1, <1>2, <1>3, <1>4, <1>5, <1>6, <1>7, Frames DEF IndInv, TypeOK

\* The end of a reply preserves the inductive invariant.
LEMMA EndReplyPreserves ==
    ASSUME IndInv, NEW r \in Requests, EndReply(r)
    PROVE  IndInv'
  <1> USE DEF EndReply, stackVars, requestVars, endpointVars, actorVars
  <1>a. /\ TypeOK /\ CallInv /\ CountInv /\ SetInv /\ CloserInv
        /\ EndpointInv /\ OneOwner /\ UpdateInv
    BY DEF IndInv
  <1>1. FlagsTypeOK'
    BY <1>a DEF TypeOK, FlagsTypeOK
  <1> QED
    BY <1>a, <1>1, Frames DEF IndInv, TypeOK

\* The return of the handler preserves the inductive invariant.
LEMMA HandlerReturnsPreserves ==
    ASSUME IndInv, NEW r \in Requests, HandlerReturns(r)
    PROVE  IndInv'
  <1> USE DEF HandlerReturns, stackVars, endpointVars, actorVars
  <1>a. /\ TypeOK /\ CallInv /\ CountInv /\ SetInv /\ CloserInv
        /\ EndpointInv /\ OneOwner /\ UpdateInv
    BY DEF IndInv
  <1>1. RequestTypeOK'
    BY <1>a DEF TypeOK, RequestTypeOK, Terminal
  <1>2. CallInv'
    BY <1>a DEF TypeOK, RequestTypeOK, CallInv, CallShape, Claims, Bound, Terminal
  <1>3. CountInv'
    BY <1>a DEF TypeOK, RequestTypeOK, CountInv, CountShape, Outcome
  <1>4. SetInv'
    BY <1>a DEF TypeOK, RequestTypeOK, SetInv, SetShape
  <1>5. EndpointInv'
    BY <1>a DEF EndpointInv, EndpointShape
  <1>6. UpdateInv'
    BY <1>a DEF UpdateInv, ConnCovered, RequestCovered
  <1> QED
    BY <1>a, <1>1, <1>2, <1>3, <1>4, <1>5, <1>6, Frames DEF IndInv, TypeOK

\* The deferred cancel preserves the inductive invariant.
LEMMA HandlerCancelsPreserves ==
    ASSUME IndInv, NEW r \in Requests, HandlerCancels(r)
    PROVE  IndInv'
  <1> USE DEF HandlerCancels, stackVars, endpointVars, actorVars
  <1>a. /\ TypeOK /\ CallInv /\ CountInv /\ SetInv /\ CloserInv
        /\ EndpointInv /\ OneOwner /\ UpdateInv
    BY DEF IndInv
  <1>1. RequestTypeOK'
    BY <1>a DEF TypeOK, RequestTypeOK
  <1>2. FlagsTypeOK'
    BY <1>a DEF TypeOK, FlagsTypeOK
  <1>3. CallInv'
    BY <1>a DEF CallInv, CallShape
  <1>4. SetInv'
    BY <1>a DEF SetInv, SetShape
  <1> QED
    BY <1>a, <1>1, <1>2, <1>3, <1>4, Frames DEF IndInv, TypeOK

\* The deferred removal of the handler preserves the inductive invariant.
LEMMA RemoveHandlerPreserves ==
    ASSUME IndInv, NEW r \in Requests, RemoveHandler(r)
    PROVE  IndInv'
  <1> USE DEF RemoveHandler, stackVars, endpointVars, actorVars
  <1>a. /\ TypeOK /\ CallInv /\ CountInv /\ SetInv /\ CloserInv
        /\ EndpointInv /\ OneOwner /\ UpdateInv
    BY DEF IndInv
  <1>1. RequestTypeOK'
    BY <1>a DEF TypeOK, RequestTypeOK
  <1>2. CallInv'
    BY <1>a DEF CallInv, CallShape
  <1>3. SetInv'
    BY <1>a DEF SetInv, SetShape
  <1>4. CloserInv'
    BY <1>a DEF CloserInv
  <1> QED
    BY <1>a, <1>1, <1>2, <1>3, <1>4, Frames DEF IndInv, TypeOK

\* RestrictToReplies preserves the inductive invariant.
LEMMA RestrictToRepliesPreserves ==
    ASSUME IndInv, NEW r \in Requests, RestrictToReplies(r)
    PROVE  IndInv'
  <1> USE DEF RestrictToReplies, stackVars, requestVars, handlerVars, endpointVars, actorVars
  <1>a. /\ TypeOK /\ CallInv /\ CountInv /\ SetInv /\ CloserInv
        /\ EndpointInv /\ OneOwner /\ UpdateInv
    BY DEF IndInv
  <1>1. RequestTypeOK'
    BY <1>a DEF TypeOK, RequestTypeOK
  <1>2. CallInv'
    BY <1>a DEF CallInv, CallShape
  <1>3. CountInv'
    BY <1>a DEF CountInv, CountShape, Outcome
  <1> QED
    BY <1>a, <1>1, <1>2, <1>3, Frames DEF IndInv, TypeOK

\* A responder's Drop or Reject preserves the inductive invariant.
LEMMA ResponderFinishPreserves ==
    ASSUME IndInv, NEW r \in Requests, NEW outcome \in {"dropped", "rejected"}, ResponderFinish(r, outcome)
    PROVE  IndInv'
  <1> USE DEF ResponderFinish, stackVars, handlerVars, endpointVars, actorVars
  <1>a. /\ TypeOK /\ CallInv /\ CountInv /\ SetInv /\ CloserInv
        /\ EndpointInv /\ OneOwner /\ UpdateInv
    BY DEF IndInv
  <1>1. RequestTypeOK'
    BY <1>a DEF TypeOK, RequestTypeOK
  <1>2. CallInv'
    BY <1>a DEF CallInv, CallShape
  <1>3. CountInv'
    BY <1>a DEF TypeOK, RequestTypeOK, CountInv, CountShape, Outcome, CallInv, CallShape
  <1> QED
    BY <1>a, <1>1, <1>2, <1>3, Frames DEF IndInv, TypeOK

\* The owner's Close of a connection preserves the inductive invariant.
LEMMA CloseEndpointPreserves ==
    ASSUME IndInv, NEW r \in Requests, CloseEndpoint(r)
    PROVE  IndInv'
  <1> USE DEF CloseEndpoint, stackVars, requestVars, handlerVars, actorVars
  <1>a. /\ TypeOK /\ CallInv /\ CountInv /\ SetInv /\ CloserInv
        /\ EndpointInv /\ OneOwner /\ UpdateInv
    BY DEF IndInv
  <1>1. RequestTypeOK'
    BY <1>a DEF TypeOK, RequestTypeOK, AfterClosing
  <1>2. CloserInv'
    BY <1>a DEF CloserInv, AfterClosing
  <1>3. EndpointInv'
    BY <1>a DEF TypeOK, RequestTypeOK, EndpointInv, EndpointShape, AfterClosing
  <1>4. OneOwner'
    BY <1>a DEF OneOwner, Owners, AfterClosing
  <1>5. UpdateInv'
    BY <1>a DEF UpdateInv, ConnCovered, RequestCovered, AfterClosing
  <1> QED
    BY <1>a, <1>1, <1>2, <1>3, <1>4, <1>5, Frames DEF IndInv, TypeOK

\* Close's decision of one request preserves the inductive invariant.
LEMMA CloseDropPreserves ==
    ASSUME IndInv, NEW r \in Requests, CloseDrop(r)
    PROVE  IndInv'
  <1> USE DEF CloseDrop, stackVars, handlerVars, endpointVars
  <1>a. /\ TypeOK /\ CallInv /\ CountInv /\ SetInv /\ CloserInv
        /\ EndpointInv /\ OneOwner /\ UpdateInv
    BY DEF IndInv
  <1>1. RequestTypeOK'
    BY <1>a DEF TypeOK, RequestTypeOK, Terminal
  <1>2. ActorTypeOK'
    BY <1>a DEF TypeOK, ActorTypeOK
  <1>3. CallInv'
    BY <1>a DEF CallInv, CallShape, Terminal
  <1>4. CountInv'
    BY <1>a DEF TypeOK, RequestTypeOK, CountInv, CountShape, Outcome, CallInv, CallShape, Terminal
  <1>5. SetInv'
    BY <1>a DEF SetInv, SetShape, CloserInv
  <1>6. CloserInv'
    BY <1>a DEF CloserInv
  <1>7. EndpointInv'
    BY <1>a DEF EndpointInv, EndpointShape
  <1>8. UpdateInv'
    BY <1>a DEF UpdateInv, ConnCovered, RequestCovered
  <1> QED
    BY <1>a, <1>1, <1>2, <1>3, <1>4, <1>5, <1>6, <1>7, <1>8, Frames DEF IndInv, TypeOK

\* Close's cancel of one handler preserves the inductive invariant.
LEMMA CloseCancelPreserves ==
    ASSUME IndInv, NEW r \in Requests, CloseCancel(r)
    PROVE  IndInv'
  <1> USE DEF CloseCancel, stackVars, handlerVars, endpointVars
  <1>a. /\ TypeOK /\ CallInv /\ CountInv /\ SetInv /\ CloserInv
        /\ EndpointInv /\ OneOwner /\ UpdateInv
    BY DEF IndInv
  <1>1. FlagsTypeOK'
    BY <1>a DEF TypeOK, FlagsTypeOK
  <1>2. ActorTypeOK'
    BY <1>a DEF TypeOK, ActorTypeOK
  <1>3. SetInv'
    BY <1>a DEF TypeOK, FlagsTypeOK, SetInv, SetShape
  <1>4. CloserInv'
    BY <1>a DEF CloserInv
  <1>5. EndpointInv'
    BY <1>a DEF EndpointInv, EndpointShape
  <1> QED
    BY <1>a, <1>1, <1>2, <1>3, <1>4, <1>5, Frames DEF IndInv, TypeOK

\* Stack.Close's end of one connection preserves the inductive invariant.
LEMMA CloseConnectionPreserves ==
    ASSUME IndInv, NEW r \in Requests, CloseConnection(r)
    PROVE  IndInv'
  <1> USE DEF CloseConnection, stackVars, requestVars, handlerVars
  <1>a. /\ TypeOK /\ CallInv /\ CountInv /\ SetInv /\ CloserInv
        /\ EndpointInv /\ OneOwner /\ UpdateInv
    BY DEF IndInv
  <1>1. RequestTypeOK'
    BY <1>a DEF TypeOK, RequestTypeOK
  <1>2. ActorTypeOK'
    BY <1>a DEF TypeOK, ActorTypeOK
  <1>3. SetInv'
    BY <1>a DEF SetInv, SetShape
  <1>4. CloserInv'
    BY <1>a DEF CloserInv
  <1>5. EndpointInv'
    BY <1>a DEF TypeOK, RequestTypeOK, EndpointInv, EndpointShape
  <1>6. UpdateInv'
    BY <1>a DEF UpdateInv, ConnCovered, RequestCovered
  <1> QED
    BY <1>a, <1>1, <1>2, <1>3, <1>4, <1>5, <1>6, Frames DEF IndInv, TypeOK

\* Close's unregistration preserves the inductive invariant.
LEMMA BeginClosePreserves ==
    ASSUME IndInv, BeginClose
    PROVE  IndInv'
  <1> USE DEF BeginClose, requestVars, handlerVars, endpointVars
  <1>a. /\ TypeOK /\ CallInv /\ CountInv /\ SetInv /\ CloserInv
        /\ EndpointInv /\ OneOwner /\ UpdateInv
    BY DEF IndInv
  <1>1. FlagsTypeOK'
    BY <1>a DEF TypeOK, FlagsTypeOK
  <1>2. ActorTypeOK'
    BY <1>a DEF TypeOK, ActorTypeOK
  <1>3. SetInv'
    BY <1>a DEF SetInv, SetShape
  <1>4. CloserInv'
    BY <1>a DEF CloserInv
  <1>5. EndpointInv'
    BY <1>a DEF EndpointInv, EndpointShape
  <1>6. UpdateInv'
    BY <1>a DEF UpdateInv, ConnCovered, RequestCovered
  <1> QED
    BY <1>a, <1>1, <1>2, <1>3, <1>4, <1>5, <1>6, Frames DEF IndInv, TypeOK

\* Stack.Close's first section preserves the inductive invariant.
LEMMA BeginStackClosePreserves ==
    ASSUME IndInv, BeginStackClose
    PROVE  IndInv'
  <1> USE DEF BeginStackClose, requestVars, handlerVars
  <1>a. /\ TypeOK /\ CallInv /\ CountInv /\ SetInv /\ CloserInv
        /\ EndpointInv /\ OneOwner /\ UpdateInv
    BY DEF IndInv
  <1>1. RequestTypeOK'
    BY <1>a DEF TypeOK, RequestTypeOK
  <1>2. FlagsTypeOK'
    BY <1>a DEF TypeOK, FlagsTypeOK
  <1>3. ActorTypeOK'
    BY <1>a DEF TypeOK, RequestTypeOK, ActorTypeOK
  <1>4. SetInv'
    BY <1>a DEF SetInv, SetShape
  <1>5. CloserInv'
    BY <1>a DEF CloserInv
  <1>6. EndpointInv'
    BY <1>a DEF EndpointInv, EndpointShape
  <1>7. OneOwner'
    BY <1>a DEF OneOwner, Owners
  <1>8. UpdateInv'
    BY <1>a DEF UpdateInv, ConnCovered, RequestCovered
  <1> QED
    BY <1>a, <1>1, <1>2, <1>3, <1>4, <1>5, <1>6, <1>7, <1>8, Frames DEF IndInv, TypeOK

\* closeFromStack's snapshot preserves the inductive invariant.
LEMMA CloseSnapshotPreserves ==
    ASSUME IndInv, CloseSnapshot
    PROVE  IndInv'
  <1> USE DEF CloseSnapshot, handlerVars, endpointVars
  <1>a. /\ TypeOK /\ CallInv /\ CountInv /\ SetInv /\ CloserInv
        /\ EndpointInv /\ OneOwner /\ UpdateInv
    BY DEF IndInv
  <1>1. RequestTypeOK'
    BY <1>a DEF TypeOK, RequestTypeOK
  <1>2. FlagsTypeOK'
    BY <1>a DEF TypeOK, FlagsTypeOK
  <1>3. ActorTypeOK'
    BY <1>a DEF TypeOK, RequestTypeOK, ActorTypeOK
  <1>4. SetInv'
    BY <1>a DEF SetInv, SetShape, CloserInv
  <1>5. CloserInv'
    BY <1>a DEF CloserInv
  <1>6. EndpointInv'
    BY <1>a DEF EndpointInv, EndpointShape
  <1>7. UpdateInv'
    BY <1>a DEF UpdateInv, ConnCovered, RequestCovered
  <1> QED
    BY <1>a, <1>1, <1>2, <1>3, <1>4, <1>5, <1>6, <1>7, Frames DEF IndInv, TypeOK

\* The end of Close preserves the inductive invariant.
LEMMA CloseEndsPreserves ==
    ASSUME IndInv, CloseEnds
    PROVE  IndInv'
  <1> USE DEF CloseEnds, stackVars, requestVars, handlerVars, endpointVars
  <1>a. /\ TypeOK /\ CallInv /\ CountInv /\ SetInv /\ CloserInv
        /\ EndpointInv /\ OneOwner /\ UpdateInv
    BY DEF IndInv
  <1>1. ActorTypeOK'
    BY <1>a DEF TypeOK, ActorTypeOK
  <1>2. SetInv'
    BY <1>a DEF SetInv, SetShape
  <1>3. CloserInv'
    BY <1>a DEF CloserInv
  <1>4. EndpointInv'
    BY <1>a DEF EndpointInv, EndpointShape
  <1> QED
    BY <1>a, <1>1, <1>2, <1>3, <1>4, Frames DEF IndInv, TypeOK

\* UpdateConfig's publication preserves the inductive invariant.
LEMMA StoreNetworkPreserves ==
    ASSUME IndInv, NEW u \in Updaters, NEW admitted \in Networks, StoreNetwork(u, admitted)
    PROVE  IndInv'
  <1> USE DEF StoreNetwork, requestVars, handlerVars, endpointVars
  <1>a. /\ TypeOK /\ CallInv /\ CountInv /\ SetInv /\ CloserInv
        /\ EndpointInv /\ OneOwner /\ UpdateInv
    BY DEF IndInv
  <1>1. ActorTypeOK'
    BY <1>a, KnownNetworks DEF TypeOK, RequestTypeOK, ActorTypeOK
  <1>2. EndpointInv'
    BY <1>a DEF EndpointInv, EndpointShape
  <1>3. UpdateInv'
    BY <1>a DEF TypeOK, ActorTypeOK, UpdateInv, ConnCovered, RequestCovered
  <1> QED
    BY <1>a, <1>1, <1>2, <1>3, Frames DEF IndInv, TypeOK

\* The forwarder's updateConfig preserves the inductive invariant.
LEMMA ScanRequestsPreserves ==
    ASSUME IndInv, NEW u \in Updaters, ScanRequests(u)
    PROVE  IndInv'
  <1> USE DEF ScanRequests, stackVars, handlerVars, endpointVars
  <1>a. /\ TypeOK /\ CallInv /\ CountInv /\ SetInv /\ CloserInv
        /\ EndpointInv /\ OneOwner /\ UpdateInv
    BY DEF IndInv
  <1>1. RequestTypeOK'
    BY <1>a DEF TypeOK, RequestTypeOK, Withdrawn, Terminal, Withdrawn
  <1>2. FlagsTypeOK'
    BY <1>a DEF TypeOK, FlagsTypeOK, Withdrawn
  <1>3. ActorTypeOK'
    BY <1>a DEF TypeOK, ActorTypeOK, Withdrawn
  <1>4. CallInv'
    BY <1>a DEF CallInv, CallShape, Terminal, Withdrawn
  <1>5. CountInv'
    BY <1>a DEF CountInv, CountShape, Outcome, CallInv, CallShape, Terminal, Withdrawn
  <1>6. SetInv'
    BY <1>a DEF SetInv, SetShape, Withdrawn
  <1>7. CloserInv'
    BY <1>a DEF CloserInv, Withdrawn
  <1>8. EndpointInv'
    BY <1>a DEF EndpointInv, EndpointShape, Withdrawn
  <1>9. UpdateInv'
    <2>1. \A v \in Updaters : /\ updater'[v].net = updater[v].net /\ updater'[v].conns = updater[v].conns
                              /\ updater'[v].step = IF v = u THEN "conns" ELSE updater[v].step
      BY <1>a DEF TypeOK, ActorTypeOK
    <2>2. ASSUME NEW q \in Requests
          PROVE  ConnCovered(q)'
      BY <1>a, <2>1 DEF UpdateInv, ConnCovered
    <2>3. ASSUME NEW q \in Requests
          PROVE  RequestCovered(q)'
      <3>1. /\ q \in requests' => q \in requests
            /\ q \in requests' /\ state'[q] = "pending" => state[q] = "pending" /\ q \notin Withdrawn(u)
        BY <1>a
      <3>2. q \in requests' /\ state'[q] = "pending" => LocalOf[flow[q]] \in updater[u].net
        BY <3>1 DEF Withdrawn
      <3>3. RequestCovered(q)
        BY <1>a DEF UpdateInv
      <3> QED
        BY <2>1, <3>1, <3>2, <3>3 DEF RequestCovered
    <2> QED
      BY <2>2, <2>3 DEF UpdateInv
  <1> QED
    BY <1>a, <1>1, <1>2, <1>3, <1>4, <1>5, <1>6, <1>7, <1>8, <1>9, Frames DEF IndInv, TypeOK

\* The end of UpdateConfig preserves the inductive invariant.
LEMMA UpdateEndsPreserves ==
    ASSUME IndInv, NEW u \in Updaters, UpdateEnds(u)
    PROVE  IndInv'
  <1> USE DEF UpdateEnds, stackVars, requestVars, handlerVars, endpointVars
  <1>a. /\ TypeOK /\ CallInv /\ CountInv /\ SetInv /\ CloserInv
        /\ EndpointInv /\ OneOwner /\ UpdateInv
    BY DEF IndInv
  <1>1. ActorTypeOK'
    BY <1>a DEF TypeOK, ActorTypeOK
  <1>2. EndpointInv'
    BY <1>a DEF EndpointInv, EndpointShape
  <1>3. UpdateInv'
    BY <1>a DEF UpdateInv, ConnCovered, RequestCovered
  <1> QED
    BY <1>a, <1>1, <1>2, <1>3, Frames DEF IndInv, TypeOK

\* UpdateConfig's end of one connection preserves the inductive invariant.
LEMMA CloseWithdrawnPreserves ==
    ASSUME IndInv, NEW u \in Updaters, NEW r \in Requests, CloseWithdrawn(u, r)
    PROVE  IndInv'
  <1> USE DEF CloseWithdrawn, stackVars, requestVars, handlerVars
  <1>a. /\ TypeOK /\ CallInv /\ CountInv /\ SetInv /\ CloserInv
        /\ EndpointInv /\ OneOwner /\ UpdateInv
    BY DEF IndInv
  <1>1. RequestTypeOK'
    BY <1>a DEF TypeOK, RequestTypeOK, AfterClosing
  <1>2. ActorTypeOK'
    BY <1>a DEF TypeOK, ActorTypeOK, AfterClosing
  <1>3. CloserInv'
    BY <1>a DEF CloserInv, AfterClosing
  <1>4. EndpointInv'
    BY <1>a DEF TypeOK, RequestTypeOK, EndpointInv, EndpointShape, AfterClosing
  <1>5. OneOwner'
    BY <1>a DEF OneOwner, Owners, AfterClosing
  <1>6. UpdateInv'
    BY <1>a DEF TypeOK, RequestTypeOK, UpdateInv, ConnCovered, RequestCovered, AfterClosing
  <1> QED
    BY <1>a, <1>1, <1>2, <1>3, <1>4, <1>5, <1>6, Frames DEF IndInv, TypeOK

-----------------------------------------------------------------------------
\* A new forwarder satisfies the inductive invariant.
LEMMA InitEstablishes == Init => IndInv
  <1> SUFFICES ASSUME Init
               PROVE  IndInv
    OBVIOUS
  <1> USE DEF Init
  <1>1. RequestTypeOK
    BY DEF RequestTypeOK
  <1>2. FlagsTypeOK
    BY DEF FlagsTypeOK
  <1>3. ActorTypeOK
    BY KnownKinds DEF ActorTypeOK
  <1>4. CallInv /\ CountInv /\ SetInv
    BY DEF CallInv, CallShape, CountInv, CountShape, Outcome, SetInv, SetShape, Claims, Bound
  <1>5. CloserInv /\ OneOwner
    BY DEF CloserInv, OneOwner, Owners
  <1>6. EndpointInv /\ UpdateInv
    BY DEF EndpointInv, EndpointShape, UpdateInv, ConnCovered, RequestCovered
  <1> QED
    BY <1>1, <1>2, <1>3, <1>4, <1>5, <1>6 DEF IndInv, TypeOK

\* Every step preserves the inductive invariant.
LEMMA StepPreserves == IndInv /\ [Next]_vars => IndInv'
  <1> SUFFICES ASSUME IndInv, [Next]_vars
               PROVE  IndInv'
    OBVIOUS
  <1>1. ASSUME NEW w \in Writers,
               \/ \E f \in Flows : Lookup(w, f)
               \/ HandlePacketRefuses(w)
               \/ \E r \in Requests : HandlePacket(w, r)
        PROVE  IndInv'
    BY <1>1, LookupPreserves, HandlePacketRefusesPreserves, HandlePacketPreserves
  <1>2. ASSUME NEW r \in Requests,
               \/ Complete(r, "dropped") \/ Complete(r, "rejected")
               \/ \E operation \in {"accept", "listen", "detach", "detachForReplies"} : Claim(r, operation)
               \/ Register(r) \/ RegisterFails(r) \/ Forget(r) \/ HandshakeDone(r) \/ HandshakeFails(r)
               \/ RemoveTCP(r) \/ Finish(r) \/ Remove(r) \/ Detach(r) \/ DetachRefused(r)
        PROVE  IndInv'
    BY <1>2, CompletePreserves, ClaimPreserves, RegisterPreserves, RegisterFailsPreserves,
       ForgetPreserves, HandshakeDonePreserves, HandshakeFailsPreserves, RemoveTCPPreserves,
       FinishPreserves, RemovePreserves, DetachPreserves, DetachRefusedPreserves DEF Claims
  <1>3. ASSUME NEW r \in Requests,
               \/ BeginReply(r) \/ EndReply(r)
               \/ HandlerReturns(r) \/ HandlerCancels(r) \/ RemoveHandler(r) \/ RestrictToReplies(r)
               \/ ResponderFinish(r, "dropped") \/ ResponderFinish(r, "rejected")
               \/ CloseEndpoint(r) \/ CloseDrop(r) \/ CloseCancel(r) \/ CloseConnection(r)
        PROVE  IndInv'
    BY <1>3, BeginReplyPreserves, EndReplyPreserves, HandlerReturnsPreserves,
       HandlerCancelsPreserves, RemoveHandlerPreserves, RestrictToRepliesPreserves,
       ResponderFinishPreserves, CloseEndpointPreserves, CloseDropPreserves, CloseCancelPreserves,
       CloseConnectionPreserves
  <1>4. CASE BeginClose \/ BeginStackClose \/ CloseSnapshot \/ CloseEnds
    BY <1>4, BeginClosePreserves, BeginStackClosePreserves, CloseSnapshotPreserves,
       CloseEndsPreserves
  <1>5. ASSUME NEW u \in Updaters,
               \/ \E admitted \in Networks : StoreNetwork(u, admitted)
               \/ ScanRequests(u) \/ UpdateEnds(u)
               \/ \E r \in Requests : CloseWithdrawn(u, r)
        PROVE  IndInv'
    BY <1>5, StoreNetworkPreserves, ScanRequestsPreserves, UpdateEndsPreserves,
       CloseWithdrawnPreserves
  <1>6. CASE UNCHANGED vars
    BY <1>6, Frames DEF vars, stackVars, requestVars, handlerVars, endpointVars, actorVars,
       IndInv, TypeOK
  <1> QED
    BY <1>1, <1>2, <1>3, <1>4, <1>5, <1>6 DEF Next

\* The inductive invariant holds in every state a forwarder reaches.
THEOREM ForwarderInvariant == Spec => []IndInv
  BY InitEstablishes, StepPreserves, PTL DEF Spec

\* What a request became is counted once, whichever of its own call, Close and
\* UpdateConfig won the compare-and-swap.
THEOREM RequestsAreDecidedOnce == Spec => []DecidedOnce
  <1>1. IndInv => DecidedOnce
    BY DEF IndInv, TypeOK, RequestTypeOK, CallInv, CallShape, CountInv, CountShape, Outcome,
       DecidedOnce, Claims, Bound, Terminal
  <1> QED
    BY <1>1, ForwarderInvariant, PTL

\* A request and its handler leave the forwarder's sets, and a handler that
\* outlives a closed TCP forwarder has been told.
THEOREM RequestsAreRemoved == Spec => []NothingLeftBehind
  <1>1. IndInv => NothingLeftBehind
    BY DEF IndInv, TypeOK, RequestTypeOK, FlagsTypeOK, CallInv, CallShape, SetInv, SetShape,
       CloserInv, NothingLeftBehind, Claims, Bound, Terminal
  <1> QED
    BY <1>1, ForwarderInvariant, PTL

\* A connection that Accept did not return is not left in the stack, no two
\* connections receive one flow, and none is open when Stack.Close returns.
THEOREM ConnectionsHaveOneOwner == Spec => []EndpointsOwned
  <1>1. ASSUME IndInv, NEW f \in Flows
        PROVE  Cardinality(Owners(f)) <= 1
    <2>1. \A p, q \in Owners(f) : p = q
      BY <1>1 DEF IndInv, OneOwner
    <2>2. CASE Owners(f) = {}
      BY <2>2, FS_EmptySet
    <2>3. CASE Owners(f) # {}
      <3>1. PICK p \in Owners(f) : TRUE
        BY <2>3
      <3>2. Owners(f) = {p}
        BY <2>1, <3>1
      <3>3. Cardinality({p}) = 1
        BY FS_Singleton
      <3> QED
        BY <3>2, <3>3
    <2> QED
      BY <2>2, <2>3
  <1>2. IndInv => \A r \in Requests : handler[r] = "gone" /\ endpoint[r] = "open" => state[r] = "accepted"
    BY DEF IndInv, TypeOK, RequestTypeOK, CallInv, CallShape, EndpointInv, EndpointShape,
       Claims, Bound
  <1>3. IndInv => (closer.step = "done" => \A r \in Requests : endpoint[r] # "open")
    BY DEF IndInv, CloserInv, EndpointInv, EndpointShape
  <1>4. IndInv => EndpointsOwned
    BY <1>1, <1>2, <1>3 DEF EndpointsOwned
  <1> QED
    BY <1>4, ForwarderInvariant, PTL

\* When no UpdateConfig is under way, no connection and no undecided TCP request
\* is left outside the published configuration, however many updates overlapped.
THEOREM UpdatesAreComplete == Spec => []UpdateIsComplete
  <1>1. IndInv => UpdateIsComplete
    BY DEF IndInv, TypeOK, RequestTypeOK, CloserInv, UpdateInv, ConnCovered, RequestCovered,
       UpdateIsComplete, Updating
  <1> QED
    BY <1>1, ForwarderInvariant, PTL

=============================================================================
