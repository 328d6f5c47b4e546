------------------------- MODULE PassiveOpenProofs -------------------------
(***************************************************************************)
(* Machine-checked proofs about PassiveOpen, for any number of tuples,     *)
(* connections, successive listeners and concurrent Write and Accept calls *)
(* and any limits: the connection table, the SYN backlog and the accept    *)
(* queue agree with the connections, and Close ends exactly what Accept    *)
(* never returned.                                                         *)
(***************************************************************************)
EXTENDS PassiveOpen, FiniteSetTheorems, TLAPS

(* The inductive invariant. *)

\* The contents of a channel, and a channel that holds nothing twice.
Elements(s) == {s[i] : i \in DOMAIN s}
Distinct(s) == \A i, j \in 1..Len(s) : s[i] = s[j] => i = j

Alive == {"opening", "established", "timewait", "refused", "removed"}

\* What the actor's position says about the rest of the connection.
ConnShape ==
    \A c \in Conns :
        /\ conn[c].pc = "unused" => conn[c] = Unused
        /\ conn[c].pc = "dead" => conn[c] = Dead
        /\ conn[c].pc \in Alive => conn[c].key \in Keys /\ conn[c].listener \in Listeners
        /\ conn[c].pc \in {"opening", "refused", "removed"} => conn[c].place = "listener"
        /\ conn[c].pc = "established" => conn[c].place \in {"queue", "application"}
        /\ conn[c].pc = "timewait" => conn[c].place = "application"

\* The table and the running actors.
TableInv ==
    /\ IsFiniteSet(Entries)
    /\ active = Cardinality(Entries) /\ active <= MaxConnections
    /\ closed => \A k \in Keys : tcp[k] = None
    /\ \A k \in Keys : tcp[k] # None => tcp[k] \in Running /\ conn[tcp[k]].key = k
    /\ ~closed => \A c \in Running : conn[c].aborted # "replaced" => tcp[conn[c].key] = c

\* The SYN backlog.
BacklogInv ==
    \A l \in Listeners :
        /\ IsFiniteSet(handshaking[l]) /\ Cardinality(handshaking[l]) <= Backlog
        /\ handshaking[l] \subseteq pending[l]
        /\ \A c \in handshaking[l] : conn[c].pc \in {"opening", "removed"}

\* Until Close takes them, exactly the listener's connections that Accept has
\* not returned are pending; some of them may have ended in the queue.
PendingInv ==
    \A l \in Listeners, c \in Conns :
        /\ c \in pending[l] =>
              /\ lstate[l] # "closed"
              /\ conn[c].pc = "dead" \/ (conn[c].listener = l /\ conn[c].place # "application")
              /\ conn[c].pc \in {"dead", "established"} => c \in Queue(l) \cup Held(l)
        /\ (/\ lstate[l] # "closed" /\ conn[c].pc \in Alive
            /\ conn[c].listener = l /\ conn[c].place # "application") => c \in pending[l]

\* No other Accept call has received what a has.
SoleTaker(a) ==
    \A b \in Accepters :
        (/\ accepter[b].pc = "taken" /\ accepter[b].listener = accepter[a].listener
         /\ accepter[b].conn = accepter[a].conn) => a = b

\* A connection is queued once, and taken from the queue by one Accept call.
QueueInv ==
    /\ \A l \in Listeners : Distinct(accept[l])
    /\ \A a \in Accepters : accepter[a].pc = "taken" =>
          /\ accepter[a].conn \notin Queue(accepter[a].listener)
          /\ SoleTaker(a)
    /\ \A l \in Listeners : \A c \in Queue(l) \cup Held(l) :
          /\ lstate[l] # "closed" => c \in pending[l]
          /\ \/ conn[c].pc = "dead"
             \/ conn[c].pc = "established" /\ conn[c].place = "queue" /\ conn[c].listener = l

\* What Close took is aborted or waits for it, and was never returned.
CloseInv ==
    \A l \in Listeners, c \in Conns :
        /\ c \in toAbort[l] =>
              /\ lstate[l] = "closed"
              /\ conn[c].pc = "dead" \/ (conn[c].listener = l /\ conn[c].place # "application")
        /\ (conn[c].aborted = "close" /\ conn[c].listener = l) =>
              lstate[l] = "closed" /\ conn[c].place # "application"
        /\ (/\ lstate[l] = "closed" /\ conn[c].listener = l /\ conn[c].place # "application"
            /\ conn[c].pc \in {"opening", "established", "timewait"})
              => conn[c].aborted # "no" \/ c \in toAbort[l]

IndInv ==
    /\ TypeOK /\ ConnShape /\ TableInv /\ BacklogInv /\ PendingInv /\ QueueInv /\ CloseInv
    /\ CookieOfThisListener
-----------------------------------------------------------------------------
(* Facts about the model's operators. *)

\* Sending on a channel adds one element to its contents.
LEMMA ElementsOfAppend ==
    ASSUME NEW S, NEW s \in Seq(S), NEW e \in S
    PROVE  Elements(Append(s, e)) = Elements(s) \cup {e}
  <1>1. Len(Append(s, e)) = Len(s) + 1 /\ DOMAIN Append(s, e) = 1..(Len(s) + 1) /\ DOMAIN s = 1..Len(s)
    OBVIOUS
  <1>2. \A i \in 1..Len(s) : Append(s, e)[i] = s[i]
    OBVIOUS
  <1>3. Append(s, e)[Len(s) + 1] = e
    OBVIOUS
  <1>4. \A x : x \in Elements(Append(s, e)) => x \in Elements(s) \cup {e}
    BY <1>1, <1>2, <1>3 DEF Elements
  <1>5. \A x : x \in Elements(s) => x \in Elements(Append(s, e))
    BY <1>1, <1>2, <1>3 DEF Elements
  <1>6. e \in Elements(Append(s, e))
    <2>1. Len(s) + 1 \in DOMAIN Append(s, e)
      BY <1>1
    <2> QED
      BY <1>3, <2>1 DEF Elements
  <1> QED
    BY <1>4, <1>5, <1>6

\* Receiving from a channel takes one element from its contents.
LEMMA ElementsOfTail ==
    ASSUME NEW S, NEW s \in Seq(S), s # << >>
    PROVE  Elements(s) = Elements(Tail(s)) \cup {Head(s)} /\ Head(s) \in S /\ Tail(s) \in Seq(S)
  <1>1. Len(s) \in Nat \ {0} /\ Len(Tail(s)) = Len(s) - 1 /\ DOMAIN Tail(s) = 1..(Len(s) - 1) /\ DOMAIN s = 1..Len(s) /\ Tail(s) \in Seq(S)
    OBVIOUS
  <1>2. \A i \in 1..(Len(s) - 1) : Tail(s)[i] = s[i + 1]
    OBVIOUS
  <1>3. Head(s) = s[1] /\ Head(s) \in S
    OBVIOUS
  <1>4. ASSUME NEW i \in 1..Len(s) PROVE s[i] \in Elements(Tail(s)) \cup {Head(s)}
    <2>1. CASE i = 1
      BY <1>3, <2>1
    <2>2. CASE i # 1
      <3>1. i - 1 \in 1..(Len(s) - 1) /\ (i - 1) + 1 = i
        BY <1>1, <2>2
      <3>2. Tail(s)[i - 1] = s[i]
        BY <1>2, <3>1
      <3> QED
        BY <1>1, <3>1, <3>2 DEF Elements
    <2> QED
      BY <2>1, <2>2
  <1>5. ASSUME NEW i \in 1..(Len(s) - 1) PROVE Tail(s)[i] \in Elements(s)
    <2>1. i + 1 \in 1..Len(s)
      BY <1>1
    <2> QED
      BY <1>1, <1>2, <2>1 DEF Elements
  <1>6. Head(s) \in Elements(s)
    <2>1. 1 \in 1..Len(s)
      BY <1>1
    <2> QED
      BY <1>1, <1>3, <2>1 DEF Elements
  <1> QED
    BY <1>1, <1>3, <1>4, <1>5, <1>6 DEF Elements

\* A new element keeps the contents distinct.
LEMMA DistinctAppend ==
    ASSUME NEW S, NEW s \in Seq(S), NEW e \in S, Distinct(s), e \notin Elements(s)
    PROVE  Distinct(Append(s, e))
  <1>1. Len(Append(s, e)) = Len(s) + 1 /\ DOMAIN s = 1..Len(s)
    OBVIOUS
  <1>2. \A i \in 1..Len(s) : Append(s, e)[i] = s[i] /\ s[i] # e
    BY <1>1 DEF Elements
  <1>3. Append(s, e)[Len(s) + 1] = e
    OBVIOUS
  <1>4. \A i \in 1..(Len(s) + 1) : i \in 1..Len(s) \/ i = Len(s) + 1
    BY <1>1
  <1> QED
    BY <1>1, <1>2, <1>3, <1>4 DEF Distinct

\* The element received does not remain, and the rest is still distinct.
LEMMA DistinctTail ==
    ASSUME NEW S, NEW s \in Seq(S), s # << >>, Distinct(s)
    PROVE  Distinct(Tail(s)) /\ Head(s) \notin Elements(Tail(s))
  <1>1. Len(s) \in Nat \ {0} /\ Len(Tail(s)) = Len(s) - 1 /\ DOMAIN Tail(s) = 1..(Len(s) - 1)
    OBVIOUS
  <1>2. \A i \in 1..(Len(s) - 1) : Tail(s)[i] = s[i + 1] /\ i + 1 \in 1..Len(s)
    BY <1>1
  <1>3. Head(s) = s[1] /\ 1 \in 1..Len(s)
    BY <1>1
  <1>4. Distinct(Tail(s))
    BY <1>1, <1>2 DEF Distinct
  <1>5. \A i \in 1..(Len(s) - 1) : Tail(s)[i] # Head(s)
    BY <1>1, <1>2, <1>3 DEF Distinct
  <1> QED
    BY <1>1, <1>4, <1>5 DEF Elements

\* An idle Write or Accept call is told apart by its position.
LEMMA CallShape ==
    ASSUME TypeOK
    PROVE  /\ \A w \in Writers : \/ writer[w] = IdleWriter /\ writer[w].pc = "idle"
                                 \/ /\ writer[w].pc \in {"syn", "ack", "cookie"} /\ writer[w].key \in Keys
                                    /\ writer[w].state \in Nat /\ writer[w].listener \in Listeners \cup {None}
           /\ \A a \in Accepters : \/ accepter[a] = IdleAccepter /\ accepter[a].pc = "idle"
                                   \/ /\ accepter[a].pc = "taken" /\ accepter[a].listener \in Listeners
                                      /\ accepter[a].conn \in Conns
  <1>1. ASSUME NEW w \in Writers
        PROVE  \/ writer[w] = IdleWriter /\ writer[w].pc = "idle"
               \/ /\ writer[w].pc \in {"syn", "ack", "cookie"} /\ writer[w].key \in Keys
                  /\ writer[w].state \in Nat /\ writer[w].listener \in Listeners \cup {None}
    BY <1>1 DEF TypeOK, CallTypeOK, IdleWriter
  <1>2. ASSUME NEW a \in Accepters
        PROVE  \/ accepter[a] = IdleAccepter /\ accepter[a].pc = "idle"
               \/ /\ accepter[a].pc = "taken" /\ accepter[a].listener \in Listeners
                  /\ accepter[a].conn \in Conns
    BY <1>2 DEF TypeOK, CallTypeOK, IdleAccepter
  <1> QED
    BY <1>1, <1>2

\* A step that changes no connection and no holder of one, and closes no
\* listener, keeps the parts of the invariant about them.
LEMMA HoldersFrame ==
    ASSUME IndInv, UNCHANGED <<pending, handshaking, accept, toAbort, conn, accepter>>,
           \A l \in Listeners : lstate'[l] = "closed" <=> lstate[l] = "closed"
    PROVE  /\ ConnShape' /\ BacklogInv' /\ PendingInv' /\ QueueInv' /\ CloseInv' /\ CookieOfThisListener'
           /\ ConnTypeOK'
  <1>1. ConnShape' /\ CookieOfThisListener' /\ ConnTypeOK'
    BY DEF IndInv, TypeOK, ConnTypeOK, ConnRecords, ConnShape, CookieOfThisListener
  <1>2. BacklogInv'
    BY DEF IndInv, BacklogInv
  <1>3. PendingInv'
    BY DEF IndInv, PendingInv, Queue, Held
  <1>4. QueueInv'
    BY DEF IndInv, QueueInv, Queue, Held, SoleTaker
  <1>5. CloseInv'
    BY DEF IndInv, CloseInv
  <1> QED
    BY <1>1, <1>2, <1>3, <1>4, <1>5

\* The table's part of the invariant does not depend on the listeners.
LEMMA TableFrame ==
    ASSUME TableInv, UNCHANGED <<tcp, active, closed, conn>>
    PROVE  TableInv'
  BY DEF TableInv, Entries, Running
-----------------------------------------------------------------------------
(* Listen, Close and the handling of segments that admit nothing. *)

\* listenTCP preserves the inductive invariant.
LEMMA ListenPreserves ==
    ASSUME IndInv, NEW l \in Listeners, Listen(l)
    PROVE  IndInv'
  <1> USE DEF Listen
  <1>1. TypeOK'
    <2>1. StackTypeOK'
      BY DEF IndInv, TypeOK, StackTypeOK
    <2>2. ListenerTypeOK' /\ ConnTypeOK' /\ CallTypeOK'
      BY DEF IndInv, TypeOK, ListenerTypeOK, ConnTypeOK, ConnRecords, CallTypeOK
    <2> QED
      BY <2>1, <2>2 DEF TypeOK
  <1>2. \A m \in Listeners : lstate'[m] = "closed" <=> lstate[m] = "closed"
    BY DEF IndInv, TypeOK, ListenerTypeOK
  <1> QED
    BY <1>1, <1>2, HoldersFrame, TableFrame DEF IndInv

\* closeTCPListener's first section preserves the inductive invariant.
LEMMA UnregisterPreserves ==
    ASSUME IndInv, NEW l \in Listeners, Unregister(l)
    PROVE  IndInv'
  <1> USE DEF Unregister
  <1>1. TypeOK'
    BY DEF IndInv, TypeOK, StackTypeOK, ListenerTypeOK, ConnTypeOK, ConnRecords, CallTypeOK
  <1>2. \A m \in Listeners : lstate'[m] = "closed" <=> lstate[m] = "closed"
    BY DEF IndInv, TypeOK, ListenerTypeOK
  <1> QED
    BY <1>1, <1>2, HoldersFrame, TableFrame DEF IndInv

\* Stack.Close preserves the inductive invariant.
LEMMA StackClosePreserves ==
    ASSUME IndInv, StackClose
    PROVE  IndInv'
  <1> USE DEF StackClose, listenerVars
  <1>1. TypeOK'
    BY DEF IndInv, TypeOK, StackTypeOK, ListenerTypeOK, ConnTypeOK, ConnRecords, CallTypeOK
  <1>2. Entries' = {}
    BY DEF Entries
  <1>3. TableInv'
    BY <1>2, FS_EmptySet, Limits DEF TableInv
  <1> QED
    BY <1>1, <1>3, HoldersFrame DEF IndInv

\* A segment's first look at the listener, a refused SYN and a dropped segment
\* change nothing but the call itself.
LEMMA CallFrame ==
    ASSUME IndInv, UNCHANGED <<stackVars, listenerVars, conn, accepter>>,
           NEW w \in Writers, NEW call, writer' = [writer EXCEPT ![w] = call],
           call \in {IdleWriter} \cup [pc : {"syn", "ack", "cookie"}, key : Keys, state : Nat,
                                      listener : Listeners \cup {None}],
           cookies' \subseteq [key : Keys, listener : Listeners]
    PROVE  IndInv'
  <1>1. TypeOK'
    <2>1. StackTypeOK' /\ ListenerTypeOK' /\ ConnTypeOK'
      BY DEF IndInv, TypeOK, StackTypeOK, ListenerTypeOK, ConnTypeOK, ConnRecords, stackVars, listenerVars
    <2>2. CallTypeOK'
      BY DEF IndInv, TypeOK, CallTypeOK
    <2> QED
      BY <2>1, <2>2 DEF TypeOK
  <1> QED
    BY <1>1, HoldersFrame, TableFrame DEF IndInv, stackVars, listenerVars

\* The steps of a Write call that admit no connection preserve the inductive
\* invariant.
LEMMA SegmentPreserves ==
    ASSUME IndInv, NEW w \in Writers,
           \/ \E k \in Keys : ReceiveSYN(w, k) \/ ReceiveACK(w, k)
           \/ RefuseSYN(w) \/ DropSYN(w) \/ SendCookie(w) \/ DropACK(w)
    PROVE  IndInv'
  <1>a. /\ cookies \subseteq [key : Keys, listener : Listeners]
        /\ passive \in Nat /\ dispatch \in Listeners \cup {None}
    BY DEF IndInv, TypeOK, CallTypeOK, StackTypeOK
  <1>b. TypeOK
    BY DEF IndInv
  <1>1. ASSUME NEW k \in Keys, ReceiveSYN(w, k)
        PROVE  IndInv'
    <2> DEFINE call == [pc |-> "syn", key |-> k, state |-> passive, listener |-> None]
    <2>1. /\ call \in [pc : {"syn", "ack", "cookie"}, key : Keys, state : Nat, listener : Listeners \cup {None}]
          /\ writer' = [writer EXCEPT ![w] = call]
          /\ UNCHANGED <<stackVars, listenerVars, conn, accepter, cookies>>
      BY <1>a, <1>1 DEF ReceiveSYN, Arrives
    <2> HIDE DEF call
    <2> QED
      BY <1>a, <2>1, CallFrame
  <1>2. ASSUME NEW k \in Keys, ReceiveACK(w, k)
        PROVE  IndInv'
    <2> DEFINE call == [pc |-> "ack", key |-> k, state |-> passive, listener |-> dispatch]
    <2>1. /\ call \in [pc : {"syn", "ack", "cookie"}, key : Keys, state : Nat, listener : Listeners \cup {None}]
          /\ writer' = [writer EXCEPT ![w] = call]
          /\ UNCHANGED <<stackVars, listenerVars, conn, accepter, cookies>>
      BY <1>a, <1>2 DEF ReceiveACK, Arrives
    <2> HIDE DEF call
    <2> QED
      BY <1>a, <2>1, CallFrame
  <1>3. CASE RefuseSYN(w)
    <2> DEFINE call == [writer[w] EXCEPT !.pc = "cookie", !.state = 0, !.listener = dispatch]
    <2>1. writer[w] \in [pc : {"syn", "ack", "cookie"}, key : Keys, state : Nat, listener : Listeners \cup {None}]
      BY <1>3 DEF IndInv, TypeOK, CallTypeOK, RefuseSYN, IdleWriter
    <2>2. /\ call \in [pc : {"syn", "ack", "cookie"}, key : Keys, state : Nat, listener : Listeners \cup {None}]
          /\ writer' = [writer EXCEPT ![w] = call]
          /\ UNCHANGED <<stackVars, listenerVars, conn, accepter, cookies>>
      BY <1>a, <1>3, <2>1 DEF RefuseSYN
    <2> HIDE DEF call
    <2> QED
      BY <1>a, <2>2, CallFrame
  <1>4. CASE DropSYN(w) \/ DropACK(w)
    BY <1>a, <1>4, CallFrame DEF DropSYN, DropACK
  <1>5. CASE SendCookie(w)
    <2>1. writer[w].key \in Keys
      BY <1>5, <1>b, CallShape DEF SendCookie
    <2>2. cookies' \subseteq [key : Keys, listener : Listeners]
      BY <1>a, <1>5, <2>1 DEF SendCookie, Answerable
    <2> QED
      BY <1>5, <2>2, CallFrame DEF SendCookie
  <1> QED
    BY <1>1, <1>2, <1>3, <1>4, <1>5

\* closeFromStack's section under the listener's lock preserves the inductive
\* invariant: what is pending is what has to be aborted.
LEMMA PublishPreserves ==
    ASSUME IndInv, NEW l \in Listeners, Publish(l)
    PROVE  IndInv'
  <1> USE DEF Publish, stackVars
  <1>1. TypeOK'
    BY DEF IndInv, TypeOK, StackTypeOK, ListenerTypeOK, ConnTypeOK, ConnRecords, CallTypeOK
  <1>2. TableInv'
    BY TableFrame DEF IndInv
  <1>3. ConnShape' /\ CookieOfThisListener'
    BY DEF IndInv, ConnShape, CookieOfThisListener
  <1>4. BacklogInv'
    BY FS_EmptySet, Limits DEF IndInv, TypeOK, ListenerTypeOK, BacklogInv
  <1>5. PendingInv'
    BY DEF IndInv, TypeOK, ListenerTypeOK, PendingInv, Queue, Held
  <1>6. QueueInv'
    BY DEF IndInv, TypeOK, ListenerTypeOK, QueueInv, Queue, Held, SoleTaker
  <1>7. CloseInv'
    BY DEF IndInv, TypeOK, ListenerTypeOK, PendingInv, CloseInv, Alive
  <1> QED
    BY <1>1, <1>2, <1>3, <1>4, <1>5, <1>6, <1>7 DEF IndInv

\* abortWithReset on the next connection Close took preserves the inductive
\* invariant.
LEMMA AbortNextPreserves ==
    ASSUME IndInv, NEW l \in Listeners, NEW c \in Conns, AbortNext(l, c)
    PROVE  IndInv'
  <1> USE DEF AbortNext, stackVars
  <1>1. /\ conn' \in [Conns -> ConnRecords]
        /\ \A d \in Conns : /\ conn'[d].pc = conn[d].pc /\ conn'[d].key = conn[d].key
                            /\ conn'[d].listener = conn[d].listener /\ conn'[d].place = conn[d].place
                            /\ conn'[d].cookie = conn[d].cookie
                            /\ d # c => conn'[d] = conn[d]
    BY DEF IndInv, TypeOK, ConnTypeOK, ConnRecords, Aborted
  <1>2. /\ conn[c].pc = "dead" => conn'[c] = conn[c]
        /\ conn[c].pc # "dead" => /\ conn'[c].aborted # "no" /\ conn[c].listener = l
                                  /\ conn[c].aborted = "replaced" => conn'[c].aborted = "replaced"
                                  /\ conn[c].aborted # "replaced" => conn'[c].aborted # "replaced"
    BY DEF IndInv, TypeOK, ConnTypeOK, ConnRecords, Aborted, CloseInv
  <1>3. TypeOK'
    BY <1>1 DEF IndInv, TypeOK, StackTypeOK, ListenerTypeOK, ConnTypeOK, ConnRecords, CallTypeOK
  <1>4. TableInv'
    BY <1>1, <1>2 DEF IndInv, TableInv, Entries, Running
  <1>5. ConnShape'
    BY <1>1, <1>2, NoneFresh DEF IndInv, ConnShape, CloseInv, Unused, Alive
  <1>6. BacklogInv'
    BY <1>1 DEF IndInv, TypeOK, ListenerTypeOK, BacklogInv
  <1>7. PendingInv'
    BY <1>1 DEF IndInv, PendingInv, Queue, Held
  <1>8. QueueInv'
    <2>1. \A m \in Listeners : Queue(m) \subseteq Conns /\ Held(m) \subseteq Conns
      BY CallShape DEF IndInv, TypeOK, ListenerTypeOK, CallTypeOK, Queue, Held
    <2> QED
      BY <1>1, <2>1 DEF IndInv, QueueInv, Queue, Held, SoleTaker
  <1>9. CloseInv'
    BY <1>1, <1>2 DEF IndInv, TypeOK, ListenerTypeOK, CloseInv
  <1>10. CookieOfThisListener'
    BY <1>1 DEF IndInv, CookieOfThisListener
  <1> QED
    BY <1>3, <1>4, <1>5, <1>6, <1>7, <1>8, <1>9, <1>10 DEF IndInv
-----------------------------------------------------------------------------
(* Admissions. *)

\* A connection that has not been made is nowhere.
LEMMA UnusedIsNowhere ==
    ASSUME IndInv, NEW c \in Conns, conn[c] = Unused
    PROVE  /\ \A k \in Keys : tcp[k] # c
           /\ \A l \in Listeners : /\ c \notin pending[l] /\ c \notin handshaking[l] /\ c \notin toAbort[l]
                                   /\ c \notin Queue(l) /\ c \notin Held(l)
  <1>1. conn[c].pc = "unused" /\ conn[c].listener = None
    BY DEF Unused
  <1>2. \A k \in Keys : tcp[k] # c
    BY <1>1, NoneFresh DEF IndInv, TableInv, Running
  <1>3. \A l \in Listeners : c \notin pending[l] /\ c \notin handshaking[l] /\ c \notin toAbort[l]
    BY <1>1, NoneFresh DEF IndInv, PendingInv, BacklogInv, CloseInv
  <1>4. \A l \in Listeners : c \notin Queue(l) /\ c \notin Held(l)
    BY <1>1 DEF IndInv, QueueInv
  <1> QED
    BY <1>2, <1>3, <1>4

\* No connection but c changes, except that one in TIME-WAIT may be replaced.
OthersKept(c) ==
    \A d \in Conns \ {c} :
        /\ conn'[d].pc = conn[d].pc /\ conn'[d].key = conn[d].key /\ conn'[d].cookie = conn[d].cookie
        /\ conn'[d].listener = conn[d].listener /\ conn'[d].place = conn[d].place
        /\ conn'[d] = conn[d] \/ (conn[d].pc = "timewait" /\ conn'[d].aborted = "replaced")

\* A connection started for a listener that is not closed, and recorded as
\* pending, keeps the listener's part of the invariant (newTCPConn with
\* trackHandshake or trackCompleted); the connection it may replace is only
\* aborted.
LEMMA StartedKeeps ==
    ASSUME IndInv, NEW c \in Conns, conn[c] = Unused, NEW k \in Keys, NEW l \in Listeners,
           lstate[l] # "closed", NEW made \in {None, l},
           ConnTypeOK', conn'[c] = Started(k, l, made),
           OthersKept(c),
           pending' = [pending EXCEPT ![l] = @ \cup {c}],
           UNCHANGED <<lstate, accept, toAbort, accepter>>
    PROVE  ConnShape' /\ PendingInv' /\ QueueInv' /\ CloseInv' /\ CookieOfThisListener'
  <1> USE DEF OthersKept
  <1>a. /\ conn'[c].pc = "opening" /\ conn'[c].key = k /\ conn'[c].listener = l
        /\ conn'[c].cookie = made /\ conn'[c].place = "listener" /\ conn'[c].aborted = "no"
    BY DEF Started, Unused
  <1>b. /\ \A m \in Listeners : /\ c \notin pending[m] /\ c \notin toAbort[m]
                                /\ c \notin Queue(m) /\ c \notin Held(m)
        /\ conn[c].pc = "unused" /\ conn[c].listener = None
    BY UnusedIsNowhere DEF Unused
  <1>c. \A m \in Listeners : /\ Queue(m)' = Queue(m) /\ Held(m)' = Held(m)
                             /\ Queue(m) \subseteq Conns /\ Held(m) \subseteq Conns
    BY CallShape DEF IndInv, TypeOK, ListenerTypeOK, CallTypeOK, Queue, Held
  <1>1. ConnShape'
    BY <1>a DEF IndInv, ConnShape, Alive
  <1>d. \A m \in Listeners : /\ m # l => pending'[m] = pending[m]
                             /\ pending'[l] = pending[l] \cup {c}
    BY DEF IndInv, TypeOK, ListenerTypeOK
  <1>2. PendingInv'
    <2>1. ASSUME NEW m \in Listeners, NEW d \in Conns
          PROVE  /\ d \in pending'[m] =>
                      /\ lstate'[m] # "closed"
                      /\ conn'[d].pc = "dead" \/ (conn'[d].listener = m /\ conn'[d].place # "application")
                      /\ conn'[d].pc \in {"dead", "established"} => d \in Queue(m)' \cup Held(m)'
                 /\ (/\ lstate'[m] # "closed" /\ conn'[d].pc \in Alive
                     /\ conn'[d].listener = m /\ conn'[d].place # "application") => d \in pending'[m]
      <3>1. CASE d = c
        BY <1>a, <1>b, <1>d, <2>1, <3>1
      <3>2. CASE d # c
        BY <1>c, <1>d, <2>1, <3>2 DEF IndInv, PendingInv
      <3> QED
        BY <3>1, <3>2
    <2> QED
      BY <2>1 DEF PendingInv
  <1>3. QueueInv'
    <2>1. \A m \in Listeners : \A d \in Queue(m) \cup Held(m) :
             /\ lstate[m] # "closed" => d \in pending'[m]
             /\ \/ conn'[d].pc = "dead"
                \/ conn'[d].pc = "established" /\ conn'[d].place = "queue" /\ conn'[d].listener = m
      <3> SUFFICES ASSUME NEW m \in Listeners, NEW d \in Queue(m) \cup Held(m)
                   PROVE  /\ lstate[m] # "closed" => d \in pending'[m]
                          /\ \/ conn'[d].pc = "dead"
                             \/ conn'[d].pc = "established" /\ conn'[d].place = "queue" /\ conn'[d].listener = m
        OBVIOUS
      <3>1. d \in Conns \ {c}
        BY <1>b, <1>c
      <3> QED
        BY <1>d, <3>1 DEF IndInv, QueueInv
    <2> QED
      BY <2>1, <1>c DEF IndInv, QueueInv, Queue, SoleTaker
  <1>4. CloseInv'
    BY <1>a, <1>b DEF IndInv, CloseInv
  <1>5. CookieOfThisListener'
    BY <1>a DEF IndInv, CookieOfThisListener
  <1> QED
    BY <1>1, <1>2, <1>3, <1>4, <1>5

\* A tuple that had no entry is given one, and the count follows.
LEMMA EntryAdded ==
    ASSUME IndInv, NEW k \in Keys, tcp[k] = None, NEW c \in Conns, Available,
           tcp' = [tcp EXCEPT ![k] = c], active' = active + 1
    PROVE  IsFiniteSet(Entries') /\ active' = Cardinality(Entries') /\ active' <= MaxConnections
  <1>1. Entries' = Entries \cup {k} /\ k \notin Entries
    BY NoneFresh DEF IndInv, TypeOK, StackTypeOK, Entries
  <1>2. IsFiniteSet(Entries) /\ active = Cardinality(Entries)
    BY DEF IndInv, TableInv
  <1>3. Cardinality(Entries \cup {k}) = Cardinality(Entries) + 1 /\ IsFiniteSet(Entries \cup {k})
    BY <1>1, <1>2, FS_AddElement
  <1>4. Cardinality(Entries) \in Nat
    BY <1>2, FS_CardinalityType
  <1> QED
    BY <1>1, <1>2, <1>3, <1>4, Limits DEF Available

\* The table with the entry of a connection that was just started.
LEMMA AdmittedTable ==
    ASSUME IndInv, NEW k \in Keys, tcp[k] = None, NEW c \in Conns, conn[c] = Unused, Available, ~closed,
           tcp' = [tcp EXCEPT ![k] = c], active' = active + 1, closed' = closed,
           NEW l \in Listeners, NEW made, conn' = [conn EXCEPT ![c] = Started(k, l, made)]
    PROVE  TableInv'
  <1>1. IsFiniteSet(Entries') /\ active' = Cardinality(Entries') /\ active' <= MaxConnections
    BY EntryAdded
  <1>2. /\ conn'[c].pc = "opening" /\ conn'[c].key = k
        /\ \A d \in Conns : d # c => conn'[d] = conn[d]
        /\ \A j \in Keys : (j = k => tcp'[j] = c) /\ (j # k => tcp'[j] = tcp[j])
        /\ conn[c].pc = "unused"
    BY DEF IndInv, TypeOK, StackTypeOK, ConnTypeOK, ConnRecords, Started, Unused
  <1>3. \A j \in Keys : tcp'[j] # None => tcp'[j] \in Running' /\ conn'[tcp'[j]].key = j
    BY <1>2, UnusedIsNowhere DEF IndInv, TableInv, Running
  <1>4. \A d \in Running' : conn'[d].aborted # "replaced" => tcp'[conn'[d].key] = d
    <2> SUFFICES ASSUME NEW d \in Conns, conn'[d].pc \in {"opening", "established", "timewait", "refused"},
                        conn'[d].aborted # "replaced"
                 PROVE  tcp'[conn'[d].key] = d
      BY DEF Running
    <2>1. CASE d = c
      BY <1>2, <2>1
    <2>2. CASE d # c
      <3>1. conn[d].key \in Keys /\ tcp[conn[d].key] = d /\ d # None
        BY <1>2, <2>2, NoneFresh DEF IndInv, TableInv, Running, ConnShape, Alive
      <3> QED
        BY <1>2, <2>2, <3>1
    <2> QED
      BY <2>1, <2>2
  <1> QED
    BY <1>1, <1>3, <1>4 DEF TableInv

\* The record newTCPConn makes.
LEMMA StartedType ==
    ASSUME ConnTypeOK, NEW c \in Conns, NEW k \in Keys, NEW l \in Listeners, NEW made \in {None, l},
           conn' = [conn EXCEPT ![c] = Started(k, l, made)]
    PROVE  /\ ConnTypeOK' /\ conn'[c] = Started(k, l, made)
           /\ \A d \in Conns \ {c} : conn'[d] = conn[d]
  BY DEF ConnTypeOK, ConnRecords, Started, Unused

\* A connection that leaves the SYN backlog keeps it within its bound.
LEMMA ReleaseKeepsBacklog ==
    ASSUME IndInv, NEW c \in Conns, NEW l \in Listeners,
           handshaking' = [handshaking EXCEPT ![l] = @ \ {c}],
           \A m \in Listeners \ {l} : c \notin handshaking[m],
           \A m \in Listeners : pending[m] \ {c} \subseteq pending'[m],
           \A d \in Conns \ {c} : conn'[d].pc = conn[d].pc
    PROVE  BacklogInv'
  <1> SUFFICES ASSUME NEW m \in Listeners
               PROVE  /\ IsFiniteSet(handshaking'[m]) /\ Cardinality(handshaking'[m]) <= Backlog
                      /\ handshaking'[m] \subseteq pending'[m]
                      /\ \A d \in handshaking'[m] : conn'[d].pc \in {"opening", "removed"}
    BY DEF BacklogInv
  <1>1. /\ IsFiniteSet(handshaking[m]) /\ Cardinality(handshaking[m]) <= Backlog
        /\ handshaking[m] \subseteq pending[m] /\ handshaking[m] \subseteq Conns
        /\ \A d \in handshaking[m] : conn[d].pc \in {"opening", "removed"}
    BY DEF IndInv, TypeOK, ListenerTypeOK, BacklogInv
  <1>2. handshaking'[m] = handshaking[m] \ {c}
    BY DEF IndInv, TypeOK, ListenerTypeOK
  <1>3. IsFiniteSet(handshaking[m] \ {c}) /\ Cardinality(handshaking[m] \ {c}) <= Cardinality(handshaking[m])
    BY <1>1, FS_Subset
  <1>4. /\ Cardinality(handshaking[m]) \in Nat /\ Cardinality(handshaking[m] \ {c}) \in Nat
    BY <1>1, <1>3, FS_CardinalityType
  <1>5. Cardinality(handshaking[m] \ {c}) <= Backlog
    BY <1>1, <1>3, <1>4, Limits
  <1>6. \A d \in handshaking[m] \ {c} : d \in pending'[m] /\ conn'[d].pc \in {"opening", "removed"}
    BY <1>1
  <1> QED
    BY <1>2, <1>3, <1>5, <1>6

\* trackHandshake takes a place of the SYN backlog that was free.
LEMMA TrackKeepsBacklog ==
    ASSUME IndInv, NEW c \in Conns, conn[c] = Unused, NEW l \in Listeners, BacklogOpen(l), Track(l, c),
           conn'[c].pc = "opening", \A d \in Conns \ {c} : conn'[d].pc = conn[d].pc
    PROVE  BacklogInv'
  <1>1. /\ IsFiniteSet(handshaking[l]) /\ c \notin handshaking[l] /\ Cardinality(handshaking[l]) \in Nat
    BY UnusedIsNowhere, FS_CardinalityType DEF IndInv, BacklogInv
  <1>2. /\ IsFiniteSet(handshaking[l] \cup {c})
        /\ Cardinality(handshaking[l] \cup {c}) = Cardinality(handshaking[l]) + 1
    BY <1>1, FS_AddElement
  <1>3. \A m \in Listeners :
           /\ m = l => handshaking'[m] = handshaking[m] \cup {c} /\ pending'[m] = pending[m] \cup {c}
           /\ m # l => handshaking'[m] = handshaking[m] /\ pending'[m] = pending[m]
           /\ handshaking[m] \subseteq Conns
    BY DEF IndInv, TypeOK, ListenerTypeOK, Track
  <1>4. Cardinality(handshaking[l] \cup {c}) <= Backlog
    BY <1>1, <1>2, Limits DEF BacklogOpen
  <1> SUFFICES ASSUME NEW m \in Listeners
               PROVE  /\ IsFiniteSet(handshaking'[m]) /\ Cardinality(handshaking'[m]) <= Backlog
                      /\ handshaking'[m] \subseteq pending'[m]
                      /\ \A d \in handshaking'[m] : conn'[d].pc \in {"opening", "removed"}
    BY DEF BacklogInv
  <1>5. CASE m = l
    <2>1. handshaking'[m] = handshaking[l] \cup {c} /\ pending'[m] = pending[l] \cup {c}
      BY <1>3, <1>5
    <2>2. /\ handshaking[l] \subseteq Conns /\ handshaking[l] \subseteq pending[l]
          /\ \A d \in handshaking[l] : conn[d].pc \in {"opening", "removed"}
      BY <1>3 DEF IndInv, BacklogInv
    <2>3. \A d \in handshaking[l] \cup {c} : conn'[d].pc \in {"opening", "removed"}
      BY <1>1, <2>2
    <2> QED
      BY <1>2, <1>4, <2>1, <2>2, <2>3
  <1>6. CASE m # l
    <2>1. c \notin handshaking[m]
      BY UnusedIsNowhere
    <2> QED
      BY <1>3, <1>6, <2>1 DEF IndInv, BacklogInv
  <1> QED
    BY <1>5, <1>6

\* A SYN admitted with room for a stateful handshake preserves the inductive
\* invariant (handleSYN).
LEMMA AdmitSYNPreserves ==
    ASSUME IndInv, NEW w \in Writers, NEW c \in Conns, AdmitSYN(w, c)
    PROVE  IndInv'
  <1>1. writer[w].key \in Keys /\ dispatch \in Listeners /\ conn[c] = Unused /\ lstate[dispatch] # "closed"
    BY CallShape DEF IndInv, TypeOK, StackTypeOK, AdmitSYN, BacklogOpen
  <1>2. /\ ConnTypeOK' /\ conn'[c] = Started(writer[w].key, dispatch, None)
        /\ \A d \in Conns \ {c} : conn'[d] = conn[d]
    BY <1>1, StartedType DEF IndInv, TypeOK, AdmitSYN
  <1>3. TypeOK'
    <2>1. StackTypeOK' /\ ListenerTypeOK'
      BY <1>1 DEF IndInv, TypeOK, StackTypeOK, ListenerTypeOK, AdmitSYN, Track
    <2>2. CallTypeOK'
      BY DEF IndInv, TypeOK, CallTypeOK, AdmitSYN
    <2> QED
      BY <1>2, <2>1, <2>2 DEF TypeOK
  <1>4. TableInv'
    BY <1>1, AdmittedTable DEF AdmitSYN, StillDispatched
  <1>5. BacklogInv'
    <2>1. conn'[c].pc = "opening"
      BY <1>2 DEF Started, Unused
    <2> QED
      BY <1>1, <1>2, <2>1, TrackKeepsBacklog DEF AdmitSYN
  <1>6. ConnShape' /\ PendingInv' /\ QueueInv' /\ CloseInv' /\ CookieOfThisListener'
    <2>1. OthersKept(c)
      BY <1>2 DEF OthersKept
    <2> QED
      BY <1>1, <1>2, <2>1, StartedKeeps DEF AdmitSYN, Track
  <1> QED
    BY <1>3, <1>4, <1>5, <1>6 DEF IndInv

\* An acknowledgement of a cookie admitted for the listener that sent it
\* preserves the inductive invariant (handleSYNCookieACK).
LEMMA AdmitACKPreserves ==
    ASSUME IndInv, NEW w \in Writers, NEW c \in Conns, AdmitACK(w, c)
    PROVE  IndInv'
  <1>1. /\ writer[w].key \in Keys /\ dispatch \in Listeners /\ conn[c] = Unused
        /\ lstate[dispatch] # "closed" /\ writer[w].listener = dispatch
    BY CallShape DEF IndInv, TypeOK, StackTypeOK, AdmitACK, SameListener
  <1>2. /\ ConnTypeOK' /\ conn'[c] = Started(writer[w].key, dispatch, dispatch)
        /\ \A d \in Conns \ {c} : conn'[d] = conn[d]
    BY <1>1, StartedType DEF IndInv, TypeOK, AdmitACK
  <1>3. TypeOK'
    <2>1. StackTypeOK' /\ ListenerTypeOK'
      BY <1>1 DEF IndInv, TypeOK, StackTypeOK, ListenerTypeOK, AdmitACK, TrackCompleted
    <2>2. CallTypeOK'
      BY DEF IndInv, TypeOK, CallTypeOK, AdmitACK
    <2> QED
      BY <1>2, <2>1, <2>2 DEF TypeOK
  <1>4. TableInv'
    BY <1>1, AdmittedTable DEF AdmitACK, StillDispatched
  <1>5. BacklogInv'
    <2>1. \A m \in Listeners : c \notin handshaking[m]
      BY <1>1, UnusedIsNowhere
    <2> QED
      BY <1>1, <1>2, <2>1 DEF IndInv, TypeOK, ListenerTypeOK, BacklogInv, AdmitACK, TrackCompleted
  <1>6. ConnShape' /\ PendingInv' /\ QueueInv' /\ CloseInv' /\ CookieOfThisListener'
    <2>1. OthersKept(c)
      BY <1>2 DEF OthersKept
    <2> QED
      BY <1>1, <1>2, <2>1, StartedKeeps DEF AdmitACK, TrackCompleted
  <1> QED
    BY <1>3, <1>4, <1>5, <1>6 DEF IndInv

\* A TIME-WAIT connection replaced by a fresh SYN of its tuple preserves the
\* inductive invariant (replaceTCPTimeWait).
LEMMA ReplaceTimeWaitPreserves ==
    ASSUME IndInv, NEW c \in Conns, NEW new \in Conns, ReplaceTimeWait(c, new)
    PROVE  IndInv'
  <1> DEFINE k == conn[c].key
  <1>1. /\ conn[c].pc = "timewait" /\ conn[c].aborted = "no" /\ conn[new] = Unused /\ c # new
        /\ conn[new].pc = "unused"
        /\ k \in Keys /\ tcp[k] = c /\ dispatch \in Listeners /\ ~closed /\ lstate[dispatch] # "closed"
    BY DEF IndInv, TypeOK, StackTypeOK, ConnShape, Alive, ReplaceTimeWait, Unused
  <1>2. conn' = [conn EXCEPT ![c] = [conn[c] EXCEPT !.aborted = "replaced"],
                             ![new] = Started(k, dispatch, None)]
    BY <1>1 DEF ReplaceTimeWait, Aborted
  <1> HIDE DEF k
  <1>3. /\ conn'[new] = Started(k, dispatch, None)
        /\ conn'[c] = [conn[c] EXCEPT !.aborted = "replaced"]
        /\ \A d \in Conns \ {c, new} : conn'[d] = conn[d]
    BY <1>1, <1>2 DEF IndInv, TypeOK, ConnTypeOK, ConnRecords
  <1>4. ConnTypeOK'
    <2>1. Started(k, dispatch, None) \in ConnRecords
      BY <1>1 DEF ConnRecords, Started, Unused
    <2>2. [conn[c] EXCEPT !.aborted = "replaced"] \in ConnRecords
      BY DEF IndInv, TypeOK, ConnTypeOK, ConnRecords
    <2> QED
      BY <1>2, <2>1, <2>2 DEF IndInv, TypeOK, ConnTypeOK
  <1>5. \A d \in Conns \ {new} :
           /\ conn'[d].pc = conn[d].pc /\ conn'[d].key = conn[d].key /\ conn'[d].cookie = conn[d].cookie
           /\ conn'[d].listener = conn[d].listener /\ conn'[d].place = conn[d].place
           /\ conn'[d] = conn[d] \/ (conn[d].pc = "timewait" /\ conn'[d].aborted = "replaced")
    BY <1>1, <1>3 DEF IndInv, TypeOK, ConnTypeOK, ConnRecords
  <1>6. /\ Track(dispatch, new) /\ BacklogOpen(dispatch)
        /\ tcp' = [tcp EXCEPT ![k] = new]
        /\ UNCHANGED <<active, closed, passive, dispatch, lstate, accept, toAbort, writer, accepter, cookies>>
    BY DEF ReplaceTimeWait, k
  <1>7. TypeOK'
    BY <1>1, <1>4, <1>6 DEF IndInv, TypeOK, StackTypeOK, ListenerTypeOK, CallTypeOK, Track
  <1>8. conn'[new].pc = "opening" /\ conn'[new].key = k
    BY <1>3 DEF Started, Unused
  <1>9. BacklogInv'
    BY <1>1, <1>5, <1>6, <1>8, TrackKeepsBacklog
  <1>10. ConnShape' /\ PendingInv' /\ QueueInv' /\ CloseInv' /\ CookieOfThisListener'
    <2>1. pending' = [pending EXCEPT ![dispatch] = @ \cup {new}]
      BY <1>6 DEF Track
    <2>2. None \in {None, dispatch}
      OBVIOUS
    <2>3. UNCHANGED <<lstate, accept, toAbort, accepter>>
      BY <1>6
    <2>4. OthersKept(new)
      BY <1>5 DEF OthersKept
    <2> QED
      BY <1>1, <1>3, <1>4, <2>1, <2>2, <2>3, <2>4, StartedKeeps
  <1>11. TableInv'
    <2>1. \A j \in Keys : (j = k => tcp'[j] = new) /\ (j # k => tcp'[j] = tcp[j])
      BY <1>1, <1>6 DEF IndInv, TypeOK, StackTypeOK
    <2>2. Entries' = Entries
      BY <1>1, <2>1, NoneFresh DEF Entries
    <2>3. \A j \in Keys : tcp'[j] # None => tcp'[j] \in Running' /\ conn'[tcp'[j]].key = j
      BY <1>1, <1>5, <1>8, <2>1 DEF IndInv, TableInv, Running
    <2>4. ASSUME NEW d \in Conns, d \in Running', conn'[d].aborted # "replaced"
          PROVE  tcp'[conn'[d].key] = d
      <3>1. CASE d = new
        BY <1>1, <1>8, <2>1, <3>1
      <3>2. CASE d # new
        <4>1. d # c
          BY <1>1, <1>3, <2>4 DEF IndInv, TypeOK, ConnTypeOK, ConnRecords
        <4>2. conn'[d] = conn[d] /\ conn[d].key \in Keys /\ tcp[conn[d].key] = d
          BY <1>1, <1>3, <2>4, <3>2, <4>1 DEF IndInv, TableInv, Running, ConnShape, Alive
        <4> QED
          BY <1>1, <2>1, <4>1, <4>2
      <3> QED
        BY <3>1, <3>2
    <2> QED
      BY <1>1, <1>6, <2>2, <2>3, <2>4 DEF IndInv, TableInv, Running
  <1> QED
    BY <1>7, <1>9, <1>10, <1>11 DEF IndInv
-----------------------------------------------------------------------------
(* The actors and Accept. *)

\* ToTimeWait (the application closed first) preserves the inductive invariant.
LEMMA ToTimeWaitPreserves ==
    ASSUME IndInv, NEW c \in Conns, ToTimeWait(c)
    PROVE  IndInv'
  <1>1. /\ conn[c].place = "application" /\ conn[c].pc = "established"
        /\ conn' = [conn EXCEPT ![c] = [conn[c] EXCEPT !.pc = "timewait"]]
        /\ UNCHANGED <<stackVars, listenerVars, writer, accepter, cookies>>
    BY DEF ToTimeWait
  <1>2. /\ \A d \in Conns \ {c} : conn'[d] = conn[d]
        /\ conn'[c] = [conn[c] EXCEPT !.pc = "timewait"]
        /\ ConnTypeOK'
    BY <1>1 DEF IndInv, TypeOK, ConnTypeOK, ConnRecords
  <1>3. \A d \in Conns : /\ conn'[d].key = conn[d].key /\ conn'[d].cookie = conn[d].cookie
                         /\ conn'[d].listener = conn[d].listener /\ conn'[d].place = conn[d].place
                         /\ conn'[d].aborted = conn[d].aborted
                         /\ d # c => conn'[d].pc = conn[d].pc
                         /\ conn'[c].pc = "timewait"
    BY <1>2 DEF IndInv, TypeOK, ConnTypeOK, ConnRecords
  <1>4. TypeOK'
    BY <1>1, <1>2 DEF IndInv, TypeOK, StackTypeOK, ListenerTypeOK, CallTypeOK, stackVars, listenerVars
  <1>5. TableInv'
    BY <1>1, <1>3 DEF IndInv, TableInv, Entries, Running, stackVars
  <1>6. ConnShape' /\ CookieOfThisListener'
    BY <1>1, <1>2, <1>3 DEF IndInv, ConnShape, CookieOfThisListener, Alive
  <1>7. \A l \in Listeners :
           /\ c \notin pending[l] /\ c \notin Queue(l) /\ c \notin Held(l)
           /\ Queue(l)' = Queue(l) /\ Held(l)' = Held(l)
           /\ Queue(l) \subseteq Conns /\ Held(l) \subseteq Conns
    <2>1. \A l \in Listeners : c \notin pending[l] /\ c \notin Queue(l) /\ c \notin Held(l)
      BY <1>1 DEF IndInv, PendingInv, QueueInv
    <2> QED
      BY <1>1, <2>1, CallShape DEF IndInv, TypeOK, ListenerTypeOK, CallTypeOK, listenerVars, Queue, Held
  <1>8. BacklogInv' /\ PendingInv'
    BY <1>1, <1>3, <1>7 DEF IndInv, TypeOK, ListenerTypeOK, BacklogInv, PendingInv, Alive, listenerVars
  <1>9. QueueInv'
    <2>1. UNCHANGED <<accept, accepter, pending, lstate>>
      BY <1>1 DEF listenerVars
    <2>2. \A l \in Listeners : \A d \in Queue(l) \cup Held(l) :
             /\ lstate[l] # "closed" => d \in pending[l]
             /\ \/ conn'[d].pc = "dead"
                \/ conn'[d].pc = "established" /\ conn'[d].place = "queue" /\ conn'[d].listener = l
      <3> SUFFICES ASSUME NEW l \in Listeners, NEW d \in Queue(l) \cup Held(l)
                   PROVE  /\ lstate[l] # "closed" => d \in pending[l]
                          /\ \/ conn'[d].pc = "dead"
                             \/ conn'[d].pc = "established" /\ conn'[d].place = "queue" /\ conn'[d].listener = l
        OBVIOUS
      <3>1. d \in Conns /\ d # c
        BY <1>7
      <3>2. /\ lstate[l] # "closed" => d \in pending[l]
            /\ \/ conn[d].pc = "dead"
               \/ conn[d].pc = "established" /\ conn[d].place = "queue" /\ conn[d].listener = l
        BY DEF IndInv, QueueInv
      <3>3. conn'[d] = conn[d]
        BY <1>2, <3>1
      <3> QED
        BY <3>2, <3>3
    <2> QED
      BY <1>7, <2>1, <2>2 DEF IndInv, QueueInv, Queue, SoleTaker
  <1>10. CloseInv'
    BY <1>1, <1>3 DEF IndInv, CloseInv, listenerVars
  <1> QED
    BY <1>4, <1>5, <1>6, <1>8, <1>9, <1>10 DEF IndInv

\* TCPListener.enqueue, which takes or refuses the connection, preserves the
\* inductive invariant.
LEMMA EnqueuePreserves ==
    ASSUME IndInv, NEW c \in Conns, Enqueue(c)
    PROVE  IndInv'
  <1> DEFINE l == conn[c].listener
             taken == lstate[l] # "closed" /\ Len(accept[l]) < AcceptCapacity
             next == [conn[c] EXCEPT !.pc = IF taken THEN "established" ELSE "refused",
                                     !.place = IF taken THEN "queue" ELSE "listener"]
  <1>1. /\ conn[c].pc = "opening" /\ l \in Listeners /\ conn[c].place = "listener"
        /\ handshaking' = [handshaking EXCEPT ![l] = @ \ {c}]
        /\ accept' = IF taken THEN [accept EXCEPT ![l] = Append(accept[l], c)] ELSE accept
        /\ conn' = [conn EXCEPT ![c] = next]
        /\ UNCHANGED <<stackVars, lstate, pending, toAbort, writer, accepter, cookies>>
    BY DEF Enqueue, IndInv, ConnShape, Alive
  <1>2. /\ next \in ConnRecords /\ next.key = conn[c].key /\ next.listener = l /\ next.cookie = conn[c].cookie
        /\ next.aborted = conn[c].aborted
        /\ taken => next.pc = "established" /\ next.place = "queue"
        /\ ~taken => next.pc = "refused" /\ next.place = "listener"
    BY DEF IndInv, TypeOK, ConnTypeOK, ConnRecords
  <1>3. /\ \A d \in Conns : d # c => conn'[d] = conn[d]
        /\ conn'[c] = next
        /\ ConnTypeOK'
    BY <1>1, <1>2 DEF IndInv, TypeOK, ConnTypeOK
  <1>4. /\ c \in pending[l] \/ lstate[l] = "closed"
        /\ \A m \in Listeners : /\ c \notin Queue(m) /\ c \notin Held(m)
                                /\ m # l => c \notin pending[m]
    BY <1>1 DEF IndInv, PendingInv, QueueInv, Alive
  <1> HIDE DEF l, next, taken
  <1>5. TypeOK'
    <2>1. accept' \in [Listeners -> Seq(Conns)]
      BY <1>1 DEF IndInv, TypeOK, ListenerTypeOK
    <2> QED
      BY <1>1, <1>3, <2>1 DEF IndInv, TypeOK, StackTypeOK, ListenerTypeOK, CallTypeOK, stackVars
  <1>6. TableInv'
    BY <1>1, <1>2, <1>3 DEF IndInv, TableInv, Entries, Running, stackVars
  <1>7. ConnShape' /\ CookieOfThisListener'
    BY <1>1, <1>2, <1>3 DEF IndInv, ConnShape, CookieOfThisListener, Alive, l
  <1>8. BacklogInv'
    <2>1. \A m \in Listeners \ {l} : c \notin handshaking[m]
      BY <1>4 DEF IndInv, BacklogInv
    <2> QED
      BY <1>1, <1>3, <2>1, ReleaseKeepsBacklog
  <1>9. ASSUME NEW m \in Listeners
        PROVE  /\ Held(m)' = Held(m) /\ Queue(m) \subseteq Conns /\ Held(m) \subseteq Conns
               /\ (m = l /\ taken) => Queue(m)' = Queue(m) \cup {c} /\ Distinct(accept'[m])
               /\ ~(m = l /\ taken) => accept'[m] = accept[m] /\ Queue(m)' = Queue(m)
    <2>1. Held(m)' = Held(m) /\ Queue(m) \subseteq Conns /\ Held(m) \subseteq Conns
      BY <1>1, CallShape DEF IndInv, TypeOK, ListenerTypeOK, CallTypeOK, Queue, Held
    <2>2. CASE m = l /\ taken
      <3>1. accept[m] \in Seq(Conns) /\ accept'[m] = Append(accept[m], c)
        BY <1>1, <2>2 DEF IndInv, TypeOK, ListenerTypeOK
      <3>2. /\ Queue(m) = Elements(accept[m]) /\ Queue(m)' = Elements(accept'[m])
            /\ Distinct(accept[m]) /\ c \notin Elements(accept[m])
        BY <1>4 DEF Queue, Elements, IndInv, QueueInv
      <3> QED
        BY <2>1, <2>2, <3>1, <3>2, ElementsOfAppend, DistinctAppend
    <2>3. CASE ~(m = l /\ taken)
      <3>1. accept'[m] = accept[m]
        BY <1>1, <2>3 DEF IndInv, TypeOK, ListenerTypeOK
      <3> QED
        BY <2>1, <2>3, <3>1 DEF Queue
    <2> QED
      BY <2>2, <2>3
  <1>10. PendingInv'
    <2>1. ASSUME NEW m \in Listeners, NEW d \in Conns
          PROVE  /\ d \in pending'[m] =>
                      /\ lstate'[m] # "closed"
                      /\ conn'[d].pc = "dead" \/ (conn'[d].listener = m /\ conn'[d].place # "application")
                      /\ conn'[d].pc \in {"dead", "established"} => d \in Queue(m)' \cup Held(m)'
                 /\ (/\ lstate'[m] # "closed" /\ conn'[d].pc \in Alive
                     /\ conn'[d].listener = m /\ conn'[d].place # "application") => d \in pending'[m]
      <3>1. /\ d \in pending[m] =>
                 /\ lstate[m] # "closed"
                 /\ conn[d].pc = "dead" \/ (conn[d].listener = m /\ conn[d].place # "application")
                 /\ conn[d].pc \in {"dead", "established"} => d \in Queue(m) \cup Held(m)
            /\ (/\ lstate[m] # "closed" /\ conn[d].pc \in Alive
                /\ conn[d].listener = m /\ conn[d].place # "application") => d \in pending[m]
        BY DEF IndInv, PendingInv
      <3>2. CASE d = c
        BY <1>1, <1>2, <1>3, <1>4, <1>9, <3>1, <3>2
      <3>3. CASE d # c
        BY <1>1, <1>3, <1>9, <3>1, <3>3
      <3> QED
        BY <3>2, <3>3
    <2> QED
      BY <2>1 DEF PendingInv
  <1>11. QueueInv'
    <2>1. \A m \in Listeners : Distinct(accept'[m])
      BY <1>9 DEF IndInv, QueueInv
    <2>2. ASSUME NEW a \in Accepters, accepter'[a].pc = "taken"
          PROVE  /\ (accepter[a].conn \notin Queue(accepter[a].listener))'
                 /\ SoleTaker(a)'
      <3>1. accepter' = accepter /\ accepter[a].listener \in Listeners
        BY <1>1, <2>2, CallShape DEF IndInv
      <3>2. accepter[a].conn \in Held(accepter[a].listener)
        BY <2>2, <3>1 DEF Held
      <3>3. accepter[a].conn # c
        BY <1>4, <3>1, <3>2
      <3>4. (accepter[a].conn \notin Queue(accepter[a].listener))'
        BY <1>9, <2>2, <3>1, <3>3 DEF IndInv, QueueInv
      <3>5. SoleTaker(a)'
        BY <2>2, <3>1 DEF IndInv, QueueInv, SoleTaker
      <3> QED
        BY <3>1, <3>4, <3>5
    <2>3. ASSUME NEW m \in Listeners, NEW d \in Queue(m)' \cup Held(m)'
          PROVE  /\ lstate'[m] # "closed" => d \in pending'[m]
                 /\ \/ conn'[d].pc = "dead"
                    \/ conn'[d].pc = "established" /\ conn'[d].place = "queue" /\ conn'[d].listener = m
      <3>1. CASE d \in Queue(m) \cup Held(m)
        <4>1. d \in Conns /\ d # c /\ conn'[d] = conn[d]
          BY <1>3, <1>4, <1>9, <3>1
        <4> QED
          BY <1>1, <3>1, <4>1 DEF IndInv, QueueInv
      <3>2. CASE d = c /\ m = l /\ taken
        BY <1>1, <1>2, <1>3, <1>4, <3>2 DEF taken
      <3> QED
        BY <1>9, <2>3, <3>1, <3>2
    <2> QED
      BY <2>1, <2>2, <2>3 DEF QueueInv
  <1>12. CloseInv'
    BY <1>1, <1>2, <1>3 DEF IndInv, CloseInv, l, taken
  <1> QED
    BY <1>5, <1>6, <1>7, <1>8, <1>10, <1>11, <1>12 DEF IndInv

\* removeTCP by the actor that ends leaves the table to the running ones.
LEMMA FinishedTable ==
    ASSUME IndInv, NEW c \in Conns, Finish(c), conn'[c].pc \in {"dead", "removed"},
           \A d \in Conns \ {c} : conn'[d] = conn[d]
    PROVE  TableInv' /\ StackTypeOK'
  <1> DEFINE k == conn[c].key
  <1>1. k \in Keys /\ conn[c].pc \in Alive /\ c # None /\ UNCHANGED <<closed, passive, dispatch>>
    BY NoneFresh DEF IndInv, ConnShape, Finish, Alive
  <1>2. \A j \in Keys : tcp[j] = c => j = k
    BY <1>1 DEF IndInv, TableInv
  <1>3. CASE OwnsEntry(c)
    <2>1. tcp' = [tcp EXCEPT ![k] = None] /\ active' = active - 1 /\ tcp[k] = c
      BY <1>3 DEF Finish, OwnsEntry
    <2> HIDE DEF k
    <2>2. \A j \in Keys : (j = k => tcp'[j] = None) /\ (j # k => tcp'[j] = tcp[j])
      BY <2>1 DEF IndInv, TypeOK, StackTypeOK
    <2>3. Entries' = Entries \ {k} /\ k \in Entries
      BY <1>1, <2>1, <2>2 DEF Entries
    <2>4. IsFiniteSet(Entries) /\ active = Cardinality(Entries) /\ active \in Int /\ active <= MaxConnections
      BY DEF IndInv, TableInv, TypeOK, StackTypeOK
    <2>5. IsFiniteSet(Entries \ {k}) /\ Cardinality(Entries \ {k}) = Cardinality(Entries) - 1
      BY <2>3, <2>4, FS_RemoveElement
    <2>6. active' = Cardinality(Entries') /\ active' <= MaxConnections /\ IsFiniteSet(Entries')
      BY <2>1, <2>3, <2>4, <2>5, Limits
    <2>7. \A j \in Keys : tcp'[j] # None => tcp'[j] \in Running' /\ conn'[tcp'[j]].key = j
      BY <1>2, <2>2 DEF IndInv, TableInv, Running
    <2>8. ASSUME ~closed, NEW d \in Conns, d \in Running', conn'[d].aborted # "replaced"
          PROVE  tcp'[conn'[d].key] = d
      <3>1. d # c
        BY <2>8 DEF Running
      <3>2. conn'[d] = conn[d] /\ conn[d].key \in Keys /\ tcp[conn[d].key] = d
        BY <2>8, <3>1 DEF IndInv, TableInv, Running, ConnShape, Alive
      <3>3. conn[d].key # k
        BY <2>1, <3>1, <3>2
      <3> QED
        BY <2>2, <3>2, <3>3
    <2>9. StackTypeOK'
      BY <1>1, <2>1 DEF IndInv, TypeOK, StackTypeOK
    <2> QED
      BY <1>1, <2>2, <2>6, <2>7, <2>8, <2>9 DEF IndInv, TableInv, Running
  <1>4. CASE ~OwnsEntry(c)
    <2>1. tcp' = tcp /\ active' = active /\ tcp[k] # c
      BY <1>4 DEF Finish, OwnsEntry
    <2> HIDE DEF k
    <2>2. \A j \in Keys : tcp[j] # c
      BY <1>2, <2>1
    <2>3. Entries' = Entries
      BY <2>1 DEF Entries
    <2>4. \A j \in Keys : tcp'[j] # None => tcp'[j] \in Running' /\ conn'[tcp'[j]].key = j
      BY <2>1, <2>2 DEF IndInv, TableInv, Running
    <2>5. ASSUME ~closed, NEW d \in Conns, d \in Running', conn'[d].aborted # "replaced"
          PROVE  tcp'[conn'[d].key] = d
      <3>1. d # c
        BY <2>5 DEF Running
      <3> QED
        BY <2>1, <2>5, <3>1 DEF IndInv, TableInv, Running
    <2>6. StackTypeOK'
      BY <1>1, <2>1 DEF IndInv, TypeOK, StackTypeOK
    <2> QED
      BY <1>1, <2>1, <2>3, <2>4, <2>5, <2>6 DEF IndInv, TableInv, Running
  <1> QED
    BY <1>3, <1>4

\* The end of an actor preserves the inductive invariant: a connection in the
\* accept queue stays there, one that never got there is removed next.
LEMMA FinishPreserves ==
    ASSUME IndInv, NEW c \in Conns, Finish(c)
    PROVE  IndInv'
  <1> DEFINE next == IF conn[c].place # "listener" THEN Dead ELSE [conn[c] EXCEPT !.pc = "removed"]
  <1>1. /\ conn[c].pc \in {"opening", "established", "timewait", "refused"}
        /\ conn' = [conn EXCEPT ![c] = next]
        /\ UNCHANGED <<closed, passive, dispatch, listenerVars, writer, accepter, cookies>>
    BY DEF Finish
  <1>2. /\ next \in ConnRecords
        /\ conn[c].place = "listener" =>
              /\ next.pc = "removed" /\ next.key = conn[c].key /\ next.listener = conn[c].listener
              /\ next.cookie = conn[c].cookie /\ next.place = "listener" /\ next.aborted = conn[c].aborted
        /\ conn[c].place # "listener" => next = Dead /\ next.pc = "dead"
    BY DEF IndInv, TypeOK, ConnTypeOK, ConnRecords, Dead, Unused
  <1> HIDE DEF next
  <1>3. ConnTypeOK' /\ conn'[c] = next /\ \A d \in Conns \ {c} : conn'[d] = conn[d]
    BY <1>1, <1>2 DEF IndInv, TypeOK, ConnTypeOK
  <1>4. TableInv' /\ StackTypeOK'
    BY <1>2, <1>3, FinishedTable
  <1>5. TypeOK'
    BY <1>1, <1>3, <1>4 DEF IndInv, TypeOK, ListenerTypeOK, CallTypeOK, listenerVars
  <1>6. /\ next.pc = "dead" => /\ next.listener = None /\ next.cookie = None
                               /\ next.place = "listener" /\ next.aborted = "no"
        /\ conn[c].listener \in Listeners /\ conn[c].key \in Keys
    BY <1>1, <1>2 DEF Dead, Unused, IndInv, ConnShape, Alive
  <1>7. ConnShape'
    BY <1>2, <1>3, <1>6 DEF IndInv, ConnShape, Alive
  <1>8. CookieOfThisListener'
    BY <1>2, <1>3, <1>6 DEF IndInv, CookieOfThisListener
  <1>9. UNCHANGED <<lstate, pending, handshaking, accept, toAbort, accepter>>
    BY <1>1 DEF listenerVars
  <1>10. \A m \in Listeners : /\ Queue(m)' = Queue(m) /\ Held(m)' = Held(m)
                              /\ Queue(m) \subseteq Conns /\ Held(m) \subseteq Conns
    BY <1>9, CallShape DEF IndInv, TypeOK, ListenerTypeOK, CallTypeOK, Queue, Held
  <1>11. BacklogInv'
    <2>1. ASSUME NEW m \in Listeners, NEW d \in handshaking[m]
          PROVE  conn'[d].pc \in {"opening", "removed"}
      <3>1. d \in Conns /\ conn[d].pc \in {"opening", "removed"}
        BY <2>1 DEF IndInv, TypeOK, ListenerTypeOK, BacklogInv
      <3>2. d = c => conn[c].place = "listener"
        BY <3>1 DEF IndInv, ConnShape
      <3> QED
        BY <1>2, <1>3, <3>1, <3>2
    <2> QED
      BY <1>9, <2>1 DEF IndInv, BacklogInv
  <1>12. PendingInv'
    <2>1. ASSUME NEW m \in Listeners, NEW d \in Conns
          PROVE  /\ d \in pending'[m] =>
                      /\ lstate'[m] # "closed"
                      /\ conn'[d].pc = "dead" \/ (conn'[d].listener = m /\ conn'[d].place # "application")
                      /\ conn'[d].pc \in {"dead", "established"} => d \in Queue(m)' \cup Held(m)'
                 /\ (/\ lstate'[m] # "closed" /\ conn'[d].pc \in Alive
                     /\ conn'[d].listener = m /\ conn'[d].place # "application") => d \in pending'[m]
      <3>1. /\ d \in pending[m] =>
                 /\ lstate[m] # "closed"
                 /\ conn[d].pc = "dead" \/ (conn[d].listener = m /\ conn[d].place # "application")
                 /\ conn[d].pc \in {"dead", "established"} => d \in Queue(m) \cup Held(m)
            /\ (/\ lstate[m] # "closed" /\ conn[d].pc \in Alive
                /\ conn[d].listener = m /\ conn[d].place # "application") => d \in pending[m]
        BY DEF IndInv, PendingInv
      <3>2. CASE d = c
        <4>1. conn[c].place \notin {"listener", "application"} => conn[c].pc = "established"
          BY <1>1 DEF IndInv, ConnShape
        <4> QED
          BY <1>1, <1>2, <1>3, <1>6, <1>9, <1>10, <3>1, <3>2, <4>1 DEF Alive
      <3>3. CASE d # c
        BY <1>3, <1>9, <1>10, <3>1, <3>3
      <3> QED
        BY <3>2, <3>3
    <2> QED
      BY <2>1 DEF PendingInv
  <1>13. QueueInv'
    <2>1. ASSUME NEW m \in Listeners, NEW d \in Queue(m) \cup Held(m)
          PROVE  /\ lstate[m] # "closed" => d \in pending[m]
                 /\ \/ conn'[d].pc = "dead"
                    \/ conn'[d].pc = "established" /\ conn'[d].place = "queue" /\ conn'[d].listener = m
      <3>1. /\ lstate[m] # "closed" => d \in pending[m]
            /\ \/ conn[d].pc = "dead"
               \/ conn[d].pc = "established" /\ conn[d].place = "queue" /\ conn[d].listener = m
            /\ d \in Conns
        BY <1>10, <2>1 DEF IndInv, QueueInv
      <3>2. CASE d = c
        BY <1>1, <1>2, <1>3, <3>1, <3>2
      <3>3. CASE d # c
        BY <1>3, <3>1, <3>3
      <3> QED
        BY <3>2, <3>3
    <2> QED
      BY <1>9, <1>10, <2>1 DEF IndInv, QueueInv, Queue, SoleTaker
  <1>14. CloseInv'
    BY <1>1, <1>2, <1>3, <1>6, <1>9, NoneFresh DEF IndInv, CloseInv
  <1> QED
    BY <1>4, <1>5, <1>7, <1>8, <1>11, <1>12, <1>13, <1>14 DEF IndInv

\* removePending of a connection that was never queued preserves the inductive
\* invariant.
LEMMA RemovePendingPreserves ==
    ASSUME IndInv, NEW c \in Conns, RemovePending(c)
    PROVE  IndInv'
  <1> DEFINE l == conn[c].listener
  <1>1. /\ conn[c].pc = "removed" /\ conn[c].place = "listener" /\ l \in Listeners
        /\ conn' = [conn EXCEPT ![c] = Dead]
        /\ pending' = [pending EXCEPT ![l] = @ \ {c}]
        /\ handshaking' = [handshaking EXCEPT ![l] = @ \ {c}]
        /\ UNCHANGED <<stackVars, lstate, accept, toAbort, writer, accepter, cookies>>
    BY DEF RemovePending, Released, IndInv, ConnShape, Alive
  <1> HIDE DEF l
  <1>2. /\ Dead \in ConnRecords /\ Dead.pc = "dead" /\ Dead.listener = None /\ Dead.cookie = None
        /\ Dead.place = "listener" /\ Dead.aborted = "no"
    BY DEF ConnRecords, Dead, Unused
  <1>3. ConnTypeOK' /\ conn'[c] = Dead /\ \A d \in Conns \ {c} : conn'[d] = conn[d]
    BY <1>1, <1>2 DEF IndInv, TypeOK, ConnTypeOK
  <1>4. /\ \A m \in Listeners : c \notin Queue(m) /\ c \notin Held(m)
        /\ \A m \in Listeners \ {l} : c \notin pending[m] /\ c \notin handshaking[m]
    <2>1. \A m \in Listeners : c \notin Queue(m) /\ c \notin Held(m)
      BY <1>1 DEF IndInv, QueueInv
    <2>2. \A m \in Listeners \ {l} : c \notin pending[m] /\ c \notin handshaking[m]
      BY <1>1 DEF IndInv, PendingInv, BacklogInv, l
    <2> QED
      BY <2>1, <2>2
  <1>5. \A m \in Listeners : /\ Queue(m)' = Queue(m) /\ Held(m)' = Held(m)
                             /\ Queue(m) \subseteq Conns /\ Held(m) \subseteq Conns
                             /\ pending'[m] = pending[m] \ {c}
    BY <1>1, <1>4, CallShape DEF IndInv, TypeOK, ListenerTypeOK, CallTypeOK, Queue, Held
  <1>6. TypeOK'
    BY <1>1, <1>3 DEF IndInv, TypeOK, StackTypeOK, ListenerTypeOK, CallTypeOK, stackVars
  <1>7. TableInv'
    <2>1. UNCHANGED <<tcp, active, closed>>
      BY <1>1 DEF stackVars
    <2>2. Running' = Running /\ c \notin Running
      BY <1>1, <1>2, <1>3 DEF Running
    <2> QED
      BY <1>3, <2>1, <2>2 DEF IndInv, TableInv, Entries, Running
  <1>8. ConnShape' /\ CookieOfThisListener'
    BY <1>2, <1>3 DEF IndInv, ConnShape, CookieOfThisListener, Alive
  <1>9. BacklogInv'
    BY <1>1, <1>3, <1>4, <1>5, ReleaseKeepsBacklog
  <1>10. PendingInv'
    <2>1. ASSUME NEW m \in Listeners, NEW d \in Conns
          PROVE  /\ d \in pending'[m] =>
                      /\ lstate'[m] # "closed"
                      /\ conn'[d].pc = "dead" \/ (conn'[d].listener = m /\ conn'[d].place # "application")
                      /\ conn'[d].pc \in {"dead", "established"} => d \in Queue(m)' \cup Held(m)'
                 /\ (/\ lstate'[m] # "closed" /\ conn'[d].pc \in Alive
                     /\ conn'[d].listener = m /\ conn'[d].place # "application") => d \in pending'[m]
      <3>1. CASE d = c
        BY <1>2, <1>3, <1>5, <3>1, NoneFresh
      <3>2. CASE d # c
        BY <1>1, <1>3, <1>5, <3>2 DEF IndInv, PendingInv
      <3> QED
        BY <3>1, <3>2
    <2> QED
      BY <2>1 DEF PendingInv
  <1>11. QueueInv'
    <2>1. ASSUME NEW m \in Listeners, NEW d \in Queue(m) \cup Held(m)
          PROVE  /\ lstate[m] # "closed" => d \in pending'[m]
                 /\ \/ conn'[d].pc = "dead"
                    \/ conn'[d].pc = "established" /\ conn'[d].place = "queue" /\ conn'[d].listener = m
      <3>1. /\ lstate[m] # "closed" => d \in pending[m]
            /\ \/ conn[d].pc = "dead"
               \/ conn[d].pc = "established" /\ conn[d].place = "queue" /\ conn[d].listener = m
            /\ d \in Conns /\ d # c
        BY <1>4, <1>5, <2>1 DEF IndInv, QueueInv
      <3> QED
        BY <1>3, <1>5, <3>1
    <2> QED
      BY <1>1, <1>5, <2>1 DEF IndInv, QueueInv, Queue, SoleTaker
  <1>12. CloseInv'
    BY <1>1, <1>2, <1>3, NoneFresh DEF IndInv, CloseInv
  <1> QED
    BY <1>6, <1>7, <1>8, <1>9, <1>10, <1>11, <1>12 DEF IndInv

\* An Accept call that receives a connection from the channel preserves the
\* inductive invariant.
LEMMA AcceptTakePreserves ==
    ASSUME IndInv, NEW a \in Accepters, NEW l \in Listeners, AcceptTake(a, l)
    PROVE  IndInv'
  <1> DEFINE c == Head(accept[l])
             call == [pc |-> "taken", listener |-> l, conn |-> c]
  <1>1. /\ accepter[a] = IdleAccepter /\ accept[l] # <<>> /\ accepter[a].pc # "taken"
        /\ accept' = [accept EXCEPT ![l] = Tail(accept[l])]
        /\ accepter' = [accepter EXCEPT ![a] = call]
        /\ UNCHANGED <<stackVars, lstate, pending, handshaking, toAbort, conn, writer, cookies>>
    BY DEF AcceptTake, IdleAccepter
  <1>2. /\ accept[l] \in Seq(Conns) /\ Queue(l) = Elements(accept[l]) /\ Distinct(accept[l])
        /\ accept'[l] = Tail(accept[l]) /\ Queue(l)' = Elements(accept'[l])
        /\ \A m \in Listeners \ {l} : accept'[m] = accept[m] /\ Queue(m)' = Queue(m)
    BY <1>1 DEF IndInv, TypeOK, ListenerTypeOK, QueueInv, Queue, Elements
  <1>3. /\ Queue(l) = Queue(l)' \cup {c} /\ c \in Conns /\ Tail(accept[l]) \in Seq(Conns)
        /\ Distinct(accept'[l]) /\ c \notin Queue(l)'
    BY <1>1, <1>2, ElementsOfTail, DistinctTail
  <1> HIDE DEF c
  <1>4. /\ call.pc = "taken" /\ call.listener = l /\ call.conn = c
        /\ accepter'[a] = call /\ \A b \in Accepters \ {a} : accepter'[b] = accepter[b]
    BY <1>1 DEF IndInv, TypeOK, CallTypeOK
  <1>5. TypeOK'
    <2>1. ListenerTypeOK' /\ StackTypeOK' /\ ConnTypeOK'
      BY <1>1, <1>3 DEF IndInv, TypeOK, StackTypeOK, ListenerTypeOK, ConnTypeOK, stackVars
    <2>2. call \in [pc : {"taken"}, listener : Listeners, conn : Conns]
      BY <1>3
    <2>3. CallTypeOK'
      BY <1>1, <2>2 DEF IndInv, TypeOK, CallTypeOK
    <2> QED
      BY <2>1, <2>3 DEF TypeOK
  <1> HIDE DEF call
  <1>6. /\ Held(l)' = Held(l) \cup {c}
        /\ \A m \in Listeners \ {l} : Held(m)' = Held(m)
    BY <1>1, <1>4 DEF Held
  <1>7. \A m \in Listeners : Queue(m)' \cup Held(m)' = Queue(m) \cup Held(m)
    BY <1>2, <1>3, <1>6
  <1>8. TableInv'
    BY <1>1, TableFrame DEF IndInv, stackVars
  <1>9. ConnShape' /\ CookieOfThisListener' /\ BacklogInv' /\ CloseInv'
    BY <1>1 DEF IndInv, ConnShape, CookieOfThisListener, BacklogInv, CloseInv
  <1>10. PendingInv'
    BY <1>1, <1>7 DEF IndInv, PendingInv
  <1>11. QueueInv'
    <2>1. \A m \in Listeners : Distinct(accept'[m])
      BY <1>2, <1>3 DEF IndInv, QueueInv
    <2>2. ASSUME NEW b \in Accepters, accepter'[b].pc = "taken"
          PROVE  (accepter[b].conn \notin Queue(accepter[b].listener))' /\ SoleTaker(b)'
      <3>1. CASE b = a
        <4>1. (accepter[b].conn \notin Queue(accepter[b].listener))'
          BY <1>3, <1>4, <3>1
        <4>2. \A d \in Accepters \ {a} :
                 (accepter[d].pc = "taken" /\ accepter[d].listener = l) => accepter[d].conn # c
          BY <1>3 DEF IndInv, QueueInv
        <4> QED
          BY <1>4, <3>1, <4>1, <4>2 DEF SoleTaker
      <3>2. CASE b # a
        <4>1. /\ accepter'[b] = accepter[b] /\ accepter[b].pc = "taken" /\ accepter[b].listener \in Listeners
              /\ accepter[b].conn \notin Queue(accepter[b].listener) /\ SoleTaker(b)
          BY <1>4, <2>2, <3>2, CallShape DEF IndInv, QueueInv
        <4>2. (accepter[b].conn \notin Queue(accepter[b].listener))'
          BY <1>2, <1>3, <4>1
        <4>3. accepter[b].listener = l => accepter[b].conn # c
          BY <1>3, <4>1
        <4> QED
          BY <1>4, <3>2, <4>1, <4>2, <4>3 DEF SoleTaker
      <3> QED
        BY <3>1, <3>2
    <2>3. \A m \in Listeners : \A d \in Queue(m)' \cup Held(m)' :
             /\ lstate'[m] # "closed" => d \in pending'[m]
             /\ \/ conn'[d].pc = "dead"
                \/ conn'[d].pc = "established" /\ conn'[d].place = "queue" /\ conn'[d].listener = m
      BY <1>1, <1>7 DEF IndInv, QueueInv
    <2> QED
      BY <2>1, <2>2, <2>3 DEF QueueInv
  <1> QED
    BY <1>5, <1>8, <1>9, <1>10, <1>11 DEF IndInv

\* An Accept call that looks at the listener again, and returns what it received
\* or gives it up to Close, preserves the inductive invariant.
LEMMA AcceptReturnPreserves ==
    ASSUME IndInv, NEW a \in Accepters, AcceptReturn(a)
    PROVE  IndInv'
  <1>0. PICK l \in Listeners, c \in Conns : accepter[a].listener = l /\ accepter[a].conn = c
    BY CallShape DEF AcceptReturn, IndInv
  <1>1. /\ accepter[a].pc = "taken"
        /\ accepter' = [accepter EXCEPT ![a] = IdleAccepter]
        /\ UNCHANGED <<stackVars, lstate, handshaking, accept, toAbort, writer, cookies>>
    BY DEF AcceptReturn
  <1>2. /\ accepter'[a].pc = "idle" /\ \A b \in Accepters \ {a} : accepter'[b] = accepter[b]
        /\ CallTypeOK'
    BY <1>1 DEF IndInv, TypeOK, CallTypeOK, IdleAccepter
  <1>3. c \in Held(l) /\ c \notin Queue(l) /\ SoleTaker(a)
    BY <1>0, <1>1 DEF Held, IndInv, QueueInv
  <1>4. /\ Held(l)' = Held(l) \ {c}
        /\ \A m \in Listeners \ {l} : Held(m)' = Held(m)
        /\ \A m \in Listeners : Queue(m)' = Queue(m) /\ Queue(m) \subseteq Conns /\ Held(m) \subseteq Conns
    <2>1. Held(l)' \subseteq Held(l) \ {c}
      BY <1>0, <1>1, <1>2, <1>3 DEF Held, SoleTaker
    <2>2. Held(l) \ {c} \subseteq Held(l)'
      BY <1>0, <1>1, <1>2 DEF Held
    <2>3. \A m \in Listeners \ {l} : Held(m)' = Held(m)
      BY <1>0, <1>1, <1>2 DEF Held
    <2>4. \A m \in Listeners : Queue(m)' = Queue(m) /\ Queue(m) \subseteq Conns /\ Held(m) \subseteq Conns
      BY <1>1, CallShape DEF IndInv, TypeOK, ListenerTypeOK, CallTypeOK, Queue, Held
    <2> QED
      BY <2>1, <2>2, <2>3, <2>4
  <1>5. /\ lstate[l] # "closed" => c \in pending[l]
        /\ conn[c].pc = "dead" \/ (conn[c].pc = "established" /\ conn[c].place = "queue" /\ conn[c].listener = l)
    BY <1>1, <1>3 DEF IndInv, QueueInv
  <1>a. ASSUME NEW b \in Accepters, accepter'[b].pc = "taken"
        PROVE  (accepter[b].conn \notin Queue(accepter[b].listener))' /\ SoleTaker(b)'
    <2>1. b # a /\ accepter'[b] = accepter[b] /\ accepter[b].listener \in Listeners
      BY <1>2, <1>a, CallShape DEF IndInv
    <2> QED
      BY <1>2, <1>4, <1>a, <2>1 DEF IndInv, QueueInv, SoleTaker
  <1>6. CASE lstate[l] = "closed"
    <2>1. UNCHANGED <<pending, conn>>
      BY <1>0, <1>6 DEF AcceptReturn, MayReturn
    <2>2. TypeOK'
      BY <1>1, <1>2, <2>1 DEF IndInv, TypeOK, StackTypeOK, ListenerTypeOK, ConnTypeOK, stackVars
    <2>3. TableInv'
      BY <1>1, <2>1, TableFrame DEF IndInv, stackVars
    <2>4. ConnShape' /\ CookieOfThisListener' /\ BacklogInv' /\ CloseInv'
      BY <1>1, <2>1 DEF IndInv, ConnShape, CookieOfThisListener, BacklogInv, CloseInv
    <2>5. PendingInv'
      BY <1>1, <1>4, <1>6, <2>1 DEF IndInv, PendingInv
    <2>6. QueueInv'
      <3>1. \A m \in Listeners : \A d \in Queue(m)' \cup Held(m)' : d \in Queue(m) \cup Held(m)
        BY <1>4
      <3>2. \A m \in Listeners : Distinct(accept'[m])
        BY <1>1 DEF IndInv, QueueInv
      <3>3. \A m \in Listeners : \A d \in Queue(m)' \cup Held(m)' :
               /\ lstate'[m] # "closed" => d \in pending'[m]
               /\ \/ conn'[d].pc = "dead"
                  \/ conn'[d].pc = "established" /\ conn'[d].place = "queue" /\ conn'[d].listener = m
        BY <1>1, <2>1, <3>1 DEF IndInv, QueueInv
      <3> QED
        BY <1>a, <3>2, <3>3 DEF QueueInv
    <2> QED
      BY <2>2, <2>3, <2>4, <2>5, <2>6 DEF IndInv
  <1>7. CASE lstate[l] # "closed"
    <2> DEFINE next == IF conn[c] = Dead THEN Dead ELSE [conn[c] EXCEPT !.place = "application"]
    <2>1. /\ pending' = [pending EXCEPT ![l] = @ \ {c}]
          /\ conn' = [conn EXCEPT ![c] = next]
      BY <1>0, <1>7 DEF AcceptReturn, MayReturn
    <2>2. /\ next \in ConnRecords /\ next.pc = conn[c].pc /\ next.key = conn[c].key
          /\ next.listener = conn[c].listener /\ next.cookie = conn[c].cookie /\ next.aborted = conn[c].aborted
          /\ conn[c].pc = "dead" => next = conn[c]
          /\ conn[c].pc # "dead" => next.place = "application"
      BY <1>1 DEF IndInv, TypeOK, ConnTypeOK, ConnRecords, ConnShape, Dead, Unused
    <2> HIDE DEF next
    <2>3. ConnTypeOK' /\ conn'[c] = next /\ \A d \in Conns \ {c} : conn'[d] = conn[d]
      BY <1>1, <2>1, <2>2 DEF IndInv, TypeOK, ConnTypeOK
    <2>4. \A m \in Listeners : /\ m # l => pending'[m] = pending[m]
                               /\ pending'[l] = pending[l] \ {c}
      BY <1>1, <2>1 DEF IndInv, TypeOK, ListenerTypeOK
    <2>5. TypeOK'
      BY <1>1, <1>2, <2>1, <2>3 DEF IndInv, TypeOK, StackTypeOK, ListenerTypeOK, stackVars
    <2>6. TableInv'
      <3>1. UNCHANGED <<tcp, active, closed>>
        BY <1>1 DEF stackVars
      <3>2. \A d \in Conns : /\ conn'[d].pc = conn[d].pc /\ conn'[d].key = conn[d].key
                             /\ conn'[d].aborted = conn[d].aborted
        BY <2>2, <2>3
      <3> QED
        BY <3>1, <3>2 DEF IndInv, TableInv, Entries, Running
    <2>7. ConnShape' /\ CookieOfThisListener'
      BY <1>5, <2>2, <2>3 DEF IndInv, ConnShape, CookieOfThisListener, Alive
    <2>8. BacklogInv'
      <3>1. \A m \in Listeners : c \notin handshaking[m]
        BY <1>5 DEF IndInv, BacklogInv
      <3>2. \A m \in Listeners : handshaking[m] \subseteq Conns
        BY DEF IndInv, TypeOK, ListenerTypeOK
      <3>3. \A m \in Listeners : \A d \in handshaking[m] : d \in pending'[m] /\ conn'[d] = conn[d]
        BY <2>3, <2>4, <3>1, <3>2 DEF IndInv, BacklogInv
      <3> QED
        BY <1>1, <3>3 DEF IndInv, BacklogInv
    <2>9. ASSUME NEW m \in Listeners, m # l, conn[c].pc # "dead"
          PROVE  c \notin pending[m] /\ c \notin Queue(m) \cup Held(m)
      BY <1>1, <1>5, <2>9 DEF IndInv, PendingInv, QueueInv
    <2>10. PendingInv'
      <3>1. ASSUME NEW m \in Listeners, NEW d \in Conns
            PROVE  /\ d \in pending'[m] =>
                        /\ lstate'[m] # "closed"
                        /\ conn'[d].pc = "dead" \/ (conn'[d].listener = m /\ conn'[d].place # "application")
                        /\ conn'[d].pc \in {"dead", "established"} => d \in Queue(m)' \cup Held(m)'
                   /\ (/\ lstate'[m] # "closed" /\ conn'[d].pc \in Alive
                       /\ conn'[d].listener = m /\ conn'[d].place # "application") => d \in pending'[m]
        <4>1. /\ d \in pending[m] =>
                   /\ lstate[m] # "closed"
                   /\ conn[d].pc = "dead" \/ (conn[d].listener = m /\ conn[d].place # "application")
                   /\ conn[d].pc \in {"dead", "established"} => d \in Queue(m) \cup Held(m)
              /\ (/\ lstate[m] # "closed" /\ conn[d].pc \in Alive
                  /\ conn[d].listener = m /\ conn[d].place # "application") => d \in pending[m]
          BY DEF IndInv, PendingInv
        <4>2. CASE d = c /\ conn[c].pc = "dead"
          BY <1>1, <1>4, <2>2, <2>3, <2>4, <4>1, <4>2 DEF Alive
        <4>3. CASE d = c /\ conn[c].pc # "dead"
          BY <1>5, <2>2, <2>3, <2>4, <2>9, <4>1, <4>3
        <4>4. CASE d # c
          BY <1>1, <1>4, <2>3, <2>4, <4>1, <4>4
        <4> QED
          BY <4>2, <4>3, <4>4
      <3> QED
        BY <3>1 DEF PendingInv
    <2>11. QueueInv'
      <3>1. ASSUME NEW m \in Listeners, NEW d \in Queue(m)' \cup Held(m)'
            PROVE  /\ lstate'[m] # "closed" => d \in pending'[m]
                   /\ \/ conn'[d].pc = "dead"
                      \/ conn'[d].pc = "established" /\ conn'[d].place = "queue" /\ conn'[d].listener = m
        <4>1. d \in Queue(m) \cup Held(m) /\ d \in Conns /\ (m = l => d # c)
          BY <1>3, <1>4, <3>1
        <4>2. /\ lstate[m] # "closed" => d \in pending[m]
              /\ \/ conn[d].pc = "dead"
                 \/ conn[d].pc = "established" /\ conn[d].place = "queue" /\ conn[d].listener = m
          BY <4>1 DEF IndInv, QueueInv
        <4>3. CASE d = c
          BY <1>1, <2>2, <2>3, <2>4, <2>9, <4>1, <4>2, <4>3
        <4>4. CASE d # c
          BY <1>1, <2>3, <2>4, <4>1, <4>2, <4>4
        <4> QED
          BY <4>3, <4>4
      <3>2. \A m \in Listeners : Distinct(accept'[m])
        BY <1>1 DEF IndInv, QueueInv
      <3> QED
        BY <1>a, <3>1, <3>2 DEF QueueInv
    <2>12. CloseInv'
      <3>1. ASSUME NEW m \in Listeners, NEW d \in Conns
            PROVE  /\ d \in toAbort[m] =>
                        /\ lstate[m] = "closed"
                        /\ conn'[d].pc = "dead" \/ (conn'[d].listener = m /\ conn'[d].place # "application")
                   /\ (conn'[d].aborted = "close" /\ conn'[d].listener = m) =>
                        lstate[m] = "closed" /\ conn'[d].place # "application"
                   /\ (/\ lstate[m] = "closed" /\ conn'[d].listener = m /\ conn'[d].place # "application"
                       /\ conn'[d].pc \in {"opening", "established", "timewait"})
                        => conn'[d].aborted # "no" \/ d \in toAbort[m]
        <4>1. /\ d \in toAbort[m] =>
                   /\ lstate[m] = "closed"
                   /\ conn[d].pc = "dead" \/ (conn[d].listener = m /\ conn[d].place # "application")
              /\ (conn[d].aborted = "close" /\ conn[d].listener = m) =>
                   lstate[m] = "closed" /\ conn[d].place # "application"
              /\ (/\ lstate[m] = "closed" /\ conn[d].listener = m /\ conn[d].place # "application"
                  /\ conn[d].pc \in {"opening", "established", "timewait"})
                   => conn[d].aborted # "no" \/ d \in toAbort[m]
          BY DEF IndInv, CloseInv
        <4>2. CASE d = c
          BY <1>5, <1>7, <2>2, <2>3, <4>1, <4>2
        <4>3. CASE d # c
          BY <2>3, <4>1, <4>3
        <4> QED
          BY <4>2, <4>3
      <3> QED
        BY <1>1, <3>1 DEF CloseInv
    <2> QED
      BY <2>5, <2>6, <2>7, <2>8, <2>10, <2>11, <2>12 DEF IndInv
  <1> QED
    BY <1>6, <1>7
-----------------------------------------------------------------------------
(* The theorems. *)

\* The initial state satisfies the inductive invariant.
LEMMA InitEstablishes == Init => IndInv
  <1> SUFFICES ASSUME Init
               PROVE  IndInv
    OBVIOUS
  <1> USE DEF Init
  <1>1. /\ \A c \in Conns : conn[c] = Unused
        /\ Unused.pc = "unused" /\ Unused.listener = None /\ Unused.cookie = None
        /\ Unused.place = "listener" /\ Unused.aborted = "no" /\ Unused \in ConnRecords
    BY DEF Unused, ConnRecords
  <1>2. /\ \A a \in Accepters : accepter[a].pc = "idle"
        /\ \A l \in Listeners : accept[l] = <<>> /\ Queue(l) = {} /\ Held(l) = {} /\ Distinct(accept[l])
    BY DEF IdleAccepter, Queue, Held, Distinct
  <1>3. TypeOK
    <2>a. <<>> \in Seq(Conns)
      OBVIOUS
    <2>b. accept \in [Listeners -> Seq(Conns)]
      BY <2>a
    <2>c. ListenerTypeOK
      BY <2>b DEF ListenerTypeOK
    <2>d. tcp \in [Keys -> Conns \cup {None}] /\ active \in Int /\ passive \in Nat /\ dispatch \in Listeners \cup {None}
      OBVIOUS
    <2>e. closed \in BOOLEAN
      OBVIOUS
    <2>1. StackTypeOK /\ ListenerTypeOK
      BY <2>c, <2>d, <2>e DEF StackTypeOK
    <2>2. ConnTypeOK
      BY <1>1 DEF ConnTypeOK
    <2>3. CallTypeOK
      BY DEF CallTypeOK, IdleWriter, IdleAccepter
    <2> QED
      BY <2>1, <2>2, <2>3 DEF TypeOK
  <1>4. Entries = {}
    BY DEF Entries
  <1>5. TableInv
    BY <1>1, <1>4, FS_EmptySet, Limits DEF TableInv, Running
  <1>6. ConnShape /\ CookieOfThisListener
    BY <1>1 DEF ConnShape, CookieOfThisListener, Alive
  <1>7. BacklogInv
    BY FS_EmptySet, Limits DEF BacklogInv
  <1>8. PendingInv /\ QueueInv
    BY <1>1, <1>2 DEF PendingInv, QueueInv, Alive
  <1>9. CloseInv
    BY <1>1, NoneFresh DEF CloseInv
  <1> QED
    BY <1>3, <1>5, <1>6, <1>7, <1>8, <1>9 DEF IndInv

\* Every step preserves the inductive invariant.
LEMMA StepPreserves == IndInv /\ [Next]_vars => IndInv'
  <1> SUFFICES ASSUME IndInv, [Next]_vars
               PROVE  IndInv'
    OBVIOUS
  <1>1. ASSUME NEW l \in Listeners, ListenerStep(l)
        PROVE  IndInv'
    BY <1>1, ListenPreserves, UnregisterPreserves, PublishPreserves, AbortNextPreserves DEF ListenerStep
  <1>2. CASE StackClose
    BY <1>2, StackClosePreserves
  <1>3. ASSUME NEW w \in Writers, WriterStep(w)
        PROVE  IndInv'
    BY <1>3, SegmentPreserves, AdmitSYNPreserves, AdmitACKPreserves DEF WriterStep
  <1>4. ASSUME NEW c \in Conns, ActorStep(c)
        PROVE  IndInv'
    BY <1>4, EnqueuePreserves, ToTimeWaitPreserves, ReplaceTimeWaitPreserves, FinishPreserves,
       RemovePendingPreserves DEF ActorStep
  <1>5. ASSUME NEW a \in Accepters, AccepterStep(a)
        PROVE  IndInv'
    BY <1>5, AcceptTakePreserves, AcceptReturnPreserves DEF AccepterStep
  <1>6. CASE UNCHANGED vars
    <2>1. UNCHANGED <<stackVars, listenerVars, conn, writer, accepter, cookies>>
      BY <1>6 DEF vars
    <2>2. TypeOK'
      BY <2>1 DEF IndInv, TypeOK, StackTypeOK, ListenerTypeOK, ConnTypeOK, CallTypeOK, stackVars, listenerVars
    <2> QED
      BY <2>1, <2>2, HoldersFrame, TableFrame DEF IndInv, stackVars, listenerVars
  <1> QED
    BY <1>1, <1>2, <1>3, <1>4, <1>5, <1>6 DEF Next

\* The inductive invariant holds in every state a listener and its stack reach.
THEOREM PassiveOpenInvariant == Spec => []IndInv
  BY InitEstablishes, StepPreserves, PTL DEF Spec

\* Admission by SYN, by cookie and by TIME-WAIT replacement keeps the connection
\* table, the activity count, the SYN backlog, pending and the accept queue in
\* agreement, and a cookie makes a connection of its own listener only.
THEOREM AdmissionsAreSound == Spec => []AdmissionSound
  <1>1. IndInv => TableSound
    BY DEF IndInv, TableInv, TableSound, Entries
  <1>2. IndInv => PendingSound
    <2> SUFFICES ASSUME IndInv, NEW l \in Listeners
                 PROVE  /\ Cardinality(handshaking[l]) <= Backlog /\ handshaking[l] \subseteq pending[l]
                        /\ \A c \in handshaking[l] : conn[c].pc \in {"opening", "removed"}
                        /\ \A c \in pending[l] :
                              /\ conn[c].place # "application" /\ (conn[c] # Dead => conn[c].listener = l)
                              /\ (conn[c].place = "queue" \/ conn[c] = Dead) => c \in Queue(l) \cup Held(l)
                        /\ lstate[l] # "closed" => Queue(l) \cup Held(l) \subseteq pending[l]
      BY DEF PendingSound
    <2>1. /\ Cardinality(handshaking[l]) <= Backlog /\ handshaking[l] \subseteq pending[l]
          /\ \A c \in handshaking[l] : conn[c].pc \in {"opening", "removed"}
      BY DEF IndInv, BacklogInv
    <2>2. ASSUME NEW c \in pending[l]
          PROVE  /\ conn[c].place # "application" /\ (conn[c] # Dead => conn[c].listener = l)
                 /\ (conn[c].place = "queue" \/ conn[c] = Dead) => c \in Queue(l) \cup Held(l)
      <3>1. /\ c \in Conns /\ Dead.place = "listener" /\ Dead.pc = "dead"
            /\ conn[c].pc = "dead" => conn[c] = Dead
            /\ conn[c].pc \in {"dead", "established"} => c \in Queue(l) \cup Held(l)
            /\ conn[c].pc = "dead" \/ (conn[c].listener = l /\ conn[c].place # "application")
        BY DEF IndInv, TypeOK, ListenerTypeOK, ConnShape, PendingInv, Dead, Unused
      <3>2. conn[c].place = "queue" => conn[c].pc = "established"
        BY <3>1 DEF IndInv, TypeOK, ConnTypeOK, ConnRecords, ConnShape, Unused, Dead
      <3> QED
        BY <3>1, <3>2
    <2>3. lstate[l] # "closed" => Queue(l) \cup Held(l) \subseteq pending[l]
      BY DEF IndInv, QueueInv
    <2> QED
      BY <2>1, <2>2, <2>3
  <1>3. IndInv => AdmissionSound
    BY <1>1, <1>2 DEF IndInv, AdmissionSound
  <1> QED
    BY <1>3, PassiveOpenInvariant, PTL

\* Closing a listener aborts every connection Accept never returned and none
\* that it did, whatever SYN, cookie ACK, enqueue or Accept is under way.
THEOREM ClosesAreExact == Spec => []CloseIsExact
  <1>1. IndInv => NothingAbandoned
    BY DEF IndInv, CloseInv, NothingAbandoned
  <1>2. IndInv => AcceptedSurviveClose
    <2> SUFFICES ASSUME IndInv, NEW c \in Conns, conn[c].place = "application"
                 PROVE  conn[c].aborted # "close" /\ \A l \in Listeners : c \notin toAbort[l]
      BY DEF AcceptedSurviveClose
    <2>1. conn[c].pc \in {"established", "timewait"} /\ conn[c].listener \in Listeners
      BY DEF IndInv, TypeOK, ConnTypeOK, ConnRecords, ConnShape, Alive, Unused, Dead
    <2> QED
      BY <2>1 DEF IndInv, CloseInv
  <1>3. IndInv => CloseIsExact
    BY <1>1, <1>2 DEF CloseIsExact
  <1> QED
    BY <1>3, PassiveOpenInvariant, PTL

=============================================================================
