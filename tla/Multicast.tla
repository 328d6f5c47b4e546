----------------------------- MODULE Multicast -----------------------------
(***************************************************************************)
(* Multicast memberships of sockets, the interface filter they add up to,  *)
(* and the host side of IGMP or MLD that reports it: state-change reports  *)
(* repeated against loss, answers to queries, and the fallback to an older *)
(* protocol version while an older querier is heard (multicast.go).        *)
(*                                                                         *)
(* One family at a time: the code keeps the two apart by index.  Groups    *)
(* are reported, not source-specific and valid; what the validators reject *)
(* changes nothing.  Time counts down: a deadline is the number of ticks   *)
(* left, 0 when due, Never when not set, and a random delay is any number  *)
(* up to MaxDelay.  A report is a record of one group; packing several     *)
(* into one packet, and the truncation of a filter longer than a packet,   *)
(* are left out.  The router, which is not part of the stack, believes     *)
(* what the reports that reach it say.                                     *)
(***************************************************************************)
EXTENDS Naturals, Sequences, FiniteSets, FiniteSetsExt

CONSTANTS Groups, Sockets, Sources,
          Stranger,       \* any source no filter names
          Families,       \* {"IGMP"}, {"MLD"} or both
          Networks,       \* configurations: broadcast sources, any address
          QRVs,           \* robustness values queries carry, 0 for none
          MaxDelay,       \* bound of every random delay
          LegacyTicks,    \* how long an older querier is remembered
          MaxLosses,
          MaxEvents       \* calls and messages from outside, in all

DefaultRobustness == 2

ASSUME MulticastConstants ==
    /\ Stranger \notin Sources
    /\ Families \subseteq {"IGMP", "MLD"}
    /\ \A n \in Networks : n.bad \subseteq Sources /\ n.up \in BOOLEAN
    /\ QRVs \subseteq Nat
    /\ {MaxDelay, LegacyTicks} \subseteq Nat \ {0}
    /\ MaxLosses \in Nat /\ MaxLosses < DefaultRobustness
    /\ \A r \in QRVs \ {0} : MaxLosses < r
    /\ MaxEvents \in Nat

Never == 99

VARIABLES family,
          open,           \* sockets registered with the stack
          close,          \* how far Stack.Close has come
          created,        \* Stack.multicast is published
          member,         \* groups[g].members
          dispatch,       \* what the data plane reads without a lock
          proto,          \* the rest of multicastState, and its report batch
          pc, timer,      \* the report worker and its timer
          network,        \* Stack.network
          applying,       \* UpdateConfig calls past their publication
          router, losses, events

vars == <<family, open, close, created, member, dispatch, proto, pc, timer,
          network, applying, router, losses, events>>

(* close is "open", "stack" once Stack.closed is set, and "state" once the
   multicast state is closed too, as it is at once when there is none.       *)
StackClosed == close # "open"
StateClosed == close = "state"

Modes == {"include", "exclude"}
Filters == [mode : Modes, sources : SUBSET Sources]
Absent == [mode |-> "include", sources |-> {}]
Everyone == [mode |-> "exclude", sources |-> {}]
Latest == IF family = "MLD" THEN 2 ELSE 3

NoRetransmission == [on |-> FALSE, filter |-> Absent, last |-> FALSE,
                     remaining |-> 0, allow |-> [a \in Sources |-> 0],
                     block |-> [a \in Sources |-> 0], due |-> Never]
NoQuery == [due |-> Never, narrow |-> FALSE, sources |-> {}]

Init ==
    /\ family \in Families
    /\ open = Sockets /\ close = "open" /\ created = FALSE
    /\ member = [g \in Groups |-> [s \in Sockets |-> Absent]]
    /\ dispatch = [g \in Groups |-> [filter |-> Absent, members |-> member[g]]]
    /\ proto = [mode |-> Latest, until |-> [v \in 1..2 |-> Never],
                robust |-> DefaultRobustness, general |-> Never,
                query |-> [g \in Groups |-> NoQuery],
                retrans |-> [g \in Groups |-> NoRetransmission],
                last |-> [g \in Groups |-> FALSE], wake |-> FALSE,
                batch |-> [g \in Groups |-> <<>>], unsure |-> {}]
    /\ pc = "none" /\ timer = Never
    /\ network \in {n \in Networks : n.up /\ (family = "MLD" => n.bad = {})}
    /\ applying = {}
    /\ router = [g \in Groups |-> Absent]
    /\ losses = 0 /\ events = 0
-----------------------------------------------------------------------------
(* Filters. *)

Accepts(f, a) == (a \in f.sources) <=> (f.mode = "include")

(* A merge that excludes what another member includes. *)
AggregateKeepsIncluded(members) ==
    LET excluders == {s \in DOMAIN members : members[s].mode = "exclude"}
    IN  IF excluders = {}
        THEN [mode |-> "include",
              sources |-> UNION {members[s].sources : s \in DOMAIN members}]
        ELSE [mode |-> "exclude",
              sources |-> {a \in Sources : \A s \in excluders :
                                              a \in members[s].sources}]

(* The interface filter of a group's members; a socket without membership is
   one that includes nothing.                                               *)
Aggregate(members) ==
    LET included == UNION {members[s].sources :
                           s \in {t \in DOMAIN members : members[t].mode = "include"}}
        excluders == {s \in DOMAIN members : members[s].mode = "exclude"}
    IN  IF excluders = {}
        THEN [mode |-> "include", sources |-> included]
        ELSE [mode |-> "exclude",
              sources |-> {a \in Sources : \A s \in excluders :
                                              a \in members[s].sources} \ included]

Published(members) == [filter |-> Aggregate(members), members |-> members]
-----------------------------------------------------------------------------
(* Compatibility with an older querier. *)

(* A mode transition cancels every pending answer and retransmission, and
   the reports the worker has collected but not sent.                       *)
CancelPending(p) ==
    [p EXCEPT !.general = Never,
              !.query = [g \in Groups |-> NoQuery],
              !.retrans = [g \in Groups |-> NoRetransmission],
              !.batch = [g \in Groups |-> <<>>],
              !.unsure = Groups]

Compatibility(until) == Min({v \in 1..2 : until[v] # Never} \cup {Latest})

Unexpired(until) == [v \in 1..2 |-> IF until[v] = 0 THEN Never ELSE until[v]]

Refreshed(p, mode) ==
    IF mode = p.mode THEN p ELSE CancelPending([p EXCEPT !.mode = mode])

Refresh(p) ==
    Refreshed([p EXCEPT !.until = Unexpired(p.until)],
              Compatibility(Unexpired(p.until)))

(* Only a general query makes an IGMPv2 querier known. *)
NoteQueryVersion(p, q) ==
    LET qrv == IF q.qrv = 0 THEN DefaultRobustness ELSE q.qrv
    IN  Refresh([p EXCEPT
            !.robust = IF q.version = Latest THEN qrv ELSE @,
            !.until = [v \in 1..2 |->
                IF /\ v = q.version /\ v < Latest
                   /\ v = 1 \/ q.general
                THEN LegacyTicks ELSE @[v]]])
-----------------------------------------------------------------------------
(* Changes of the interface filter. *)

Counters(set, counters, n) ==
    [a \in Sources |-> IF a \in set THEN n ELSE counters[a]]

Clear(set, counters) == Counters(set, counters, 0)

(* A merge that leaves a contradicting source in the other list. *)
MergeKeepsOpposite(r, old, new, last, robust) ==
    LET now == [r EXCEPT !.on = TRUE, !.filter = new, !.last = last, !.due = 0]
        gained == {a \in Sources : Accepts(new, a) /\ ~Accepts(old, a)}
        dropped == {a \in Sources : Accepts(old, a) /\ ~Accepts(new, a)}
    IN  IF old.mode # new.mode
        THEN [now EXCEPT !.remaining = robust,
                         !.allow = NoRetransmission.allow,
                         !.block = NoRetransmission.block]
        ELSE [now EXCEPT !.allow = Counters(gained, @, robust),
                         !.block = Counters(dropped, @, robust)]

(* One transition merged into the pending retransmission of its group. *)
Merge(r, old, new, last, robust) ==
    LET now == [r EXCEPT !.on = TRUE, !.filter = new, !.last = last, !.due = 0]
        gained == {a \in Sources : Accepts(new, a) /\ ~Accepts(old, a)}
        dropped == {a \in Sources : Accepts(old, a) /\ ~Accepts(new, a)}
    IN  IF old.mode # new.mode
        THEN [now EXCEPT !.remaining = robust,
                         !.allow = NoRetransmission.allow,
                         !.block = NoRetransmission.block]
        ELSE [now EXCEPT !.allow = Clear(dropped, Counters(gained, @, robust)),
                         !.block = Clear(gained, Counters(dropped, @, robust))]

(* An older version can only express that the group is joined. *)
Report(p, g, old, new, last) ==
    IF p.mode < Latest /\ (old = Absent) = (new = Absent) THEN p
    ELSE [p EXCEPT !.retrans[g] = Merge(@, old, new, last, p.robust),
                   !.wake = TRUE]

(* A group without members loses its state, the last reporter included. *)
InterfaceStateChanged(p, g, old, new) ==
    LET kept == IF new # Absent THEN p
                ELSE [p EXCEPT !.last[g] = FALSE, !.query[g] = NoQuery]
    IN  IF old = new THEN kept
        ELSE Report(Refresh(kept), g, old, new, p.last[g])

(* The members of one group become m. *)
Replace(g, m) ==
    /\ member' = [member EXCEPT ![g] = m]
    /\ dispatch' = [dispatch EXCEPT ![g] = Published(m)]
    /\ proto' = InterfaceStateChanged(proto, g, Aggregate(member[g]), Aggregate(m))

(* The first membership promotes the queriers heard so far, and starts the
   worker.                                                                  *)
Promote ==
    /\ created' = TRUE
    /\ pc' = IF created THEN pc ELSE "run"

Registered(s) == ~StackClosed /\ s \in open

(* JoinGroup, LeaveGroup and the source-specific calls, as the filter each
   makes of the socket's present one; refused where not listed.             *)
Outcomes(f) ==
    {IF f = Absent THEN Everyone ELSE Absent}
      \cup {[f EXCEPT !.sources = @ \cup {a}] : a \in Sources \ (f.sources \cup network.bad)}
      \cup {[f EXCEPT !.sources = @ \ {a}] : a \in f.sources \ network.bad}

ChangeMembership ==
    /\ events < MaxEvents /\ events' = events + 1
    /\ \E s \in Sockets, g \in Groups :
         /\ Registered(s)
         /\ \E f \in Outcomes(member[g][s]) :
              Replace(g, [member[g] EXCEPT ![s] = f])
    /\ Promote
    /\ UNCHANGED <<family, open, close, timer, network, applying, router,
                   losses>>

(* A whole filter may replace only an existing membership. *)
SetSourceFilter ==
    /\ created /\ events < MaxEvents /\ events' = events + 1
    /\ \E s \in Sockets, g \in Groups, f \in Filters :
         /\ Registered(s) /\ member[g][s] # Absent
         /\ f.sources \cap network.bad = {}
         /\ Replace(g, [member[g] EXCEPT ![s] = f])
    /\ UNCHANGED <<family, open, close, created, pc, timer, network, applying,
                   router, losses>>

(* Every group loses what the members' filters name in `gone`, or a socket. *)
ReplaceAll(m) ==
    LET Step(p, g) == InterfaceStateChanged(p, g, Aggregate(member[g]), Aggregate(m[g]))
    IN  FoldSet(LAMBDA g, p : Step(p, g), proto, Groups)

(* Close of a socket: its memberships go while Stack.mu is held. *)
RemoveEndpoint ==
    /\ ~StackClosed /\ events < MaxEvents /\ events' = events + 1
    /\ \E s \in open :
         LET m == [g \in Groups |-> [member[g] EXCEPT ![s] = Absent]]
         IN  /\ open' = open \ {s}
             /\ member' = m
             /\ dispatch' = [g \in Groups |-> Published(m[g])]
             /\ proto' = ReplaceAll(m)
    /\ UNCHANGED <<family, close, created, pc, timer, network, applying,
                   router, losses>>
-----------------------------------------------------------------------------
(* Queries and other hosts' reports. *)

(* The well-formed queries: sources only in the latest version and for one
   group, and no IGMPv1 query names a group.                                *)
Queries ==
    {q \in [version : 1..Latest, general : BOOLEAN, group : Groups,
            sources : SUBSET (Sources \ network.bad), qrv : QRVs \cup {0}] :
        /\ q.version < Latest => q.sources = {} /\ q.qrv = 0
        /\ q.version = Latest => q.qrv \in QRVs
        /\ q.general => q.sources = {}
        /\ q.version = 1 /\ family = "IGMP" => q.general}

Sooner(d, due) == IF d < due THEN d ELSE due

(* A general query for an older version arms each group by itself. *)
ScheduleGeneral(p, d) ==
    LET joined == {g \in Groups : Aggregate(member[g]) # Absent}
    IN  IF p.mode < Latest
        THEN [p EXCEPT !.wake = TRUE, !.query = [g \in Groups |->
                 IF g \in joined /\ d[g] < @[g].due
                 THEN [NoQuery EXCEPT !.due = d[g]] ELSE @[g]]]
        ELSE [p EXCEPT !.wake = TRUE, !.general =
                 IF joined = {} THEN @ ELSE Sooner(Min({d[g] : g \in Groups}), @)]

(* A query noted without waking the worker. *)
ScheduleGroupSilently(p, g, sources, d) ==
    LET owed == p.query[g]
        narrow == sources # {} /\ (owed.due = Never \/ owed.narrow)
    IN  IF Aggregate(member[g]) = Absent \/ (p.general # Never /\ d[g] >= p.general)
        THEN p
        ELSE [p EXCEPT !.query[g] = [due |-> Sooner(d[g], owed.due),
                                     narrow |-> narrow,
                                     sources |-> IF narrow THEN owed.sources \cup sources
                                                           ELSE {}]]

(* A question for one group is covered by an earlier general answer, and is
   merged with one the group still owes.                                    *)
ScheduleGroup(p, g, sources, d) ==
    LET owed == p.query[g]
        narrow == sources # {} /\ (owed.due = Never \/ owed.narrow)
    IN  IF Aggregate(member[g]) = Absent \/ (p.general # Never /\ d[g] >= p.general)
        THEN p
        ELSE [p EXCEPT !.wake = TRUE,
                       !.query[g] = [due |-> Sooner(d[g], owed.due),
                                     narrow |-> narrow,
                                     sources |-> IF narrow THEN owed.sources \cup sources
                                                           ELSE {}]]

(* While an older querier is heard, a query of the latest version is taken
   as one of the older version and does not renew anything.                 *)
Schedule(p, q, d) ==
    LET plain == IF p.mode < Latest THEN {} ELSE q.sources
        wide == q.general \/ (family = "IGMP" /\ p.mode = 1 /\ q.version = Latest)
    IN  IF wide THEN ScheduleGeneral(p, d)
        ELSE ScheduleGroup(p, q.group, plain, d)

Noted(p, q) ==
    IF q.version = Latest /\ p.mode < Latest THEN p ELSE NoteQueryVersion(p, q)

Delays == [Groups -> 1..MaxDelay]

(* A query; before the first membership only the querier is noted, under
   Stack.mu.  A Write call that had the state before Stack.Close took it away
   may still come here.                                                     *)
ScheduleQuery ==
    /\ IF created THEN ~StateClosed ELSE ~StackClosed
    /\ network.up
    /\ events < MaxEvents /\ events' = events + 1
    /\ \E q \in Queries :
         IF created
         THEN \E d \in Delays : proto' = Schedule(Noted(Refresh(proto), q), q, d)
         ELSE proto' = Noted(Refresh(proto), q)
    /\ UNCHANGED <<family, open, close, created, member, dispatch, pc, timer,
                   network, applying, router, losses>>

Suppressed(p, g) ==
    IF p.mode = Latest THEN p
    ELSE IF Aggregate(member[g]) = Absent THEN [p EXCEPT !.wake = TRUE]
    ELSE [p EXCEPT !.wake = TRUE, !.query[g] = NoQuery, !.last[g] = FALSE,
                   !.retrans[g] = IF @.on /\ @.filter # Absent
                                  THEN NoRetransmission ELSE @]

(* Another host's older report, which the router hears as well. *)
HeardLegacyReport ==
    /\ created /\ ~StateClosed /\ network.up
    /\ events < MaxEvents /\ events' = events + 1
    /\ \E g \in Groups :
         /\ proto' = Suppressed(Refresh(proto), g)
         /\ router' = IF proto'.mode = Latest THEN router
                      ELSE [router EXCEPT ![g] = Everyone]
    /\ UNCHANGED <<family, open, close, created, member, dispatch, pc, timer,
                   network, applying, losses>>
-----------------------------------------------------------------------------
(* The worker: collect what is due under the lock, send it without. *)

Rec(kind, sources) == [kind |-> kind, sources |-> sources]

Named(counters) == {a \in Sources : counters[a] > 0}

Fewer(counters) == [a \in Sources |-> IF counters[a] > 0 THEN counters[a] - 1 ELSE 0]

Lists(r) == Named(r.allow) # {} \/ Named(r.block) # {}

(* One state-change report of a group. *)
ChangeRecords(r) ==
    IF r.remaining > 0
    THEN <<Rec(IF r.filter.mode = "exclude" THEN "TO_EX" ELSE "TO_IN", r.filter.sources)>>
    ELSE (IF Named(r.allow) = {} THEN <<>> ELSE <<Rec("ALLOW", Named(r.allow))>>)
           \o (IF Named(r.block) = {} THEN <<>> ELSE <<Rec("BLOCK", Named(r.block))>>)

(* Reports of an older version; a leave only from the last reporter. *)
LegacyRecords(r, mode) ==
    IF r.filter # Absent THEN <<Rec("report", {})>>
    ELSE IF r.last /\ (family = "MLD" \/ mode = 2) THEN <<Rec("leave", {})>> ELSE <<>>

AdvanceRetransmission(r) ==
    IF r.remaining > 0 THEN [r EXCEPT !.remaining = @ - 1]
    ELSE [r EXCEPT !.allow = Fewer(@), !.block = Fewer(@)]

(* Forgets that the last copy was the last. *)
RemainsAlways(r, mode) == mode < Latest => r.filter # Absent

Remains(r, mode) ==
    /\ r.remaining > 0 \/ Lists(r)
    /\ mode < Latest => r.filter # Absent

Rescheduled(r, mode, d) ==
    IF Remains(r, mode) THEN [r EXCEPT !.due = d] ELSE NoRetransmission

Due(r) == r.on /\ r.due = 0

CollectRetransmissions(p, d) ==
    [p EXCEPT
        !.batch = [g \in Groups |->
            IF ~Due(p.retrans[g]) THEN @[g]
            ELSE @[g] \o IF p.mode < Latest THEN LegacyRecords(p.retrans[g], p.mode)
                         ELSE ChangeRecords(p.retrans[g])],
        !.last = [g \in Groups |->
            @[g] \/ (Due(p.retrans[g]) /\ p.mode < Latest /\ p.retrans[g].filter # Absent)],
        !.retrans = [g \in Groups |->
            IF Due(@[g]) THEN Rescheduled(AdvanceRetransmission(@[g]), p.mode, d[g])
            ELSE @[g]]]

CurrentState(f) == Rec(IF f.mode = "exclude" THEN "IS_EX" ELSE "IS_IN", f.sources)

(* A general answer speaks for every group; narrow questions still owed now
   ask for the whole group.                                                 *)
CollectGeneral(p) ==
    LET joined == {g \in Groups : Aggregate(member[g]) # Absent}
    IN  IF p.general # 0 THEN p
        ELSE [p EXCEPT
                !.general = Never,
                !.batch = [g \in Groups |->
                    IF g \notin joined THEN @[g]
                    ELSE Append(@[g], IF p.mode < Latest THEN Rec("report", {})
                                      ELSE CurrentState(Aggregate(member[g])))],
                !.last = [g \in Groups |-> @[g] \/ (g \in joined /\ p.mode < Latest)],
                !.query = [g \in Groups |->
                    IF g \in joined THEN [NoQuery EXCEPT !.due = p.query[g].due] ELSE @[g]]]

Answer(q, f, mode) ==
    IF mode < Latest THEN <<Rec("report", {})>>
    ELSE IF ~q.narrow THEN <<CurrentState(f)>>
    ELSE LET wanted == {a \in q.sources : Accepts(f, a)}
         IN  IF wanted = {} THEN <<>> ELSE <<Rec("IS_IN of query", wanted)>>

CollectQueries(p) ==
    [p EXCEPT
        !.batch = [g \in Groups |->
            IF p.query[g].due = 0
            THEN @[g] \o Answer(p.query[g], Aggregate(member[g]), p.mode) ELSE @[g]],
        !.last = [g \in Groups |-> @[g] \/ (p.query[g].due = 0 /\ p.mode < Latest)],
        !.query = [g \in Groups |-> IF @[g].due = 0 THEN NoQuery ELSE @[g]]]

Deadlines(p) == {p.general} \cup {p.query[g].due : g \in Groups}
                  \cup {p.retrans[g].due : g \in Groups}

CollectReports ==
    /\ pc = "run" /\ pc' = "send"
    /\ IF StateClosed THEN proto' = proto /\ timer' = Never
       ELSE \E d \in Delays :
              /\ proto' = CollectQueries(CollectGeneral(
                              CollectRetransmissions(Refresh(proto), d)))
              /\ timer' = Min(Deadlines(proto')
                                \cup {proto'.until[v] : v \in 1..2})
    /\ UNCHANGED <<family, open, close, created, member, dispatch, network,
                   applying, router, losses, events>>

(* What a record does to the router's belief. *)
Believes(f, r) ==
    CASE r.kind \in {"TO_IN", "IS_IN"} -> [mode |-> "include", sources |-> r.sources]
      [] r.kind \in {"TO_EX", "IS_EX"} -> [mode |-> "exclude", sources |-> r.sources]
      [] r.kind = "ALLOW" -> [f EXCEPT !.sources = IF f.mode = "include" THEN @ \cup r.sources
                                                   ELSE @ \ r.sources]
      [] r.kind = "BLOCK" -> [f EXCEPT !.sources = IF f.mode = "include" THEN @ \ r.sources
                                                   ELSE @ \cup r.sources]
      [] r.kind = "report" -> Everyone
      [] r.kind = "leave" -> Absent
      [] OTHER -> f

Whole(r) == r.kind \notin {"ALLOW", "BLOCK", "IS_IN of query"}

(* One collected record leaves, is lost on the link or at a full queue, or
   has no address or, once Stack.Close has begun, no queue to leave by.      *)
SendReport ==
    /\ pc = "send"
    /\ \E g \in Groups :
         /\ proto.batch[g] # <<>>
         /\ LET r == Head(proto.batch[g])
                sent == [proto EXCEPT !.batch[g] = Tail(@)]
            IN  \/ /\ network.up
                   /\ router' = [router EXCEPT ![g] = Believes(@, r)]
                   /\ proto' = [sent EXCEPT !.unsure = IF Whole(r) THEN @ \ {g} ELSE @]
                   /\ losses' = losses
                \/ /\ network.up /\ losses < MaxLosses /\ losses' = losses + 1
                   /\ proto' = sent /\ router' = router
                \/ /\ ~network.up \/ StackClosed
                   /\ proto' = [sent EXCEPT !.unsure = @ \cup {g}]
                   /\ UNCHANGED <<router, losses>>
    /\ UNCHANGED <<family, open, close, created, member, dispatch, pc, timer,
                   network, applying, events>>

Sleep ==
    /\ pc = "send" /\ \A g \in Groups : proto.batch[g] = <<>>
    /\ pc' = "sleep"
    /\ UNCHANGED <<family, open, close, created, member, dispatch, proto, timer,
                   network, applying, router, losses, events>>

WakeUp ==
    /\ pc = "sleep"
    /\ \/ timer = 0 /\ pc' = "run" /\ proto' = proto
       \/ proto.wake /\ pc' = "run" /\ proto' = [proto EXCEPT !.wake = FALSE]
       \/ StackClosed /\ pc' = "exit" /\ proto' = proto
    /\ timer' = Never
    /\ UNCHANGED <<family, open, close, created, member, dispatch, network,
                   applying, router, losses, events>>
-----------------------------------------------------------------------------
(* Configuration, time and the end. *)

(* UpdateConfig publishes the network under Stack.mu; what it does to the
   memberships comes later, and two calls may get there in either order.    *)
PublishConfig ==
    /\ ~StackClosed /\ events < MaxEvents /\ events' = events + 1
    /\ \E n \in Networks \ {network} :
         /\ family = "MLD" => n.bad = {}
         /\ network' = n
         /\ applying' = IF created THEN applying \cup {[net |-> n, call |-> events]}
                        ELSE applying
    /\ UNCHANGED <<family, open, close, created, member, dispatch, proto, pc,
                   timer, router, losses>>

(* Sources that became broadcast addresses leave every filter, and the whole
   state is reported again.                                                 *)
WithoutSources(bad) ==
    [g \in Groups |-> [s \in Sockets |-> [member[g][s] EXCEPT !.sources = @ \ bad]]]

Announce(p, m, up) ==
    [p EXCEPT !.wake = TRUE,
              !.general = IF up /\ \E g \in Groups : Aggregate(m[g]) # Absent
                          THEN 0 ELSE @]

ApplyConfig ==
    /\ \E u \in applying :
         LET m == WithoutSources(u.net.bad)
         IN  /\ applying' = applying \ {u}
             /\ IF StateClosed THEN UNCHANGED <<member, dispatch, proto>>
                ELSE /\ member' = m
                     /\ dispatch' = [g \in Groups |-> Published(m[g])]
                     /\ proto' = Announce(ReplaceAll(m), m, u.net.up)
    /\ UNCHANGED <<family, open, close, created, pc, timer, network, router,
                   losses, events>>

(* Stack.Close takes the state away under Stack.mu and closes it later.  Between
   the two it closes done; only the worker can tell when, and it may take that
   for its end as soon as the stack is closed.                              *)
StackClose ==
    /\ ~StackClosed /\ events < MaxEvents /\ events' = events + 1
    /\ close' = IF created THEN "stack" ELSE "state"
    /\ UNCHANGED <<family, open, created, member, dispatch, proto, pc, timer, network,
                   applying, router, losses>>

CloseState ==
    /\ close = "stack" /\ close' = "state" /\ open' = {}
    /\ member' = [g \in Groups |-> [s \in Sockets |-> Absent]]
    /\ dispatch' = [g \in Groups |-> Published(member'[g])]
    /\ proto' = CancelPending(proto)
    /\ UNCHANGED <<family, created, pc, timer, network, applying, router, losses,
                   events>>

Later(d) == IF d \in {0, Never} THEN d ELSE d - 1

(* Time still to pass until something is due. *)
Counting ==
    /\ ~StateClosed
    /\ \E d \in {timer} \cup Deadlines(proto) \cup {proto.until[v] : v \in 1..2} :
         d \notin {0, Never}

Tick ==
    /\ Counting
    /\ timer' = Later(timer)
    /\ proto' = [proto EXCEPT
           !.general = Later(@),
           !.until = [v \in 1..2 |-> Later(@[v])],
           !.query = [g \in Groups |-> [@[g] EXCEPT !.due = Later(@)]],
           !.retrans = [g \in Groups |-> [@[g] EXCEPT !.due = Later(@)]]]
    /\ UNCHANGED <<family, open, close, created, member, dispatch, pc, network,
                   applying, router, losses, events>>

Next == \/ ChangeMembership \/ SetSourceFilter \/ RemoveEndpoint
        \/ ScheduleQuery \/ HeardLegacyReport
        \/ CollectReports \/ SendReport \/ Sleep \/ WakeUp
        \/ PublishConfig \/ ApplyConfig \/ StackClose \/ CloseState \/ Tick

(* The worker is a goroutine that runs whenever it can, and time passes. *)
Worker == CollectReports \/ SendReport \/ Sleep \/ WakeUp

Fairness == WF_vars(Worker) /\ WF_vars(Tick)

Spec == Init /\ [][Next]_vars /\ Fairness
-----------------------------------------------------------------------------
(* Properties. *)

(* What the data plane reads lets a source through exactly when some socket
   wants it, a closed socket holds no membership, and once every UpdateConfig
   has run to its end no filter names an address that is now a broadcast
   address: aggregateMulticastFilter, removeEndpoint, removeInvalidSources.   *)
MembershipsSound ==
    /\ \A g \in Groups : \A a \in Sources \cup {Stranger} :
         Accepts(dispatch[g].filter, a) <=> \E s \in open : Accepts(member[g][s], a)
    /\ \A g \in Groups : dispatch[g].members = member[g]
    /\ \A g \in Groups, s \in Sockets \ open : member[g][s] = Absent
    /\ applying = {} =>
         \A g \in Groups, s \in Sockets : member[g][s].sources \cap network.bad = {}

Settled(g) ==
    /\ ~StackClosed /\ created /\ ~proto.retrans[g].on /\ proto.batch[g] = <<>>
    /\ \A v \in 1..2 : proto.until[v] # 0

(* When a group has nothing left to report, the router knows the interface
   filter, though a report may have been lost and reports were merged with
   later changes while they waited; in an older version it knows at least
   that the group is joined.  A group is unsure after a mode change cancelled
   its reports or none could leave, until its state is reported in whole.     *)
RouterLearns ==
    \A g \in Groups \ proto.unsure : Settled(g) =>
        IF proto.mode = Latest THEN router[g] = Aggregate(member[g])
        ELSE Aggregate(member[g]) # Absent => router[g] # Absent

(* A sleeping worker has been woken, or its timer is set no later than any
   report or answer that is pending: no membership change and no query slips
   between its last look and its sleep.                                       *)
ReportScheduled ==
    pc = "sleep" /\ ~StackClosed =>
        proto.wake \/ \A d \in Deadlines(proto) : timer <= d

(* Once applications, queriers and configurations fall silent, the worker
   answers and repeats what it owes, and then sleeps with nothing pending.    *)
AnswersLeave ==
    <>[](\/ pc \in {"none", "exit"}
         \/ pc = "sleep" /\ Deadlines(proto) = {Never})
=============================================================================
