------------------------- MODULE PacketReassembly -------------------------
(***************************************************************************)
(* The public reassembler IPPacketReassembly (fragment.go): one datagram   *)
(* at a time, fed by Add with the fragments of a datagram that was cut by  *)
(* the stack's own plan, in any order and any number of times, and with    *)
(* fragments that do not belong to it or contradict it.                    *)
(***************************************************************************)
EXTENDS FragmentSet

CONSTANTS
    Totals, Capacities,   \* lengths and per-packet capacities of sent datagrams
    OtherRanges,          \* further fragments that pass standalone validation
    Identities, Sent,     \* what matches compares; the sent datagram's identity
    ECNs                  \* ECN codepoints of fragments

ASSUME SentIdentity == Sent \in Identities
ASSUME OffsetsAligned == \A f \in OtherRanges : f.offset % Unit = 0

VARIABLES
    plan,      \* the ranges the sent datagram was cut into
    capacity,  \* the payload one packet carries, by which it was cut
    active,    \* r.active
    identity,  \* the datagram being reassembled
    set,       \* r.state
    packet,    \* the packet the last call returned, or NoPacket
    refused,   \* the last call invalidated the reassembly
    added,     \* history: ranges of the plan taken since the reassembly started
    pure,      \* history: every fragment of the reassembly came from the plan, with one codepoint
    late       \* history: a duplicate established the final length

reassemblyVars == <<plan, capacity, active, identity, set, packet, refused, added, pure, late>>

NoPacket == [pieces |-> {}]
Empty == Start([offset |-> 0, ecn |-> NotECT])

\* An unused reassembler, before fragments of a datagram of t bytes.
Unused(t, c) ==
    /\ plan = CursorRanges(t, c) /\ capacity = c
    /\ active = FALSE /\ identity = Sent /\ set = Empty
    /\ packet = NoPacket /\ refused = FALSE
    /\ added = {} /\ pure = TRUE /\ late = FALSE

\* A datagram that fits one packet is not cut.
ReassemblyInit ==
    \E t \in Totals, c \in Capacities : t > c /\ CursorValid(t, c) /\ Unused(t, c)

\* publicReassemblyFragment: what standalone validation lets through is a part
\* of a datagram, not a whole one (an unfragmented packet or an atomic fragment),
\* not empty and, unless final, a whole number of offset units.
Standalone(f) ==
    /\ f.offset # 0 \/ f.more
    /\ f.len > 0 /\ (f.more => f.len % Unit = 0)

\* Reset
Cleared ==
    /\ active' = FALSE /\ identity' = Sent /\ set' = Empty
    /\ added' = {} /\ late' = FALSE
Reset ==
    /\ Cleared
    /\ packet' = NoPacket /\ refused' = FALSE /\ pure' = TRUE
    /\ UNCHANGED <<plan, capacity>>

\* What Add makes of the outcome r of adding a range to the set before.
Taken(id, range, before, r) ==
    \/ /\ r.outcome = "pending"
       /\ active' = TRUE /\ identity' = id /\ set' = r.set
       /\ added' = added \cup (plan \cap {range})
       /\ late' = (late \/ (~r.added /\ before.total # r.set.total))
       /\ packet' = NoPacket /\ refused' = FALSE
    \/ /\ r.outcome = "complete"
       /\ Cleared /\ packet' = r.set /\ refused' = FALSE
    \/ /\ r.outcome = "invalid"
       /\ Cleared /\ packet' = NoPacket /\ refused' = TRUE

AddRange(id, f, range, before) ==
    /\ pure' = (range \in plan /\ id = Sent /\ (active => pure /\ set.ecn = {f.ecn}))
    /\ Taken(id, range, before, AddFragment(before, f, 0))

\* Add, with a fragment of the datagram in progress or with the first one.
Add(id, f) ==
    /\ Standalone(f)
    /\ active => id = identity
    /\ AddRange(id, f, [offset |-> f.offset, len |-> f.len, more |-> f.more],
             IF active THEN set ELSE Start(f))
    /\ UNCHANGED <<plan, capacity>>

\* Add, with a fragment of another datagram: refused without a change (matches).
AddForeign(id) ==
    /\ active /\ id # identity
    /\ packet' = NoPacket /\ refused' = FALSE
    /\ UNCHANGED <<plan, capacity, active, identity, set, added, pure, late>>

Fragment(r, e) ==
    [offset |-> r.offset, len |-> r.len, more |-> r.more, ecn |-> e, v6 |-> FALSE]

ReassemblyNext ==
    \/ \E r \in plan, e \in ECNs : Add(Sent, Fragment(r, e))
    \/ \E id \in Identities, r \in OtherRanges, e \in ECNs : Add(id, Fragment(r, e))
    \/ \E id \in Identities : AddForeign(id)
    \/ Reset

ReassemblySpec == ReassemblyInit /\ [][ReassemblyNext]_reassemblyVars
-----------------------------------------------------------------------------
\* A completed packet has every byte from zero to its final length exactly
\* once, an offset-zero fragment whose header it takes, and no mixture of
\* Not-ECT with ECN-capable fragments, although complete only adds up bytes
\* and fragments of other cuts, duplicates and late lengths came in between.
\* What is retained between two Adds is disjoint, within the limits and counted
\* exactly: the premise under which complete may compare byte counts.
ReassemblySound ==
    /\ packet # NoPacket => (SetSound(packet) /\ SetWhole(packet))
    /\ active <=> set.pieces # {}
    /\ active => SetSound(set)

\* The reassembler never sits on a complete datagram, except where a duplicate
\* established the final length, which never completes one by itself (Add).
NothingCompleteIsHeld == (active /\ SetWhole(set)) => late

\* A datagram cut by the stack's own plan reassembles in every order and with
\* every repetition of its fragments: every range fits its packet and passes
\* standalone validation, so that its successor's offset can be encoded, none is
\* refused, and the datagram is not pending once all of them have come
\* (fragmentRangeCursor against addFragment).
PlanReassembles ==
    /\ \A r \in plan : r.len <= capacity /\ r.offset % Unit = 0 /\ Standalone(r)
    /\ pure => (~refused /\ (active => ~(plan \subseteq added)))

\* The reassembler returns whole datagrams, sits on none it could return, and
\* loses none that the stack itself cut, whatever order, repetition and rival
\* fragments Add is given.
ReassemblyFaithful == ReassemblySound /\ NothingCompleteIsHeld /\ PlanReassembles
=============================================================================
