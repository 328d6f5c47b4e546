---------------------------- MODULE FragmentsMC ----------------------------
(***************************************************************************)
(* The two users of FragmentSet for TLC: the public reassembler and the    *)
(* stack's fragment table.  They share the algorithm and no state, so a    *)
(* behaviour exercises one of them and leaves the other unused.            *)
(***************************************************************************)
EXTENDS PacketReassembly, FragmentTable

CONSTANT LastByte

VARIABLE user   \* "reassembler" or "table"

\* Every fragment of a small datagram space, for the reassembler.
AllRanges ==
    {r \in [offset : {o \in 0 .. LastByte : o % Unit = 0}, len : 1 .. LastByte, more : BOOLEAN] :
        Standalone(r) /\ r.offset + r.len <= LastByte}

\* The two pieces of a datagram, and for IPv4 two by which it would have three,
\* for the table.  The first IPv4 one has a partial offset unit, which is cut off;
\* IPv6 parsing refuses such a fragment.
Wire(o, l, m) == [offset : {o}, len : {l}, more : {m}, ecn : {NotECT}, v6 : BOOLEAN]
Pieces ==
    Wire(4, 1, FALSE)
      \cup {f \in Wire(0, 4, TRUE) : f.v6}
      \cup {f \in Wire(0, 5, TRUE) \cup Wire(4, 2, TRUE) \cup Wire(6, 1, FALSE) : ~f.v6}

\* Write calls are alike, and so are the datagrams of one family, which every
\* network accepts or refuses together.
Symmetry == Permutations(Writers) \cup Permutations(Keys \ V6Keys)

Init ==
    /\ TableInit
    /\ \/ user = "reassembler" /\ ReassemblyInit
       \/ user = "table" /\ Unused(Unit + 1, Unit)

\* A step of the one in use.
Reassembler == user = "reassembler" /\ UNCHANGED <<user, allTableVars>>
Table == user = "table" /\ UNCHANGED <<user, reassemblyVars>>

Next ==
    \/ \E r \in plan, e \in ECNs : Reassembler /\ Add(Sent, Fragment(r, e))
    \/ \E id \in Identities, r \in OtherRanges, e \in ECNs : Reassembler /\ Add(id, Fragment(r, e))
    \/ \E id \in Identities : Reassembler /\ AddForeign(id)
    \/ Reassembler /\ Reset
    \/ \E w \in Writers : Table /\ Receive(w)
    \/ \E w \in Writers : Table /\ Admit(w)
    \/ \E w \in Writers : Table /\ Discard(w)
    \/ \E w \in Writers, f \in Arrivals : Table /\ Reassemble(w, f)
    \/ Table /\ CleanerRuns
    \/ Table /\ CleanerTimeout
    \/ Table /\ CleanerWoken
    \/ Table /\ CleanerReturns
    \/ \E u \in Updaters : Table /\ StoreNetwork(u)
    \/ \E u \in Updaters : Table /\ Prune(u)
    \/ Table /\ BeginClose
    \/ Table /\ DropTable
    \/ Table /\ Tick

Spec == Init /\ [][Next]_<<user, reassemblyVars, allTableVars>>
=============================================================================
