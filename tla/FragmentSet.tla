---------------------------- MODULE FragmentSet ----------------------------
(***************************************************************************)
(* The fragments of one IP datagram (fragment.go): the plan a sender cuts  *)
(* a datagram by, and the single-datagram state machine of                 *)
(* ipPacketReassemblyState that the public reassembler and the stack's     *)
(* bounded table share.                                                    *)
(*                                                                         *)
(* A fragment is a byte range with its flags; payload bytes are known by   *)
(* their offset.  The offset-zero packet is retained whole, so it counts   *)
(* Header bytes beside its payload.                                        *)
(***************************************************************************)
EXTENDS Integers, FiniteSets, FiniteSetsExt

CONSTANTS
    Unit,           \* fragment offsets are multiples of it (8 in the code)
    FirstMaximum,   \* fragment.maximum of an offset-zero fragment
    OtherMaximum,   \* the limit before the offset-zero fragment is known
    Header          \* bytes of the offset-zero packet before its payload

ASSUME UnitPositive == Unit \in Nat \ {0} /\ Header \in Nat \ {0}
ASSUME Maxima == FirstMaximum \in Nat /\ OtherMaximum \in Nat /\ FirstMaximum <= OtherMaximum

NoTotal == -1
NotECT == 0
End(p) == p.offset + p.len
Interval(a, b) == a .. (b - 1)
\* n rounded down to a multiple of the offset unit
Aligned(n) == n - (n % Unit)

(* Sending. *)

\* Range k exists when the bytes before it left more than one packet holds.
CursorStops(total, capacity, k) ==
    k = 0 \/ total - (k - 1) * Aligned(capacity) > capacity

\* fragmentRangeCursor: every range but the last is an aligned capacity long;
\* the last one may use the complete capacity.
CursorRanges(total, capacity) ==
    LET aligned == Aligned(capacity)
        starts == {k * aligned : k \in {i \in 0 .. total : CursorStops(total, capacity, i)}}
        next(o) == IF o + aligned \in starts THEN o + aligned ELSE total
    IN  {[offset |-> o, len |-> next(o) - o, more |-> next(o) < total] : o \in starts}

\* newFragmentRangeCursor's validation
CursorValid(total, capacity) == total > 0 /\ Aligned(capacity) >= Unit
-----------------------------------------------------------------------------
(* Receiving. *)

\* start
Start(f) ==
    [pieces |-> {}, total |-> NoTotal, bytes |-> 0, ecn |-> {f.ecn}, first |-> FALSE,
     maximum |-> IF f.offset = 0 THEN FirstMaximum ELSE OtherMaximum]

\* A non-final IPv4 fragment loses its partial offset unit.
Trimmed(f) ==
    IF ~f.v6 /\ f.more THEN [f EXCEPT !.len = Aligned(@)] ELSE f

\* fragmentRangeState
RangeOverlaps(pieces, f) ==
    \E p \in pieces : p.offset < End(f) /\ End(p) > f.offset
RangeCovered(pieces, f) ==
    \A i \in Interval(f.offset, End(f)) : \E p \in pieces : i \in Interval(p.offset, End(p))

\* complete: the retained bytes, less the offset-zero packet's own header,
\* add up to the final length.
Complete(s) ==
    s.total # NoTotal /\ s.bytes - (IF s.first THEN Header ELSE 0) = s.total

\* Mutant: the final length is not compared with the tail already retained.
FinalFitsLate(s, f) == TRUE

\* A final fragment ends no retained piece early and agrees with an earlier one.
FinalFits(s, f) ==
    /\ s.total # NoTotal => s.total = End(f)
    /\ \A p \in s.pieces : End(p) <= End(f)

\* What addFragment checks before it looks for a duplicate.
RangeFits(s, f) ==
    /\ f.len > 0 /\ End(f) <= s.maximum /\ s.total <= s.maximum
    /\ s.total # NoTotal => End(f) <= s.total
    /\ RangeOverlaps(s.pieces, f) => RangeCovered(s.pieces, f)
    /\ ~f.more => FinalFits(s, f)

\* The offset-zero fragment's header lowers the limit for everything retained.
FirstFits(s, f, total) ==
    f.offset = 0 => /\ total <= FirstMaximum
                    /\ \A p \in s.pieces : End(p) <= FirstMaximum

\* What it checks of a range that is not a duplicate.
NewFits(s, f, total, limit) ==
    /\ FirstFits(s, f, total)
    /\ limit > 0 => Cardinality(s.pieces) < limit
    /\ NotECT \in s.ecn \cup {f.ecn} => s.ecn \cup {f.ecn} = {NotECT}

Grown(s, f, total) ==
    [pieces |-> s.pieces \cup {[offset |-> f.offset, len |-> f.len]},
     total |-> total,
     bytes |-> s.bytes + f.len + (IF f.offset = 0 THEN Header ELSE 0),
     ecn |-> s.ecn \cup {f.ecn},
     first |-> s.first \/ f.offset = 0,
     maximum |-> IF f.offset = 0 THEN FirstMaximum ELSE s.maximum]

Outcome(outcome, added, set) == [outcome |-> outcome, added |-> added, set |-> set]
Retained(set) == Outcome(IF Complete(set) THEN "complete" ELSE "pending", TRUE, set)

AddTrimmed(s, f, total, limit) ==
    IF ~RangeFits(s, f) THEN Outcome("invalid", FALSE, s)
    ELSE IF RangeOverlaps(s.pieces, f) THEN Outcome("pending", FALSE, [s EXCEPT !.total = total])
    ELSE IF NewFits(s, f, total, limit) THEN Retained(Grown(s, f, total))
    ELSE Outcome("invalid", FALSE, s)

\* addFragment: the set afterwards, whether it is invalid, pending or complete,
\* and whether a new range was retained.  limit is zero for no piece limit.
AddFragment(s, fragment, limit) ==
    LET f == Trimmed(fragment) IN AddTrimmed(s, f, IF f.more THEN s.total ELSE End(f), limit)
-----------------------------------------------------------------------------
(* What a retained set must be, for the modules that hold one. *)

CoveredBytes(s) == UNION {Interval(p.offset, End(p)) : p \in s.pieces}

\* Disjoint pieces within the limits, the bytes counted as they were retained.
SetSound(s) ==
    /\ \A p, q \in s.pieces : p # q => End(p) <= q.offset \/ End(q) <= p.offset
    /\ \A p \in s.pieces : p.len > 0 /\ End(p) <= s.maximum
    /\ s.total # NoTotal => \A p \in s.pieces : End(p) <= s.total
    /\ s.first <=> \E p \in s.pieces : p.offset = 0
    /\ s.bytes = Cardinality(CoveredBytes(s)) + (IF s.first THEN Header ELSE 0)
    /\ NotECT \in s.ecn => s.ecn = {NotECT}

\* Every byte up to the final length is there.
SetWhole(s) == s.total # NoTotal /\ CoveredBytes(s) = Interval(0, s.total)
=============================================================================
