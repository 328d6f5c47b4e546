------------------------- MODULE TCPReceiveProofs -------------------------
(***************************************************************************)
(* Machine-checked proofs about TCPReceive, for every stream, window scale *)
(* and capacity, and every initial sequence number, as long as stream and  *)
(* window fit half of the sequence space: what is delivered is the peer's  *)
(* stream, what the actor holds and promises has room, and the promised    *)
(* edge never retreats.                                                    *)
(***************************************************************************)
EXTENDS TCPReceive, FiniteSetTheorems, SequenceTheorems, WellFoundedInduction, TLAPS

(* Wire arithmetic.  A sequence number is reasoned about by its position in *)
(* the peer's stream; every position that occurs is below half of the      *)
(* sequence space.                                                         *)

Half == SeqMod \div 2

\* One reduction modulo the size of the sequence space.
LEMMA ModOnce ==
    ASSUME NEW x \in Int
    PROVE  /\ x \in 0 .. (SeqMod - 1) => x % SeqMod = x
           /\ x \in SeqMod .. (2 * SeqMod - 1) => x % SeqMod = x - SeqMod
           /\ x \in (0 - SeqMod) .. (0 - 1) => x % SeqMod = x + SeqMod
  BY SequenceSpace

LEMMA HalfType == /\ Half \in Nat /\ SeqMod = 2 * Half /\ SeqMod \in Nat /\ SeqMod > 0
                  /\ MaxWindow \in Nat /\ StreamLen + 2 + MaxWindow + Quantum < Half
  <1>1. MaxWireWindow * Quantum \in Nat
    BY Capacities, WindowFits
  <1>2. MaxWindow \in Nat
    BY <1>1, Capacities DEF MaxWindow, MinOf
  <1> QED
    BY <1>2, SequenceSpace, Stream, WindowFits DEF Half

\* The stream lies well below half of the sequence space.
LEMMA StreamBelowHalf == /\ StreamLen \in Nat /\ Half \in Nat /\ SeqMod \in Nat
                         /\ StreamLen + 2 < Half /\ Half < SeqMod
  BY HalfType, Stream, WindowFits

LEMMA SeqSubIs ==
    ASSUME NEW a \in SeqNums, NEW b \in SeqNums
    PROVE  /\ a >= b => SeqSub(a, b) = a - b
           /\ a < b => SeqSub(a, b) = a - b + SeqMod
  <1>1. a - b \in Int /\ SeqMod \in Nat
    BY SequenceSpace DEF SeqNums
  <1>2. CASE a >= b
    <2>1. a - b \in 0 .. (SeqMod - 1)
      BY <1>2, SequenceSpace DEF SeqNums
    <2> QED
      BY <1>1, <1>2, <2>1, ModOnce DEF SeqSub, SeqNums
  <1>3. CASE a < b
    <2>1. a - b \in (0 - SeqMod) .. (0 - 1)
      BY <1>3, SequenceSpace DEF SeqNums
    <2> QED
      BY <1>1, <1>3, <2>1, ModOnce DEF SeqSub, SeqNums
  <1> QED
    BY <1>2, <1>3 DEF SeqNums

LEMMA PosIs ==
    ASSUME NEW a \in SeqNums
    PROVE  /\ a >= ISN => Position(a) = a - ISN
           /\ a < ISN => Position(a) = a - ISN + SeqMod
           /\ Position(a) \in 0 .. (SeqMod - 1)
           /\ Position(a) \in Nat
           /\ Position(a) < SeqMod
  <1>1. ISN \in SeqNums
    BY SequenceSpace DEF SeqNums
  <1>2. /\ a >= ISN => Position(a) = a - ISN
        /\ a < ISN => Position(a) = a - ISN + SeqMod
    BY <1>1, SeqSubIs DEF Position
  <1> QED
    BY <1>1, <1>2, SequenceSpace DEF SeqNums

LEMMA PosISN == ISN \in SeqNums /\ Position(ISN) = 0
  <1>1. ISN \in SeqNums
    BY SequenceSpace DEF SeqNums
  <1> QED
    BY <1>1, PosIs, SequenceSpace DEF SeqNums

\* Different sequence numbers have different positions.
LEMMA PosInjective ==
    ASSUME NEW a \in SeqNums, NEW b \in SeqNums, Position(a) = Position(b)
    PROVE  a = b
  BY PosIs, SequenceSpace DEF SeqNums

\* A wire difference is the difference of the positions.
LEMMA PosSub ==
    ASSUME NEW a \in SeqNums, NEW b \in SeqNums
    PROVE  /\ Position(a) >= Position(b) => SeqSub(a, b) = Position(a) - Position(b)
           /\ Position(a) < Position(b) => SeqSub(a, b) = Position(a) - Position(b) + SeqMod
           /\ SeqSub(a, b) \in 0 .. (SeqMod - 1)
           /\ SeqSub(a, b) \in Nat
  <1>1. /\ a >= b => SeqSub(a, b) = a - b
        /\ a < b => SeqSub(a, b) = a - b + SeqMod
    BY SeqSubIs
  <1>2. a \in Nat /\ b \in Nat /\ a < SeqMod /\ b < SeqMod /\ SeqMod \in Nat
        /\ ISN \in Nat /\ ISN < SeqMod
    BY SequenceSpace DEF SeqNums
  <1>3. /\ a >= ISN => Position(a) = a - ISN
        /\ a < ISN => Position(a) = a - ISN + SeqMod
        /\ b >= ISN => Position(b) = b - ISN
        /\ b < ISN => Position(b) = b - ISN + SeqMod
    BY PosIs
  <1>4. /\ Position(a) >= Position(b) => SeqSub(a, b) = Position(a) - Position(b)
        /\ Position(a) < Position(b) => SeqSub(a, b) = Position(a) - Position(b) + SeqMod
    <2>1. CASE a >= ISN /\ b >= ISN
      BY <1>1, <1>2, <1>3, <2>1
    <2>2. CASE a >= ISN /\ b < ISN
      BY <1>1, <1>2, <1>3, <2>2
    <2>3. CASE a < ISN /\ b >= ISN
      BY <1>1, <1>2, <1>3, <2>3
    <2>4. CASE a < ISN /\ b < ISN
      BY <1>1, <1>2, <1>3, <2>4
    <2> QED
      BY <1>2, <2>1, <2>2, <2>3, <2>4
  <1> QED
    BY <1>1, <1>2, <1>4

\* Adding moves the position.
LEMMA PosAdd ==
    ASSUME NEW a \in SeqNums, NEW n \in Nat, Position(a) + n < SeqMod
    PROVE  SeqAdd(a, n) \in SeqNums /\ Position(SeqAdd(a, n)) = Position(a) + n
  <1>1. a + n \in Int /\ a \in Nat /\ ISN \in 0 .. (SeqMod - 1) /\ SeqMod \in Nat
        /\ a < SeqMod
    BY SequenceSpace DEF SeqNums
  <1>2. n < SeqMod
    BY PosIs, <1>1
  <1>3. CASE a + n < SeqMod
    <2>1. SeqAdd(a, n) = a + n /\ a + n \in SeqNums
      BY <1>1, <1>3, ModOnce DEF SeqAdd, SeqNums
    <2> QED
      BY <1>1, <1>3, <2>1, PosIs
  <1>4. CASE a + n >= SeqMod
    <2>1. SeqAdd(a, n) = a + n - SeqMod
      <3>1. a + n \in SeqMod .. (2 * SeqMod - 1)
        BY <1>1, <1>2, <1>4
      <3> QED
        BY <1>1, <3>1, ModOnce DEF SeqAdd
    <2>2. a + n - SeqMod \in SeqNums
      BY <1>1, <1>2, <1>4 DEF SeqNums
    <2> QED
      BY <1>1, <1>2, <1>4, <2>1, <2>2, PosIs
  <1> QED
    BY <1>1, <1>3, <1>4

\* Near the start of the stream the signed comparison is that of positions.
LEMMA PosLess ==
    ASSUME NEW a \in SeqNums, NEW b \in SeqNums, Position(a) < Half, Position(b) < Half
    PROVE  /\ SeqLess(a, b) <=> Position(a) < Position(b)
           /\ SeqGreater(b, a) <=> Position(a) < Position(b)
  <1>1. /\ Position(a) >= Position(b) => SeqSub(a, b) = Position(a) - Position(b)
        /\ Position(a) < Position(b) => SeqSub(a, b) = Position(a) - Position(b) + SeqMod
    BY PosSub
  <1>2. Position(a) \in Nat /\ Position(b) \in Nat
    BY PosIs
  <1>3. SeqLess(a, b) <=> SeqSub(a, b) >= Half
    BY DEF SeqLess, Half
  <1>4. SeqGreater(b, a) <=> SeqLess(a, b)
    BY DEF SeqGreater
  <1>5. CASE Position(a) >= Position(b)
    BY <1>1, <1>2, <1>3, <1>4, <1>5, HalfType
  <1>6. CASE Position(a) < Position(b)
    BY <1>1, <1>2, <1>3, <1>4, <1>6, HalfType
  <1> QED
    BY <1>2, <1>5, <1>6

\* The byte before.
LEMMA PosPrev ==
    ASSUME NEW a \in SeqNums, Position(a) > 0
    PROVE  SeqSub(a, 1) \in SeqNums /\ Position(SeqSub(a, 1)) = Position(a) - 1
  <1>1. a \in Nat /\ a < SeqMod /\ SeqMod \in Nat /\ ISN \in 0 .. (SeqMod - 1)
    BY SequenceSpace DEF SeqNums
  <1>2. CASE a >= 1
    <2>1. SeqSub(a, 1) = a - 1 /\ a - 1 \in SeqNums
      BY <1>1, <1>2, ModOnce DEF SeqSub, SeqNums
    <2> QED
      BY <1>1, <1>2, <2>1, PosIs
  <1>3. CASE a = 0
    <2>1. SeqSub(a, 1) = a - 1 + SeqMod /\ a - 1 + SeqMod \in SeqNums
      BY <1>1, <1>3, ModOnce, SequenceSpace DEF SeqSub, SeqNums
    <2> QED
      BY <1>1, <1>3, <2>1, PosIs
  <1> QED
    BY <1>1, <1>2, <1>3

LEMMA PosBeforeISN ==
    ASSUME NEW a \in SeqNums, Position(a) = 0
    PROVE  Position(SeqSub(a, 1)) = SeqMod - 1
  <1>1. a = ISN /\ ISN \in 0 .. (SeqMod - 1) /\ SeqMod \in Nat /\ SeqMod >= 2
    BY PosISN, PosInjective, SequenceSpace
  <1>2. CASE a >= 1
    <2>1. SeqSub(a, 1) = a - 1 /\ a - 1 \in SeqNums
      BY <1>1, <1>2, ModOnce DEF SeqSub, SeqNums
    <2> QED
      BY <1>1, <1>2, <2>1, PosIs
  <1>3. CASE a = 0
    <2>1. SeqSub(a, 1) = a - 1 + SeqMod /\ a - 1 + SeqMod \in SeqNums
      BY <1>1, <1>3, ModOnce DEF SeqSub, SeqNums
    <2> QED
      BY <1>1, <1>3, <2>1, PosIs
  <1> QED
    BY <1>1, <1>2, <1>3

\* Rounding down to the scale quantum.
LEMMA RoundDown ==
    ASSUME NEW x \in Nat
    PROVE  /\ x \div Quantum \in Nat
           /\ (x \div Quantum) * Quantum \in Nat
           /\ (x \div Quantum) * Quantum <= x
  BY WindowFits

(* The inductive invariant. *)

NextPos == Position(receiveNext)
EdgePos == Position(right)
Held == DOMAIN outOfOrder

\* The actor has consumed the FIN, whether or not it has told Read yet.
Closed == pc # "idle" /\ job.closed
AfterFin == remoteFINReceived \/ Closed

\* A segment carries a range of the peer's stream, with a FIN only where the
\* peer placed one.
StreamRange(s) ==
    /\ s.seq \in SeqNums /\ s.data \in Seq(Nat) /\ s.fin \in BOOLEAN
    /\ Position(s.seq) + Len(s.data) <= StreamLen
    /\ \A i \in 1 .. Len(s.data) : s.data[i] = Position(s.seq) + i - 1
    /\ s.fin => Position(s.seq) + Len(s.data) \in FinPositions

SegmentJobs == [kind : {"segment"}, seg : PeerSegments, win : Nat, closed : BOOLEAN,
                new : BOOLEAN]
WakeJobs == [kind : {"wake"}, prev : SeqNums, closed : BOOLEAN]

\* The types of the variables the safety properties rest on.
ReceiveTypes ==
    /\ receiveNext \in SeqNums /\ right \in SeqNums
    /\ finSeq \in SeqNums \cup {NoFin}
    /\ unread \in Nat /\ quantumReserve \in 0 .. (Quantum - 1)
    /\ lastAdvertisedWindow \in Nat
    /\ readBuffer \in Seq(Nat) /\ consumed \in Seq(Nat)
    /\ capacity \in 1 .. MaxCapacity

FlagTypes ==
    /\ remoteFINReceived \in BOOLEAN /\ ackPending \in BOOLEAN
    /\ receiveAutoTune \in BOOLEAN /\ readClosed \in BOOLEAN /\ userClosed \in BOOLEAN
    /\ aborted \in BOOLEAN /\ terminated \in BOOLEAN /\ discarded \in BOOLEAN
    /\ wakeWindow \in BOOLEAN
    /\ readErr \in {"none", "eof", "closed", "failed"}

\* Where the actor is, and the locals it has there.  The window a segment was
\* admitted under is still covered by the promised edge, and job.new still
\* says whether the segment reaches beyond RCV.NXT.
JobInv ==
    /\ pc \in {"idle", "receive", "publish", "promote", "promoted", "finish", "wakefinish"}
    /\ pc = "idle" => job = NoJob
    /\ pc # "idle" => job \in SegmentJobs \cup WakeJobs
    /\ pc \in {"receive", "publish", "finish"} => job.kind = "segment"
    /\ pc = "wakefinish" => job.kind = "wake"
    /\ pc \in {"receive", "publish", "promote"} => ~job.closed
    /\ remoteFINReceived => /\ pc \in {"idle", "receive", "finish", "wakefinish"}
                            /\ ~Closed
    /\ terminated => pc = "idle"
    /\ pc = "receive" =>
        /\ job.win # 0 => NextPos + job.win <= EdgePos
        /\ job.new <=> /\ job.seg.data # <<>>
                       /\ Position(job.seg.seq) + Len(job.seg.data) > NextPos

\* The bytes read and readable are the stream's prefix, up to RCV.NXT unless
\* the application discards input.
DeliveryInv ==
    /\ \A i \in 1 .. Len(consumed) : consumed[i] = i - 1
    /\ \A i \in 1 .. Len(readBuffer) : readBuffer[i] = Len(consumed) + i - 1
    /\ Discarding => readBuffer = <<>>
    /\ ~Discarding /\ ~AfterFin => NextPos = Len(consumed) + Len(readBuffer)
    /\ ~Discarding /\ AfterFin => NextPos = Len(consumed) + Len(readBuffer) + 1

\* RCV.NXT passes a FIN only where the peer placed one, after which nothing is
\* held, and what Read reports agrees.
FinInv ==
    /\ ~AfterFin => NextPos <= StreamLen
    /\ AfterFin => /\ NextPos >= 1 /\ NextPos - 1 \in FinPositions
                   /\ Held = {} /\ pieceStarts = {} /\ finSeq = NoFin
    /\ finSeq # NoFin => Position(finSeq) \in FinPositions /\ NextPos <= Position(finSeq)
    /\ readErr = "eof" => remoteFINReceived
    /\ Discarding => readErr \in {"closed", "failed"}
    /\ aborted => userClosed

\* Every held byte is the peer's, inside the window and before a held FIN, and
\* every held run of bytes begins with a piece.
ScoreboardInv ==
    /\ Held \subseteq SeqNums /\ IsFiniteSet(Held)
    /\ pieceStarts \subseteq Held /\ Cardinality(pieceStarts) <= MaxOutOfOrder
    /\ \A q \in Held :
        /\ outOfOrder[q] = Position(q)
        /\ NextPos <= Position(q) /\ Position(q) < EdgePos /\ Position(q) < StreamLen
        /\ finSeq # NoFin => Position(q) < Position(finSeq)
        /\ q \in pieceStarts \/ SeqSub(q, 1) \in Held

\* Outside the promotion loop a byte at RCV.NXT is held only for want of room,
\* or a wake is on its way.
StuckInv ==
    (/\ pc \in {"idle", "receive", "promoted", "finish", "wakefinish"}
     /\ ~Discarding /\ receiveNext \in Held)
        => Available + quantumReserve <= 0 \/ wakeWindow

\* The promised edge: never further than a capacity or a quantum beyond the
\* stream, and covered by the read buffer's room while tuning is automatic.
PromiseInv ==
    /\ EdgePos <= StreamLen + 1 + MaxWindow + Quantum
    /\ (receiveAutoTune /\ ~Discarding /\ ~AfterFin /\ EdgePos > NextPos)
            => Len(readBuffer) + (EdgePos - NextPos) <= capacity + quantumReserve

\* A segment with payload beyond RCV.NXT is in the actor's hands.
NewSegment == job.kind = "segment" /\ job.new

\* The count Close reads is the number of held bytes, or misses only bytes of
\* a segment the actor is still handling.
UnreadInv ==
    ~terminated =>
        /\ pc \in {"idle", "receive", "finish", "wakefinish"} => unread = HeldBytes
        /\ pc = "publish" => unread # 0 \/ NewSegment \/ Held = {}
        /\ pc \in {"promote", "promoted"} => unread # 0 \/ NewSegment \/ Held = {}

\* After a graceful Close bytes are held, or dropped, only on account of a
\* segment whose handler will reset the connection.
DiscardInv ==
    /\ (userClosed /\ ~aborted /\ ~terminated) =>
        Held = {} \/ (NewSegment /\ pc \in {"publish", "promote", "promoted", "finish"})
    /\ discarded =>
        \/ aborted \/ terminated
        \/ userClosed /\ NewSegment /\ pc \in {"promote", "promoted", "finish"}

IndInv == /\ ReceiveTypes /\ FlagTypes /\ JobInv /\ DeliveryInv /\ FinInv
          /\ ScoreboardInv /\ StuckInv /\ PromiseInv /\ UnreadInv /\ DiscardInv

(* The operators, in positions. *)

\* Every segment the peer sends is a range of its stream.
LEMMA PeerSegmentRange ==
    ASSUME NEW s \in PeerSegments
    PROVE  StreamRange(s)
  <1>1. PICK r \in {p \in (0 .. StreamLen) \X (0 .. MaxPayload) : p[1] + p[2] <= StreamLen},
             f \in BOOLEAN :
             s = [seq |-> SeqAdd(ISN, r[1]), data |-> [i \in 1 .. r[2] |-> r[1] + i - 1],
                  fin |-> f]
    BY DEF PeerSegments, Segments
  <1>2. /\ s.seq = SeqAdd(ISN, r[1]) /\ s.data = [i \in 1 .. r[2] |-> r[1] + i - 1]
        /\ s.fin = f
    BY <1>1
  <1>3. r[1] \in Nat /\ r[2] \in Nat /\ r[1] + r[2] <= StreamLen
    BY <1>1, Stream
  <1>4. s.data \in Seq(Nat) /\ Len(s.data) = r[2]
        /\ \A i \in 1 .. Len(s.data) : s.data[i] = r[1] + i - 1
    <2>1. \A i \in 1 .. r[2] : r[1] + i - 1 \in Nat
      BY <1>3
    <2>2. [i \in 1 .. r[2] |-> r[1] + i - 1] \in Seq(Nat)
      BY <1>3, <2>1, IsASeq
    <2> QED
      BY <1>2, <1>3, <2>2, LenProperties
  <1>5. s.seq \in SeqNums /\ Position(s.seq) = r[1]
    <2>1. r[1] < SeqMod
      BY <1>3, HalfType, Stream, Capacities, WindowFits
    <2> QED
      BY <1>2, <1>3, <2>1, PosISN, PosAdd
  <1>6. s.fin => Position(s.seq) + Len(s.data) \in FinPositions
    <2>1. SeqSub(SeqAdd(s.seq, Len(s.data)), ISN) = r[1] + r[2]
      <3>1. r[1] + r[2] < SeqMod
        BY <1>3, HalfType, Stream, Capacities, WindowFits
      <3> QED
        BY <1>3, <1>4, <1>5, <3>1, PosAdd DEF Position
    <2>2. s.fin => SeqSub(SeqAdd(s.seq, Len(s.data)), ISN) \in FinPositions
      BY DEF PeerSegments
    <2> QED
      BY <1>4, <1>5, <2>1, <2>2
  <1> QED
    BY <1>2, <1>3, <1>4, <1>5, <1>6 DEF StreamRange

\* Every position the variables hold is near the start of the stream.
LEMMA Near ==
    ASSUME ReceiveTypes, FinInv, PromiseInv
    PROVE  /\ NextPos \in Nat /\ NextPos <= StreamLen + 1 /\ NextPos < Half
           /\ EdgePos \in Nat /\ EdgePos < Half
  <1>1. NextPos \in Nat /\ EdgePos \in Nat
    BY PosIs DEF ReceiveTypes, NextPos, EdgePos
  <1>2. NextPos <= StreamLen + 1
    BY <1>1, Stream DEF FinInv
  <1> QED
    BY <1>1, <1>2, HalfType, Stream, Capacities, WindowFits DEF PromiseInv

LEMMA SuffixOf ==
    ASSUME NEW b \in Seq(Nat), NEW k \in 0 .. Len(b)
    PROVE  /\ SubSeq(b, k + 1, Len(b)) \in Seq(Nat)
           /\ Len(SubSeq(b, k + 1, Len(b))) = Len(b) - k
           /\ \A i \in 1 .. Len(SubSeq(b, k + 1, Len(b))) :
                SubSeq(b, k + 1, Len(b))[i] = b[k + i]
  <1>1. Len(b) \in Nat /\ k \in Nat /\ k + 1 \in Int /\ \A i \in 1 .. Len(b) : b[i] \in Nat
    BY LenProperties, ElementOfSeq
  <1>2. \A i \in (k + 1) .. Len(b) : b[i] \in Nat
    BY <1>1
  <1>3. /\ SubSeq(b, k + 1, Len(b)) \in Seq(Nat)
        /\ Len(SubSeq(b, k + 1, Len(b))) =
             IF k + 1 <= Len(b) THEN Len(b) - (k + 1) + 1 ELSE 0
        /\ \A i \in 1 .. Len(b) - (k + 1) + 1 :
             SubSeq(b, k + 1, Len(b))[i] = b[(k + 1) + i - 1]
    BY <1>1, <1>2, SubSeqProperties
  <1>4. Len(SubSeq(b, k + 1, Len(b))) = Len(b) - k
    BY <1>1, <1>3
  <1>5. \A i \in 1 .. Len(b) - k : (k + 1) + i - 1 = k + i
    BY <1>1
  <1>6. 1 .. Len(b) - (k + 1) + 1 = 1 .. Len(b) - k
    BY <1>1
  <1> QED
    BY <1>3, <1>4, <1>5, <1>6

LEMMA PrefixOf ==
    ASSUME NEW b \in Seq(Nat), NEW k \in 0 .. Len(b)
    PROVE  /\ SubSeq(b, 1, k) \in Seq(Nat)
           /\ Len(SubSeq(b, 1, k)) = k
           /\ \A i \in 1 .. k : SubSeq(b, 1, k)[i] = b[i]
  <1>1. Len(b) \in Nat /\ k \in Nat /\ \A i \in 1 .. Len(b) : b[i] \in Nat
    BY LenProperties, ElementOfSeq
  <1>2. \A i \in 1 .. k : b[i] \in Nat
    BY <1>1
  <1>3. /\ SubSeq(b, 1, k) \in Seq(Nat)
        /\ Len(SubSeq(b, 1, k)) = IF 1 <= k THEN k - 1 + 1 ELSE 0
        /\ \A i \in 1 .. k - 1 + 1 : SubSeq(b, 1, k)[i] = b[1 + i - 1]
    BY <1>1, <1>2, SubSeqProperties
  <1>4. 1 .. k - 1 + 1 = 1 .. k /\ \A i \in 1 .. k : 1 + i - 1 = i
    BY <1>1
  <1> QED
    BY <1>1, <1>3, <1>4

LEMMA AppendedIs ==
    ASSUME NEW a \in Seq(Nat), NEW b \in Seq(Nat)
    PROVE  /\ a \o b \in Seq(Nat) /\ Len(a \o b) = Len(a) + Len(b)
           /\ \A i \in 1 .. Len(a \o b) : i <= Len(a) => (a \o b)[i] = a[i]
           /\ \A i \in 1 .. Len(a \o b) : i > Len(a) =>
                i - Len(a) \in 1 .. Len(b) /\ (a \o b)[i] = b[i - Len(a)]
  <1>1. Len(a) \in Nat /\ Len(b) \in Nat
    BY LenProperties
  <1>2. /\ a \o b \in Seq(Nat)
        /\ Len(a \o b) = Len(a) + Len(b)
        /\ \A i \in 1 .. Len(a) + Len(b) :
             (a \o b)[i] = IF i <= Len(a) THEN a[i] ELSE b[i - Len(a)]
    BY ConcatProperties
  <1> QED
    BY <1>1, <1>2

\* receiveTCPData's trimming leaves a range of the stream at or beyond RCV.NXT,
\* with payload only if the segment reached beyond it.
LEMMA TrimmedRange ==
    ASSUME NEW s, StreamRange(s), receiveNext \in SeqNums, NextPos <= StreamLen
    PROVE  /\ StreamRange(Trimmed(s))
           /\ NextPos <= Position(Trimmed(s).seq)
           /\ Trimmed(s).data # <<>> =>
                s.data # <<>> /\ Position(s.seq) + Len(s.data) > NextPos
  <1> DEFINE skip == SeqSub(receiveNext, s.seq)
             end == SeqAdd(s.seq, Len(s.data))
  <1>1. /\ s.seq \in SeqNums /\ s.data \in Seq(Nat) /\ s.fin \in BOOLEAN
        /\ Len(s.data) \in Nat /\ Position(s.seq) \in Nat /\ NextPos \in Nat
        /\ Position(s.seq) + Len(s.data) <= StreamLen
        /\ \A i \in 1 .. Len(s.data) : s.data[i] = Position(s.seq) + i - 1
        /\ s.fin => Position(s.seq) + Len(s.data) \in FinPositions
    BY PosIs, LenProperties DEF StreamRange, NextPos
  <1>2. SeqLess(s.seq, receiveNext) <=> Position(s.seq) < NextPos
    <2>1. Position(s.seq) < Half /\ NextPos < Half
      BY <1>1, HalfType, Stream, Capacities, WindowFits
    <2> QED
      BY <1>1, <2>1, PosLess DEF NextPos
  <1>3. end \in SeqNums /\ Position(end) = Position(s.seq) + Len(s.data)
    <2>1. Position(s.seq) + Len(s.data) < SeqMod
      BY <1>1, HalfType, Stream, Capacities, WindowFits
    <2> QED
      BY <1>1, <2>1, PosAdd
  <1>4. CASE ~SeqLess(s.seq, receiveNext)
    <2>1. Trimmed(s) = s
      BY <1>4 DEF Trimmed
    <2>2. s.data # <<>> => Len(s.data) > 0
      BY <1>1, EmptySeq
    <2> QED
      BY <1>1, <1>2, <1>4, <2>1, <2>2
  <1>5. CASE SeqLess(s.seq, receiveNext) /\ skip < Len(s.data)
    <2>1. Trimmed(s) = [seq |-> receiveNext, data |-> SubSeq(s.data, skip + 1, Len(s.data)),
                        fin |-> s.fin]
      BY <1>5 DEF Trimmed
    <2>2. skip = NextPos - Position(s.seq) /\ skip \in Nat
      BY <1>1, <1>2, <1>5, PosSub DEF NextPos
    <2> DEFINE d == SubSeq(s.data, skip + 1, Len(s.data))
    <2>3. d \in Seq(Nat) /\ Len(d) = Len(s.data) - skip
          /\ \A i \in 1 .. Len(d) : d[i] = s.data[skip + i]
      <3>1. skip \in 0 .. Len(s.data)
        BY <1>1, <1>5, <2>2
      <3> HIDE DEF skip
      <3> QED
        BY <1>1, <3>1, SuffixOf
    <2> HIDE DEF d
    <2>4. /\ Trimmed(s).seq = receiveNext /\ Trimmed(s).data = d /\ Trimmed(s).fin = s.fin
      <3>1. Trimmed(s) = [seq |-> receiveNext, data |-> d, fin |-> s.fin]
        BY <2>1 DEF d
      <3> QED
        BY <3>1
    <2> HIDE DEF skip, d
    <2>5. \A i \in 1 .. Len(d) : d[i] = NextPos + i - 1
      <3> SUFFICES ASSUME NEW i \in 1 .. Len(d)
                   PROVE  d[i] = NextPos + i - 1
        OBVIOUS
      <3>1. skip + i \in 1 .. Len(s.data) /\ i \in Nat
        <4>1. skip \in Nat /\ Len(s.data) \in Nat /\ Len(d) = Len(s.data) - skip
          BY <1>1, <2>2, <2>3
        <4> QED
          BY <4>1
      <3>2. d[i] = Position(s.seq) + (skip + i) - 1
        BY <1>1, <2>3, <3>1
      <3> QED
        BY <1>1, <2>2, <3>1, <3>2
    <2>6. Position(receiveNext) + Len(d) = Position(s.seq) + Len(s.data)
      BY <1>1, <2>2, <2>3 DEF NextPos
    <2>7. s.data # <<>> /\ Position(s.seq) + Len(s.data) > NextPos
      <3>1. Len(s.data) > 0
        BY <1>1, <1>5, <2>2
      <3> QED
        BY <1>1, <1>5, <2>2, <3>1
    <2> QED
      BY <1>1, <2>3, <2>4, <2>5, <2>6, <2>7 DEF StreamRange, NextPos
  <1>6. CASE SeqLess(s.seq, receiveNext) /\ ~(skip < Len(s.data))
    <2>1. Trimmed(s) = [seq |-> receiveNext, data |-> <<>>, fin |-> s.fin /\ end = receiveNext]
      BY <1>6 DEF Trimmed
    <2> DEFINE atNext == s.fin /\ end = receiveNext
    <2>3. /\ Trimmed(s).seq = receiveNext /\ Trimmed(s).data = <<>>
          /\ Trimmed(s).fin \in BOOLEAN /\ (Trimmed(s).fin => s.fin /\ end = receiveNext)
      <3>1. Trimmed(s) = [seq |-> receiveNext, data |-> <<>>, fin |-> atNext]
            /\ atNext \in BOOLEAN /\ (atNext => s.fin /\ end = receiveNext)
        BY <2>1
      <3> HIDE DEF atNext, end
      <3> QED
        BY <3>1
    <2>2. Trimmed(s).fin => NextPos \in FinPositions
      <3> SUFFICES ASSUME Trimmed(s).fin
                   PROVE  NextPos \in FinPositions
        OBVIOUS
      <3>1. NextPos = Position(end)
        BY <2>3 DEF NextPos
      <3> QED
        BY <1>1, <1>3, <2>3, <3>1
    <2>4. Len(<<>>) = 0 /\ <<>> \in Seq(Nat)
      BY EmptySeq
    <2> QED
      BY <1>1, <2>2, <2>3, <2>4 DEF StreamRange, NextPos
  <1> QED
    BY <1>4, <1>5, <1>6

\* tcpReceiveWindow.size is the distance to the promised edge.
LEMMA WindowSizeIs ==
    ASSUME ReceiveTypes, FinInv, PromiseInv
    PROVE  /\ WindowSize \in Nat
           /\ EdgePos >= NextPos => WindowSize = EdgePos - NextPos
           /\ EdgePos < NextPos => WindowSize = 0
  <1>1. /\ NextPos \in Nat /\ NextPos < Half /\ EdgePos \in Nat /\ EdgePos < Half
    BY Near
  <1>2. SeqLess(right, receiveNext) <=> EdgePos < NextPos
    BY <1>1, PosLess DEF ReceiveTypes, NextPos, EdgePos
  <1>3. EdgePos >= NextPos => SeqSub(right, receiveNext) = EdgePos - NextPos
    BY PosSub DEF ReceiveTypes, NextPos, EdgePos
  <1> QED
    BY <1>1, <1>2, <1>3 DEF WindowSize

LEMMA AvailableType ==
    ASSUME ReceiveTypes, ScoreboardInv
    PROVE  /\ HeldBytes \in Nat /\ Available \in Int /\ Available <= capacity
           /\ Len(readBuffer) \in Nat
           /\ Discarding => Available = capacity - HeldBytes
           /\ ~Discarding => Available = capacity - Len(readBuffer) - HeldBytes
  <1>1. HeldBytes \in Nat
    BY FS_CardinalityType DEF ScoreboardInv, HeldBytes, Held
  <1>2. Len(readBuffer) \in Nat /\ capacity \in Int
    BY LenProperties, Capacities DEF ReceiveTypes
  <1>3. CASE Discarding
    BY <1>1, <1>2, <1>3 DEF Available
  <1>4. CASE ~Discarding
    BY <1>1, <1>2, <1>4 DEF Available
  <1> QED
    BY <1>1, <1>2, <1>3, <1>4

(* The advertised window. *)

\* The free space NextWindow may hand out, capped by the window field.
FreeSpace == MinOf(MaxOf(0, Available), MaxWireWindow * Quantum)

LEMMA FreeSpaceIs ==
    ASSUME ReceiveTypes, ScoreboardInv
    PROVE  /\ FreeSpace \in Nat /\ FreeSpace <= MaxWindow
           /\ FreeSpace > 0 => FreeSpace <= Available
  <1>1. Available \in Int /\ Available <= capacity /\ capacity \in 1 .. MaxCapacity
    BY AvailableType DEF ReceiveTypes
  <1>2. MaxWireWindow * Quantum \in Nat
    BY Capacities, WindowFits
  <1> QED
    BY <1>1, <1>2, Capacities DEF FreeSpace, MaxWindow, MinOf, MaxOf

LEMMA IncreaseType ==
    ASSUME ReceiveTypes
    PROVE  MinimumIncrease \in Nat
  <1>1. (capacity + 1) \div 2 \in Nat
    BY Capacities DEF ReceiveTypes
  <1> QED
    BY <1>1, Capacities DEF MinimumIncrease, MinOf

\* tcpReceiveWindow.next never moves the edge back.  An edge it moves forward
\* promises no more than the free space and the reserve, and the reserve grows
\* only when there is free space.
LEMMA NextWindowSound ==
    ASSUME ReceiveTypes, FinInv, PromiseInv, ScoreboardInv
    PROVE  /\ NextWindow.right \in SeqNums
           /\ NextWindow.reserve \in 0 .. (Quantum - 1)
           /\ NextWindow.window \in Nat
           /\ Position(NextWindow.right) >= EdgePos
           /\ Position(NextWindow.right) <= StreamLen + 1 + MaxWindow + Quantum
           /\ NextWindow.reserve <= quantumReserve \/ Available > 0
           /\ Position(NextWindow.right) > NextPos =>
                \/ NextWindow.right = right /\ NextWindow.reserve = quantumReserve
                \/ Position(NextWindow.right) - NextPos <= Available + NextWindow.reserve
  <1> DEFINE desired == SeqAdd(receiveNext, (FreeSpace \div Quantum) * Quantum)
             grows == /\ SeqGreater(desired, right)
                      /\ SeqSub(desired, right) >= MinimumIncrease
             edge == IF grows THEN desired ELSE right
             promised == IF SeqLess(edge, receiveNext) THEN 0 ELSE SeqSub(edge, receiveNext)
             reopened == SeqAdd(receiveNext, Quantum)
             reopens == /\ Shift # 0 /\ MinimumIncrease > 0 /\ FreeSpace >= MinimumIncrease
                        /\ promised < Quantum
                        /\ SeqGreater(reopened, edge)
             newRight == IF reopens THEN reopened ELSE edge
             reserve == IF reopens THEN MaxOf(0, Quantum - FreeSpace)
                        ELSE IF grows THEN 0 ELSE quantumReserve
             wire == SeqSub(newRight, receiveNext) \div Quantum
  <1>1. NextWindow = IF SeqLess(newRight, receiveNext)
                     THEN [window |-> 0, right |-> newRight, reserve |-> 0]
                     ELSE [window |-> wire, right |-> newRight,
                           reserve |-> IF newRight = receiveNext THEN 0 ELSE reserve]
    BY DEF NextWindow, FreeSpace
  <1>2. /\ NextPos \in Nat /\ NextPos <= StreamLen + 1 /\ NextPos < Half
        /\ EdgePos \in Nat /\ EdgePos < Half
        /\ EdgePos <= StreamLen + 1 + MaxWindow + Quantum
        /\ receiveNext \in SeqNums /\ right \in SeqNums
        /\ quantumReserve \in 0 .. (Quantum - 1)
    BY Near DEF ReceiveTypes, PromiseInv
  <1>3. /\ FreeSpace \in Nat /\ FreeSpace <= MaxWindow /\ MinimumIncrease \in Nat
        /\ FreeSpace > 0 => FreeSpace <= Available
        /\ Available \in Int
    BY FreeSpaceIs, IncreaseType, AvailableType
  <1>4. /\ Quantum \in Nat /\ Quantum > 0 /\ StreamLen \in Nat /\ MaxWindow \in Nat
        /\ Half \in Nat /\ SeqMod = 2 * Half
        /\ StreamLen + 2 + MaxWindow + Quantum < Half
    BY HalfType, Stream, Capacities, WindowFits
  <1> DEFINE whole == (FreeSpace \div Quantum) * Quantum
  <1>5. whole \in Nat /\ whole <= FreeSpace
    BY <1>3, RoundDown
  <1>6. desired = SeqAdd(receiveNext, whole)
    OBVIOUS
  <1> HIDE DEF whole
  <1>7. desired \in SeqNums /\ Position(desired) = NextPos + whole
    <2>1. Position(receiveNext) + whole < SeqMod
      BY <1>2, <1>3, <1>4, <1>5 DEF NextPos
    <2> QED
      BY <1>2, <1>5, <1>6, <2>1, PosAdd DEF NextPos
  <1>8. reopened \in SeqNums /\ Position(reopened) = NextPos + Quantum
    <2>1. Position(receiveNext) + Quantum < SeqMod
      BY <1>2, <1>4 DEF NextPos
    <2> QED
      BY <1>2, <1>4, <2>1, PosAdd DEF NextPos
  <1>9. grows => Position(desired) > EdgePos
    <2>1. Position(desired) < Half
      BY <1>2, <1>3, <1>4, <1>5, <1>7
    <2> QED
      BY <1>2, <1>7, <2>1, PosLess DEF EdgePos
  <1> HIDE DEF desired, grows
  <1>10. /\ edge \in SeqNums /\ Position(edge) >= EdgePos /\ Position(edge) < Half
         /\ grows => Position(edge) = NextPos + whole
         /\ ~grows => edge = right
         /\ Position(edge) <= StreamLen + 1 + MaxWindow + Quantum
    <2>1. CASE grows
      BY <1>2, <1>3, <1>4, <1>5, <1>7, <1>9, <2>1
    <2>2. CASE ~grows
      BY <1>2, <2>2 DEF EdgePos
    <2> QED
      BY <2>1, <2>2
  <1> HIDE DEF edge, reopened
  <1>11. reopens => Position(reopened) > Position(edge) /\ FreeSpace > 0
    <2>1. Position(reopened) < Half
      BY <1>2, <1>4, <1>8
    <2>2. SeqGreater(reopened, edge) => Position(reopened) > Position(edge)
      BY <1>8, <1>10, <2>1, PosLess
    <2>3. MinimumIncrease > 0 /\ FreeSpace >= MinimumIncrease => FreeSpace > 0
      BY <1>3
    <2> QED
      BY <2>2, <2>3
  <1> HIDE DEF reopens, promised
  <1>12. /\ newRight \in SeqNums /\ Position(newRight) >= EdgePos /\ Position(newRight) < Half
         /\ Position(newRight) <= StreamLen + 1 + MaxWindow + Quantum
         /\ reopens => Position(newRight) = NextPos + Quantum
         /\ ~reopens => newRight = edge
    <2>1. Position(edge) \in Nat
      BY <1>10, PosIs
    <2>2. CASE reopens
      BY <1>2, <1>4, <1>8, <1>10, <1>11, <2>1, <2>2
    <2>3. CASE ~reopens
      BY <1>10, <2>3
    <2> QED
      BY <2>2, <2>3
  <1> HIDE DEF newRight
  <1>13. /\ reserve \in 0 .. (Quantum - 1)
         /\ reserve <= quantumReserve \/ Available > 0
         /\ reopens => Quantum <= Available + reserve
         /\ ~reopens /\ ~grows => reserve = quantumReserve
         /\ ~reopens /\ grows => reserve = 0
    <2>1. CASE reopens
      BY <1>2, <1>3, <1>4, <1>11, <2>1 DEF MaxOf
    <2>2. CASE ~reopens /\ grows
      BY <1>2, <1>4, <2>2
    <2>3. CASE ~reopens /\ ~grows
      BY <1>2, <1>4, <2>3
    <2> QED
      BY <2>1, <2>2, <2>3
  <1> HIDE DEF reserve
  <1>14. wire \in Nat
    <2>1. SeqSub(newRight, receiveNext) \in Nat
      BY <1>2, <1>12, PosSub
    <2> QED
      BY <2>1, RoundDown
  <1> HIDE DEF wire
  <1>15. /\ NextWindow.right = newRight
         /\ NextWindow.window \in Nat
         /\ NextWindow.reserve = 0 \/ NextWindow.reserve = reserve
         /\ (~SeqLess(newRight, receiveNext) /\ newRight # receiveNext) =>
                NextWindow.reserve = reserve
    <2>1. CASE SeqLess(newRight, receiveNext)
      BY <1>1, <2>1
    <2>2. CASE ~SeqLess(newRight, receiveNext) /\ newRight = receiveNext
      BY <1>1, <1>14, <2>2
    <2>3. CASE ~SeqLess(newRight, receiveNext) /\ newRight # receiveNext
      BY <1>1, <1>14, <2>3
    <2> QED
      BY <2>1, <2>2, <2>3
  <1>16. Position(newRight) > NextPos => NextWindow.reserve = reserve
    <2>1. Position(newRight) > NextPos => ~SeqLess(newRight, receiveNext) /\ newRight # receiveNext
      <3>1. Position(newRight) \in Nat
        BY <1>12, PosIs
      <3>2. SeqLess(newRight, receiveNext) <=> Position(newRight) < NextPos
        BY <1>2, <1>12, PosLess DEF NextPos
      <3> QED
        BY <1>2, <3>1, <3>2 DEF NextPos
    <2> QED
      BY <1>15, <2>1
  <1>17. Position(newRight) > NextPos =>
            \/ newRight = right /\ reserve = quantumReserve
            \/ Position(newRight) - NextPos <= Available + reserve
    <2> SUFFICES ASSUME Position(newRight) > NextPos
                 PROVE  \/ newRight = right /\ reserve = quantumReserve
                        \/ Position(newRight) - NextPos <= Available + reserve
      OBVIOUS
    <2>1. CASE reopens
      BY <1>2, <1>4, <1>12, <1>13, <2>1
    <2>2. CASE ~reopens /\ grows
      BY <1>2, <1>3, <1>5, <1>10, <1>12, <1>13, <2>2
    <2>3. CASE ~reopens /\ ~grows
      BY <1>10, <1>12, <1>13, <2>3
    <2> QED
      BY <2>1, <2>2, <2>3
  <1>18. NextWindow.reserve \in 0 .. (Quantum - 1)
         /\ (NextWindow.reserve <= quantumReserve \/ Available > 0)
    BY <1>2, <1>4, <1>13, <1>15
  <1> QED
    BY <1>12, <1>15, <1>16, <1>17, <1>18

(* The scoreboard. *)

\* n consecutive sequence numbers from a.
Run(a, n) == {SeqAdd(a, i) : i \in 0 .. (n - 1)}

LEMMA RunIs ==
    ASSUME NEW a \in SeqNums, NEW n \in Nat, Position(a) + n < SeqMod
    PROVE  /\ Run(a, n) \subseteq SeqNums
           /\ \A q \in SeqNums : q \in Run(a, n) <=>
                Position(a) <= Position(q) /\ Position(q) < Position(a) + n
           /\ IsFiniteSet(Run(a, n)) /\ Cardinality(Run(a, n)) = n
  <1>1. Position(a) \in Nat /\ SeqMod \in Nat
    BY PosIs, SequenceSpace
  <1>2. \A i \in 0 .. (n - 1) :
            SeqAdd(a, i) \in SeqNums /\ Position(SeqAdd(a, i)) = Position(a) + i
    <2> TAKE i \in 0 .. (n - 1)
    <2>1. i \in Nat /\ Position(a) + i < SeqMod
      BY <1>1
    <2> QED
      BY <2>1, PosAdd
  <1>3. Run(a, n) \subseteq SeqNums
    BY <1>2 DEF Run
  <1>4. \A q \in SeqNums : q \in Run(a, n) <=>
                Position(a) <= Position(q) /\ Position(q) < Position(a) + n
    <2> TAKE q \in SeqNums
    <2>1. Position(q) \in Nat
      BY PosIs
    <2>2. ASSUME q \in Run(a, n)
          PROVE  Position(a) <= Position(q) /\ Position(q) < Position(a) + n
      BY <1>1, <1>2, <2>2 DEF Run
    <2>3. ASSUME Position(a) <= Position(q), Position(q) < Position(a) + n
          PROVE  q \in Run(a, n)
      <3> DEFINE i == Position(q) - Position(a)
      <3>1. i \in 0 .. (n - 1) /\ Position(a) + i = Position(q)
        BY <1>1, <2>1, <2>3
      <3> HIDE DEF i
      <3>2. SeqAdd(a, i) = q
        BY <1>2, <3>1, PosInjective
      <3> QED
        BY <3>1, <3>2 DEF Run
    <2> QED
      BY <2>2, <2>3
  <1> DEFINE f == [i \in 1 .. n |-> SeqAdd(a, i - 1)]
  <1>5. \A i \in 1 .. n : i - 1 \in 0 .. (n - 1)
    OBVIOUS
  <1>6. f \in [1 .. n -> Run(a, n)]
    BY <1>5 DEF Run
  <1>7. \A i, j \in 1 .. n : f[i] = f[j] => i = j
    <2> TAKE i, j \in 1 .. n
    <2> HAVE f[i] = f[j]
    <2>1. Position(a) + (i - 1) = Position(a) + (j - 1)
      BY <1>2, <1>5
    <2> QED
      BY <1>1, <2>1
  <1>8. \A q \in Run(a, n) : \E i \in 1 .. n : f[i] = q
    <2> TAKE q \in Run(a, n)
    <2>1. PICK k \in 0 .. (n - 1) : q = SeqAdd(a, k)
      BY DEF Run
    <2>2. k + 1 \in 1 .. n /\ (k + 1) - 1 = k
      BY <2>1
    <2> QED
      BY <2>1, <2>2
  <1> HIDE DEF f
  <1>9. f \in Bijection(1 .. n, Run(a, n))
    BY <1>6, <1>7, <1>8 DEF Bijection, Injection, Surjection, IsInjective
  <1>10. ExistsBijection(1 .. n, Run(a, n))
    BY <1>9 DEF ExistsBijection
  <1> QED
    BY <1>3, <1>4, <1>10, FS_NatBijection, FS_CountingElements

\* A non-empty set of positive numbers up to a bound has a greatest element.
LEMMA MaxIs ==
    ASSUME NEW B \in Nat, NEW S, S \subseteq 1 .. B, S # {}
    PROVE  Max(S) \in S /\ \A y \in S : Max(S) >= y
  <1> DEFINE T == {B - i : i \in S}
             R == OpToRel(<, Nat)
  <1>1. \A i \in S : i \in Nat /\ i <= B /\ B - i \in Nat
    OBVIOUS
  <1>2. T \subseteq Nat /\ T # {}
    BY <1>1
  <1>3. \A x, y \in Nat : <<y, x>> \in R <=> y < x
    BY DEF OpToRel
  <1>4. IsWellFoundedOn(R, Nat)
    BY NatLessThanWellFounded
  <1> HIDE DEF R, T
  <1>5. PICK x \in T : \A y \in T : ~(<<y, x>> \in R)
    BY <1>2, <1>4, WFMin
  <1>6. PICK m \in S : x = B - m
    BY <1>5 DEF T
  <1>7. \A i \in S : m >= i
    <2> TAKE i \in S
    <2>1. B - i \in T /\ B - i \in Nat /\ x \in Nat
      BY <1>1, <1>2, <1>5 DEF T
    <2>2. ~(B - i < x)
      BY <1>3, <1>5, <2>1
    <2> QED
      BY <1>1, <1>6, <2>2
  <1> QED
    BY <1>6, <1>7 DEF Max

\* The earliest held byte begins a piece.
LEMMA LeastHeld ==
    ASSUME ScoreboardInv, NextPos \in Nat, Held # {}
    PROVE  \E p \in pieceStarts : \A q \in Held : Position(p) <= Position(q)
  <1> DEFINE T == {Position(q) : q \in Held}
             R == OpToRel(<, Nat)
  <1>1. \A q \in Held : q \in SeqNums /\ Position(q) \in Nat /\ Position(q) < StreamLen
    BY PosIs DEF ScoreboardInv
  <1>2. T \subseteq Nat /\ T # {}
    BY <1>1
  <1>3. \A x, y \in Nat : <<y, x>> \in R <=> y < x
    BY DEF OpToRel
  <1>4. IsWellFoundedOn(R, Nat)
    BY NatLessThanWellFounded
  <1> HIDE DEF R, T
  <1>5. PICK x \in T : \A y \in T : ~(<<y, x>> \in R)
    BY <1>2, <1>4, WFMin
  <1>6. PICK p \in Held : x = Position(p)
    BY <1>5 DEF T
  <1>7. \A q \in Held : Position(p) <= Position(q)
    <2> TAKE q \in Held
    <2>1. Position(q) \in T /\ Position(q) \in Nat /\ x \in Nat
      BY <1>1, <1>2, <1>5 DEF T
    <2>2. ~(Position(q) < x)
      BY <1>3, <1>5, <2>1
    <2> QED
      BY <1>6, <2>1, <2>2
  <1>8. SeqSub(p, 1) \notin Held
    <2> SUFFICES ASSUME SeqSub(p, 1) \in Held
                 PROVE  FALSE
      OBVIOUS
    <2>1. Position(p) <= Position(SeqSub(p, 1)) /\ Position(SeqSub(p, 1)) < StreamLen
      BY <1>1, <1>7
    <2>2. CASE Position(p) > 0
      BY <1>1, <2>1, <2>2, PosPrev
    <2>3. CASE Position(p) = 0
      <3>1. Position(SeqSub(p, 1)) = SeqMod - 1
        BY <1>1, <2>3, PosBeforeISN
      <3> QED
        BY <2>1, <3>1, HalfType, Stream, Capacities, WindowFits
    <2> QED
      BY <1>1, <2>2, <2>3
  <1> QED
    BY <1>7, <1>8 DEF ScoreboardInv

LEMMA NoPieceNothingHeld ==
    ASSUME ScoreboardInv, NextPos \in Nat, pieceStarts = {}
    PROVE  Held = {}
  BY LeastHeld

LEMMA FirstPieceIs ==
    ASSUME ReceiveTypes, ScoreboardInv, NextPos \in Nat, pieceStarts # {}
    PROVE  /\ FirstPiece \in pieceStarts /\ FirstPiece \in Held
           /\ \A q \in Held : Position(FirstPiece) <= Position(q)
  <1>1. Held # {} /\ pieceStarts \subseteq Held
    BY DEF ScoreboardInv
  <1>2. PICK p \in pieceStarts : \A q \in Held : Position(p) <= Position(q)
    BY <1>1, LeastHeld
  <1>3. \A q \in Held : Position(q) \in Nat /\ SeqSub(q, receiveNext) = Position(q) - NextPos
    <2> TAKE q \in Held
    <2>1. q \in SeqNums /\ NextPos <= Position(q)
      BY DEF ScoreboardInv
    <2> QED
      BY <2>1, PosSub, PosIs DEF ReceiveTypes, NextPos
  <1>4. \A t \in pieceStarts : SeqSub(p, receiveNext) <= SeqSub(t, receiveNext)
    BY <1>1, <1>2, <1>3
  <1>5. /\ FirstPiece \in pieceStarts
        /\ \A t \in pieceStarts : SeqSub(FirstPiece, receiveNext) <= SeqSub(t, receiveNext)
    BY <1>2, <1>4 DEF FirstPiece
  <1>6. Position(FirstPiece) <= Position(p)
    BY <1>1, <1>2, <1>3, <1>5
  <1>7. \A q \in Held : Position(FirstPiece) <= Position(q)
    BY <1>1, <1>2, <1>3, <1>5, <1>6
  <1> QED
    BY <1>1, <1>5, <1>7

\* A piece runs from its first byte to the next gap or piece.
LEMMA PieceEndIs ==
    ASSUME ScoreboardInv, NEW s \in pieceStarts
    PROVE  \E size \in Nat \ {0} :
                /\ PieceEnd(s) = SeqAdd(s, size)
                /\ Position(s) + size <= StreamLen
                /\ \A k \in 0 .. (size - 1) : SeqAdd(s, k) \in Held
                /\ \A k \in 1 .. (size - 1) : SeqAdd(s, k) \notin pieceStarts
                /\ SeqAdd(s, size) \in Held => SeqAdd(s, size) \in pieceStarts
  <1> DEFINE inside(n) == \A k \in 1 .. (n - 1) :
                            LET q == SeqAdd(s, k)
                            IN  q \in DOMAIN outOfOrder /\ q \notin pieceStarts
             sizes == {n \in 1 .. HeldBytes : inside(n)}
             size == Max(sizes)
  <1>1. /\ s \in Held /\ s \in SeqNums /\ Position(s) \in Nat /\ Position(s) < StreamLen
        /\ IsFiniteSet(Held) /\ HeldBytes \in Nat /\ HeldBytes = Cardinality(Held)
        /\ \A q \in Held : q \in SeqNums /\ Position(q) < StreamLen /\ Position(q) \in Nat
        /\ StreamLen \in Nat /\ SeqMod \in Nat /\ StreamLen + 1 < SeqMod
    BY PosIs, FS_CardinalityType, HalfType, Stream, Capacities, WindowFits
       DEF ScoreboardInv, HeldBytes, Held
  <1>2. SeqAdd(s, 0) = s
    <2>1. Position(s) + 0 < SeqMod
      BY <1>1, PosIs
    <2>2. SeqAdd(s, 0) \in SeqNums /\ Position(SeqAdd(s, 0)) = Position(s) + 0
      BY <1>1, <2>1, PosAdd
    <2> QED
      BY <1>1, <2>2, PosInjective
  <1>3. HeldBytes >= 1
    BY <1>1, FS_EmptySet
  <1>4. sizes \subseteq 1 .. HeldBytes /\ 1 \in sizes
    BY <1>1, <1>3
  <1>5. size \in sizes /\ \A y \in sizes : size >= y
    <2> HIDE DEF sizes
    <2> QED
      BY <1>1, <1>4, MaxIs
  <1>7. PieceEnd(s) = SeqAdd(s, size)
    BY DEF PieceEnd
  <1> HIDE DEF size
  <1>6. size \in Nat /\ size >= 1 /\ size <= HeldBytes /\ inside(size)
    <2>1. size \in 1 .. HeldBytes /\ inside(size)
      BY <1>5
    <2> QED
      BY <1>1, <2>1
  <1>8. \A n \in Nat : n >= 1 /\ inside(n) => \A k \in 0 .. (n - 1) : SeqAdd(s, k) \in Held
    <2> SUFFICES ASSUME NEW n \in Nat, n >= 1, inside(n), NEW k \in 0 .. (n - 1)
                 PROVE  SeqAdd(s, k) \in Held
      OBVIOUS
    <2>1. CASE k = 0
      BY <1>1, <1>2, <2>1
    <2>2. CASE k # 0
      BY <2>2 DEF Held
    <2> QED
      BY <2>1, <2>2
  <1>9. \A n \in Nat : n >= 1 /\ inside(n) => Position(s) + n <= StreamLen /\ n <= HeldBytes
    <2> SUFFICES ASSUME NEW n \in Nat, n >= 1, inside(n)
                 PROVE  Position(s) + n <= StreamLen /\ n <= HeldBytes
      OBVIOUS
    <2>1. \A k \in 0 .. (n - 1) : SeqAdd(s, k) \in Held
      BY <1>8
    <2> HIDE DEF inside
    <2>2. Position(s) + n <= StreamLen
      <3> SUFFICES ASSUME ~(Position(s) + n <= StreamLen)
                   PROVE  FALSE
        OBVIOUS
      <3> DEFINE k == StreamLen - Position(s)
      <3>1. k \in 0 .. (n - 1) /\ k \in Nat /\ Position(s) + k = StreamLen
        BY <1>1
      <3> HIDE DEF k
      <3>2. SeqAdd(s, k) \in Held /\ Position(SeqAdd(s, k)) = StreamLen
        BY <1>1, <2>1, <3>1, PosAdd
      <3> QED
        BY <1>1, <3>2
    <2>3. n <= HeldBytes
      <3>1. Position(s) + n < SeqMod
        BY <1>1, <2>2
      <3>2. IsFiniteSet(Run(s, n)) /\ Cardinality(Run(s, n)) = n
        BY <1>1, <3>1, RunIs
      <3>3. Run(s, n) \subseteq Held
        BY <2>1 DEF Run
      <3> QED
        BY <1>1, <3>2, <3>3, FS_Subset
    <2> QED
      BY <2>2, <2>3
  <1>10. ASSUME SeqAdd(s, size) \in Held, SeqAdd(s, size) \notin pieceStarts
         PROVE  FALSE
    <2>1. size + 1 \in Nat /\ (size + 1) - 1 = size
      BY <1>6
    <2>2. inside(size + 1)
      <3> SUFFICES ASSUME NEW k \in 1 .. size
                   PROVE  SeqAdd(s, k) \in Held /\ SeqAdd(s, k) \notin pieceStarts
        BY <2>1 DEF Held
      <3>1. CASE k = size
        BY <1>10, <3>1
      <3>2. CASE k # size
        <4>1. k \in 1 .. (size - 1)
          BY <1>6, <3>2
        <4> QED
          BY <1>6, <4>1 DEF Held
      <3> QED
        BY <3>1, <3>2
    <2>3. size + 1 <= HeldBytes
      BY <1>6, <1>9, <2>1, <2>2
    <2>4. size + 1 \in sizes
      <3>1. size + 1 \in 1 .. HeldBytes
        BY <1>1, <1>6, <2>3
      <3> QED
        BY <2>2, <3>1
    <2> HIDE DEF sizes
    <2> QED
      BY <1>5, <1>6, <2>4
  <1>11. /\ Position(s) + size <= StreamLen
         /\ \A k \in 0 .. (size - 1) : SeqAdd(s, k) \in Held
    BY <1>6, <1>8, <1>9
  <1>12. \A k \in 1 .. (size - 1) : SeqAdd(s, k) \notin pieceStarts
    BY <1>6
  <1> QED
    BY <1>6, <1>7, <1>10, <1>11, <1>12

\* What storeTCPOutOfOrder leaves on the scoreboard: the same promises as
\* before, over the old bytes and those of the segment inside its window; a
\* store without progress changes nothing.
LEMMA StoredSound ==
    ASSUME ReceiveTypes, FinInv, PromiseInv, ScoreboardInv, NextPos <= StreamLen,
           NEW s, StreamRange(s), NextPos <= Position(s.seq),
           NEW win \in Nat, win # 0 => NextPos + win <= EdgePos
    PROVE  /\ DOMAIN Stored(s, win).held \subseteq SeqNums
           /\ IsFiniteSet(DOMAIN Stored(s, win).held)
           /\ Stored(s, win).starts \subseteq DOMAIN Stored(s, win).held
           /\ Stored(s, win).fits => Cardinality(Stored(s, win).starts) <= MaxOutOfOrder
           /\ \A q \in DOMAIN Stored(s, win).held :
                /\ Stored(s, win).held[q] = Position(q)
                /\ NextPos <= Position(q) /\ Position(q) < EdgePos /\ Position(q) < StreamLen
                /\ Stored(s, win).finSeq # NoFin => Position(q) < Position(Stored(s, win).finSeq)
                /\ \/ q \in Stored(s, win).starts
                   \/ SeqSub(q, 1) \in DOMAIN Stored(s, win).held
           /\ Stored(s, win).finSeq \in SeqNums \cup {NoFin}
           /\ Stored(s, win).finSeq # NoFin =>
                /\ Position(Stored(s, win).finSeq) \in FinPositions
                /\ NextPos <= Position(Stored(s, win).finSeq)
           /\ ~Stored(s, win).progress => DOMAIN Stored(s, win).held = Held
           /\ s.data = <<>> => DOMAIN Stored(s, win).held \subseteq Held
  <1> DEFINE distance == SeqSub(s.seq, receiveNext)
             finEnd == SeqAdd(s.seq, Len(s.data))
             room == BytesInWindow(s, win)
             size == IF finSeq = NoFin \/ ~SeqGreater(SeqAdd(s.seq, room), finSeq) THEN room
                     ELSE IF SeqLess(s.seq, finSeq) THEN SeqSub(finSeq, s.seq) ELSE 0
             fin == /\ s.fin
                    /\ (distance = 0 /\ room = 0) \/ (distance + Len(s.data) < win)
                    /\ finSeq # NoFin => ~SeqGreater(finEnd, finSeq)
             newFin == IF fin THEN finEnd ELSE finSeq
             byteAt(q) == s.data[SeqSub(q, s.seq) + 1]
             new == {SeqAdd(s.seq, i) : i \in 0 .. (size - 1)} \ DOMAIN outOfOrder
             starts == {q \in new : q = s.seq \/ SeqSub(q, 1) \in DOMAIN outOfOrder}
             dom == {q \in DOMAIN outOfOrder \cup new :
                        newFin = NoFin \/ SeqSub(q, receiveNext) < SeqSub(newFin, receiveNext)}
             pieces == (pieceStarts \cup starts) \cap dom
             loneFin == newFin # NoFin /\ SeqSub(newFin, 1) \notin dom
             held == [q \in dom |-> IF q \in DOMAIN outOfOrder THEN outOfOrder[q] ELSE byteAt(q)]
             fits == /\ Cardinality(dom) <= HeldBytes + MaxOf(0, Available + quantumReserve)
                     /\ Cardinality(pieces) + (IF loneFin THEN 1 ELSE 0) <= MaxOutOfOrder
             progress == new # {} \/ fin
             inWindow == (distance < win) \/ (distance = 0 /\ s.data = <<>> /\ s.fin)
  <1>1. Stored(s, win) = [inWindow |-> inWindow, fits |-> fits, progress |-> progress,
                          held |-> held, starts |-> pieces, finSeq |-> newFin]
    BY DEF Stored
  <1>2. /\ s.seq \in SeqNums /\ s.data \in Seq(Nat) /\ s.fin \in BOOLEAN
        /\ Len(s.data) \in Nat /\ Position(s.seq) \in Nat
        /\ Position(s.seq) + Len(s.data) <= StreamLen
        /\ \A i \in 1 .. Len(s.data) : s.data[i] = Position(s.seq) + i - 1
        /\ s.fin => Position(s.seq) + Len(s.data) \in FinPositions
    BY PosIs, LenProperties DEF StreamRange
  <1>3. /\ receiveNext \in SeqNums /\ NextPos \in Nat /\ EdgePos \in Nat
        /\ StreamLen \in Nat /\ SeqMod \in Nat /\ StreamLen + 1 < SeqMod
        /\ MaxOutOfOrder \in Nat
    BY Near, HalfType, Stream, Capacities, WindowFits DEF ReceiveTypes
  <1>4. /\ Held \subseteq SeqNums /\ IsFiniteSet(Held) /\ pieceStarts \subseteq Held
        /\ \A q \in Held :
            /\ Position(q) \in Nat /\ outOfOrder[q] = Position(q)
            /\ NextPos <= Position(q) /\ Position(q) < EdgePos /\ Position(q) < StreamLen
            /\ finSeq # NoFin => Position(q) < Position(finSeq)
            /\ q \in pieceStarts \/ SeqSub(q, 1) \in Held
    BY PosIs DEF ScoreboardInv
  <1>5. distance = Position(s.seq) - NextPos
    BY <1>2, <1>3, PosSub DEF NextPos
  <1>6. /\ room \in Nat /\ room <= Len(s.data)
        /\ room > 0 => Position(s.seq) + room <= EdgePos
    <2> HIDE DEF distance
    <2>1. room = MinOf(Len(s.data), MaxOf(0, win - distance))
      BY DEF BytesInWindow, distance
    <2> HIDE DEF room
    <2>2. /\ Len(s.data) \in Nat /\ Position(s.seq) \in Nat /\ NextPos \in Nat /\ EdgePos \in Nat
          /\ distance \in Nat /\ distance = Position(s.seq) - NextPos /\ win \in Nat
          /\ win # 0 => NextPos + win <= EdgePos
      BY <1>2, <1>3, <1>5
    <2>3. CASE win <= distance
      BY <2>1, <2>2, <2>3 DEF MinOf, MaxOf
    <2>4. CASE win > distance /\ Len(s.data) <= win - distance
      BY <2>1, <2>2, <2>4 DEF MinOf, MaxOf
    <2>5. CASE win > distance /\ Len(s.data) > win - distance
      BY <2>1, <2>2, <2>5 DEF MinOf, MaxOf
    <2> QED
      BY <2>2, <2>3, <2>4, <2>5
  <1>7. finEnd \in SeqNums /\ Position(finEnd) = Position(s.seq) + Len(s.data)
    <2>1. Position(s.seq) + Len(s.data) < SeqMod
      BY <1>2, <1>3
    <2> QED
      BY <1>2, <2>1, PosAdd
  <1> HIDE DEF room, finEnd
  <1>8. size \in Nat /\ size <= room
    <2>1. CASE finSeq = NoFin \/ ~SeqGreater(SeqAdd(s.seq, room), finSeq)
      BY <1>6, <2>1
    <2>2. CASE ~(finSeq = NoFin \/ ~SeqGreater(SeqAdd(s.seq, room), finSeq))
      <3>1. finSeq \in SeqNums /\ Position(finSeq) <= StreamLen /\ Position(finSeq) \in Nat
        BY <2>2, PosIs, Stream DEF ReceiveTypes, FinInv
      <3>2. /\ SeqAdd(s.seq, room) \in SeqNums
            /\ Position(SeqAdd(s.seq, room)) = Position(s.seq) + room
            /\ Position(s.seq) + room < Half /\ Position(s.seq) < Half
            /\ Position(finSeq) < Half
        <4>1. Position(s.seq) + room <= StreamLen
          BY <1>2, <1>3, <1>6
        <4>2. Position(s.seq) + room < SeqMod /\ Position(s.seq) + room < Half
              /\ Position(s.seq) < Half /\ Position(finSeq) < Half
          <5>1. Position(s.seq) \in Nat /\ room \in Nat /\ Position(finSeq) \in Nat
                /\ Position(finSeq) <= StreamLen
            BY <1>2, <1>6, <3>1
          <5> QED
            BY <4>1, <5>1, StreamBelowHalf
        <4> QED
          BY <1>2, <1>6, <4>2, PosAdd
      <3>3. Position(finSeq) < Position(s.seq) + room
        BY <2>2, <3>1, <3>2, PosLess
      <3>4. CASE SeqLess(s.seq, finSeq)
        <4>1. Position(s.seq) < Position(finSeq)
          BY <1>2, <3>1, <3>2, <3>4, PosLess
        <4>2. SeqSub(finSeq, s.seq) = Position(finSeq) - Position(s.seq)
          BY <1>2, <3>1, <4>1, PosSub
        <4>3. size = SeqSub(finSeq, s.seq)
          BY <2>2, <3>4
        <4> HIDE DEF size
        <4> QED
          BY <1>2, <1>6, <3>1, <3>3, <4>1, <4>2, <4>3
      <3>5. CASE ~SeqLess(s.seq, finSeq)
        BY <1>6, <2>2, <3>5
      <3> QED
        BY <3>4, <3>5
    <2> QED
      BY <2>1, <2>2
  <1> HIDE DEF size
  <1>9. new = Run(s.seq, size) \ Held
    BY DEF Run, Held
  <1> HIDE DEF new
  <1>10. /\ new \subseteq SeqNums /\ IsFiniteSet(new)
         /\ \A q \in SeqNums : q \in new <=>
                /\ Position(s.seq) <= Position(q) /\ Position(q) < Position(s.seq) + size
                /\ q \notin Held
    <2>1. Position(s.seq) + size < SeqMod
      BY <1>2, <1>3, <1>6, <1>8
    <2>2. /\ Run(s.seq, size) \subseteq SeqNums /\ IsFiniteSet(Run(s.seq, size))
          /\ \A q \in SeqNums : q \in Run(s.seq, size) <=>
                Position(s.seq) <= Position(q) /\ Position(q) < Position(s.seq) + size
      BY <1>2, <1>8, <2>1, RunIs
    <2> QED
      BY <1>9, <2>2, FS_Difference
  <1>11. \A q \in new : /\ Position(q) \in Nat /\ NextPos <= Position(q)
                        /\ Position(q) < EdgePos /\ Position(q) < StreamLen
                        /\ Position(q) < Position(s.seq) + Len(s.data)
    <2> TAKE q \in new
    <2>1. /\ q \in SeqNums /\ Position(q) \in Nat
          /\ Position(s.seq) <= Position(q) /\ Position(q) < Position(s.seq) + size
      BY <1>10, PosIs
    <2>2. /\ Len(s.data) \in Nat /\ Position(s.seq) \in Nat /\ NextPos \in Nat /\ EdgePos \in Nat
          /\ StreamLen \in Nat /\ Position(s.seq) + Len(s.data) <= StreamLen
          /\ room \in Nat /\ size \in Nat /\ size <= room /\ room <= Len(s.data)
          /\ room > 0 => Position(s.seq) + room <= EdgePos
      BY <1>2, <1>3, <1>6, <1>8
    <2> QED
      BY <2>1, <2>2
  <1>12. \A q \in new : byteAt(q) = Position(q)
    <2> TAKE q \in new
    <2>1. q \in SeqNums /\ Position(s.seq) <= Position(q)
      BY <1>10
    <2>2. SeqSub(q, s.seq) = Position(q) - Position(s.seq)
      BY <1>2, <2>1, PosSub
    <2> DEFINE i == SeqSub(q, s.seq) + 1
    <2>3. i \in 1 .. Len(s.data) /\ Position(s.seq) + i - 1 = Position(q)
      BY <1>2, <1>11, <2>1, <2>2
    <2>4. byteAt(q) = s.data[i]
      OBVIOUS
    <2> HIDE DEF i, byteAt
    <2> QED
      BY <1>2, <2>3, <2>4
  <1>13. /\ newFin \in SeqNums \cup {NoFin}
         /\ newFin # NoFin => /\ Position(newFin) \in FinPositions /\ Position(newFin) \in Nat
                              /\ NextPos <= Position(newFin) /\ newFin \in SeqNums
         /\ ~fin => newFin = finSeq
    <2>1. CASE fin
      <3>1. newFin = finEnd /\ s.fin
        BY <2>1
      <3> HIDE DEF fin, newFin
      <3> QED
        BY <1>2, <1>3, <1>7, <2>1, <3>1
    <2>2. CASE ~fin
      <3>1. newFin = finSeq
        BY <2>2
      <3> HIDE DEF fin, newFin
      <3> QED
        BY <2>2, <3>1, PosIs DEF ReceiveTypes, FinInv
    <2> QED
      BY <2>1, <2>2
  <1> HIDE DEF fin, newFin
  <1> DEFINE before(q) == newFin = NoFin \/ SeqSub(q, receiveNext) < SeqSub(newFin, receiveNext)
  <1>14. \A q \in Held \cup new : /\ q \in SeqNums /\ Position(q) \in Nat
                                  /\ NextPos <= Position(q) /\ Position(q) < EdgePos
                                  /\ Position(q) < StreamLen
    BY <1>4, <1>10, <1>11
  <1>15. \A q \in SeqNums : NextPos <= Position(q) =>
            (before(q) <=> (newFin # NoFin => Position(q) < Position(newFin)))
    <2> TAKE q \in SeqNums
    <2> HAVE NextPos <= Position(q)
    <2>1. Position(q) \in Nat /\ SeqSub(q, receiveNext) = Position(q) - NextPos
      BY <1>3, PosSub, PosIs DEF NextPos
    <2>2. newFin # NoFin => SeqSub(newFin, receiveNext) = Position(newFin) - NextPos
      BY <1>3, <1>13, PosSub DEF NextPos
    <2> QED
      BY <1>3, <1>13, <2>1, <2>2
  <1>16. dom = {q \in Held \cup new : before(q)}
    BY DEF Held
  <1>17. /\ dom \subseteq SeqNums /\ IsFiniteSet(dom) /\ dom \subseteq Held \cup new
    <2>1. dom \subseteq Held \cup new
      BY <1>16
    <2>2. IsFiniteSet(Held \cup new)
      BY <1>4, <1>10, FS_Union
    <2> HIDE DEF dom
    <2> QED
      BY <1>14, <2>1, <2>2, FS_Subset
  <1>18. starts = {q \in new : q = s.seq \/ SeqSub(q, 1) \in Held}
    BY DEF Held
  <1> HIDE DEF dom, before
  <1>19. ASSUME NEW q \in dom
         PROVE  q \in pieces \/ SeqSub(q, 1) \in dom
    <2>1. /\ q \in SeqNums /\ Position(q) \in Nat /\ NextPos <= Position(q)
          /\ q \in Held \cup new /\ before(q)
      BY <1>14, <1>16, <1>17
    <2>2. ASSUME SeqSub(q, 1) \in Held \cup new, Position(q) > 0
          PROVE  SeqSub(q, 1) \in dom
      <3>1. SeqSub(q, 1) \in SeqNums /\ Position(SeqSub(q, 1)) = Position(q) - 1
            /\ NextPos <= Position(SeqSub(q, 1))
        BY <1>14, <2>1, <2>2, PosPrev
      <3>2. newFin # NoFin => Position(q) < Position(newFin)
        BY <1>15, <2>1
      <3>3. before(SeqSub(q, 1))
        BY <1>13, <1>15, <2>1, <3>1, <3>2
      <3> QED
        BY <1>16, <2>2, <3>3
    <2>3. CASE q \in Held
      <3>1. CASE q \in pieceStarts
        BY <3>1
      <3>2. CASE SeqSub(q, 1) \in Held
        <4>1. Position(q) > 0
          <5> SUFFICES ASSUME Position(q) = 0
                       PROVE  FALSE
            BY <2>1
          <5>1. Position(SeqSub(q, 1)) = SeqMod - 1
            BY <2>1, PosBeforeISN
          <5> QED
            BY <1>3, <1>4, <3>2, <5>1
        <4> QED
          BY <2>2, <3>2, <4>1
      <3> QED
        BY <1>4, <2>3, <3>1, <3>2
    <2>4. CASE q \in new
      <3>1. CASE q = s.seq
        BY <1>18, <2>4, <3>1
      <3>2. CASE q # s.seq
        <4>1. Position(s.seq) < Position(q) /\ Position(q) < Position(s.seq) + size
          <5>1. Position(s.seq) # Position(q)
            BY <1>2, <2>1, <3>2, PosInjective
          <5> QED
            BY <1>2, <1>10, <2>1, <2>4, <5>1
        <4>2. SeqSub(q, 1) \in SeqNums /\ Position(SeqSub(q, 1)) = Position(q) - 1
              /\ Position(q) > 0
          BY <1>2, <2>1, <4>1, PosPrev
        <4>3. CASE SeqSub(q, 1) \in Held
          BY <2>2, <4>2, <4>3
        <4>4. CASE SeqSub(q, 1) \notin Held
          <5>1. SeqSub(q, 1) \in new
            BY <1>2, <1>8, <1>10, <2>1, <4>1, <4>2, <4>4
          <5> QED
            BY <2>2, <4>2, <5>1
        <4> QED
          BY <4>3, <4>4
      <3> QED
        BY <3>1, <3>2
    <2> QED
      BY <2>1, <2>3, <2>4
  <1>20. \A q \in dom : held[q] = Position(q)
    <2> TAKE q \in dom
    <2>1. CASE q \in Held
      BY <1>4, <2>1 DEF Held
    <2>2. CASE q \notin Held
      <3>1. q \in new
        BY <1>17, <2>2
      <3>2. held[q] = byteAt(q)
        BY <2>2 DEF Held
      <3> HIDE DEF held, byteAt
      <3> QED
        BY <1>12, <3>1, <3>2
    <2> QED
      BY <2>1, <2>2
  <1>21. DOMAIN held = dom
    OBVIOUS
  <1>22. IsFiniteSet(pieces) /\ pieces \subseteq dom /\ Cardinality(pieces) \in Nat
    <2>1. pieces \subseteq dom
      OBVIOUS
    <2> HIDE DEF pieces
    <2> QED
      BY <1>17, <2>1, FS_Subset, FS_CardinalityType
  <1> HIDE DEF held, pieces
  <1>23. fits => Cardinality(pieces) <= MaxOutOfOrder
    <2> SUFFICES ASSUME fits
                 PROVE  Cardinality(pieces) <= MaxOutOfOrder
      OBVIOUS
    <2>1. Cardinality(pieces) + (IF loneFin THEN 1 ELSE 0) <= MaxOutOfOrder
      OBVIOUS
    <2> HIDE DEF loneFin, fits
    <2> QED
      BY <1>3, <1>22, <2>1
  <1>24. ~progress => dom = Held
    <2> SUFFICES ASSUME ~progress
                 PROVE  dom = Held
      OBVIOUS
    <2>1. new = {} /\ newFin = finSeq
      BY <1>13
    <2>2. \A q \in Held : before(q)
      BY <1>4, <1>15, <2>1
    <2> QED
      BY <1>16, <2>1, <2>2
  <1>25. s.data = <<>> => dom \subseteq Held
    <2> SUFFICES ASSUME s.data = <<>>
                 PROVE  dom \subseteq Held
      OBVIOUS
    <2>1. Len(s.data) = 0
      BY EmptySeq
    <2>2. new = {}
      BY <1>2, <1>10, <1>11, <2>1
    <2> QED
      BY <1>17, <2>2
  <1> HIDE DEF fits, progress, inWindow
  <1>26. /\ Stored(s, win).held = held /\ Stored(s, win).starts = pieces
         /\ Stored(s, win).finSeq = newFin
    BY <1>1
  <1>27. Stored(s, win).fits => fits
    BY <1>1
  <1>28. ~Stored(s, win).progress => ~progress
    BY <1>1
  <1>29. \A q \in dom : newFin # NoFin => Position(q) < Position(newFin)
    BY <1>14, <1>15, <1>16
  <1>30. \A q \in dom : NextPos <= Position(q) /\ Position(q) < EdgePos /\ Position(q) < StreamLen
    BY <1>14, <1>17
  <1> QED
    BY <1>13, <1>17, <1>19, <1>20, <1>21, <1>22, <1>23, <1>24, <1>25, <1>26, <1>27, <1>28,
       <1>29, <1>30

(* Application calls. *)

LEMMA ReadStep ==
    ASSUME IndInv, NEW n \in 1 .. StreamLen, Read(n)
    PROVE  IndInv'
  <1>1. /\ UNCHANGED <<receiveNext, outOfOrder, pieceStarts, finSeq>>
        /\ UNCHANGED <<right, quantumReserve, lastAdvertisedWindow>>
        /\ UNCHANGED <<capacity, receiveAutoTune, readClosed, userClosed, aborted>>
        /\ UNCHANGED <<remoteFINReceived, unread, ackPending, discarded, readErr, terminated>>
        /\ UNCHANGED <<pc, job>>
        /\ wakeWindow' = TRUE /\ ~Discarding
    BY DEF Read, asmVars, winVars, sockVars
  <1>2. /\ NextPos' = NextPos /\ EdgePos' = EdgePos /\ Held' = Held
        /\ AfterFin' = AfterFin /\ Closed' = Closed /\ Discarding' = Discarding
        /\ NewSegment' = NewSegment /\ HeldBytes' = HeldBytes
    BY <1>1 DEF NextPos, EdgePos, Held, AfterFin, Closed, Discarding, NewSegment, HeldBytes
  <1>3. /\ readBuffer \in Seq(Nat) /\ consumed \in Seq(Nat) /\ Len(readBuffer) \in Nat
        /\ Len(consumed) \in Nat
        /\ n \in Nat /\ n >= 1 /\ n <= Len(readBuffer)
        /\ consumed' = consumed \o SubSeq(readBuffer, 1, n)
        /\ readBuffer' = SubSeq(readBuffer, n + 1, Len(readBuffer))
    BY Stream, LenProperties DEF Read, IndInv, ReceiveTypes
  <1>4. /\ SubSeq(readBuffer, 1, n) \in Seq(Nat) /\ Len(SubSeq(readBuffer, 1, n)) = n
        /\ \A i \in 1 .. n : SubSeq(readBuffer, 1, n)[i] = readBuffer[i]
    BY <1>3, PrefixOf
  <1>5. /\ readBuffer' \in Seq(Nat) /\ Len(readBuffer') = Len(readBuffer) - n
        /\ \A i \in 1 .. Len(readBuffer') : readBuffer'[i] = readBuffer[n + i]
    BY <1>3, SuffixOf
  <1>6. /\ consumed' \in Seq(Nat) /\ Len(consumed') = Len(consumed) + n
        /\ \A i \in 1 .. Len(consumed') : i <= Len(consumed) => consumed'[i] = consumed[i]
        /\ \A i \in 1 .. Len(consumed') : i > Len(consumed) =>
                consumed'[i] = readBuffer[i - Len(consumed)]
    <2> DEFINE b == SubSeq(readBuffer, 1, n)
    <2>1. b \in Seq(Nat) /\ Len(b) = n /\ \A i \in 1 .. n : b[i] = readBuffer[i]
      BY <1>4
    <2>2. consumed' = consumed \o b
      BY <1>3
    <2> HIDE DEF b
    <2>3. /\ consumed' \in Seq(Nat) /\ Len(consumed') = Len(consumed) + Len(b)
          /\ \A i \in 1 .. Len(consumed') : i <= Len(consumed) => consumed'[i] = consumed[i]
          /\ \A i \in 1 .. Len(consumed') : i > Len(consumed) =>
                i - Len(consumed) \in 1 .. Len(b) /\ consumed'[i] = b[i - Len(consumed)]
      <3>1. consumed \in Seq(Nat) /\ b \in Seq(Nat)
        BY <1>3, <2>1
      <3>2. /\ consumed \o b \in Seq(Nat) /\ Len(consumed \o b) = Len(consumed) + Len(b)
            /\ \A i \in 1 .. Len(consumed \o b) :
                i <= Len(consumed) => (consumed \o b)[i] = consumed[i]
            /\ \A i \in 1 .. Len(consumed \o b) : i > Len(consumed) =>
                i - Len(consumed) \in 1 .. Len(b)
                /\ (consumed \o b)[i] = b[i - Len(consumed)]
        BY <3>1, AppendedIs
      <3> QED
        BY <2>2, <3>2
    <2> QED
      BY <2>1, <2>3
  <1>7. ReceiveTypes'
    BY <1>1, <1>5, <1>6 DEF IndInv, ReceiveTypes
  <1>8. FlagTypes'
    BY <1>1 DEF IndInv, FlagTypes
  <1>9. JobInv'
    BY <1>1, <1>2 DEF IndInv, JobInv
  <1>10. DeliveryInv'
    <2>1. \A i \in 1 .. Len(consumed') : consumed'[i] = i - 1
      <3> TAKE i \in 1 .. Len(consumed')
      <3>1. CASE i <= Len(consumed)
        BY <1>3, <1>6, <3>1 DEF IndInv, DeliveryInv
      <3>2. CASE i > Len(consumed)
        <4>1. i - Len(consumed) \in 1 .. Len(readBuffer)
          BY <1>3, <1>6, <3>2
        <4> QED
          BY <1>3, <1>6, <3>2, <4>1 DEF IndInv, DeliveryInv
      <3> QED
        BY <1>3, <1>6, <3>1, <3>2
    <2>2. \A i \in 1 .. Len(readBuffer') : readBuffer'[i] = Len(consumed') + i - 1
      <3> TAKE i \in 1 .. Len(readBuffer')
      <3>1. n + i \in 1 .. Len(readBuffer)
        BY <1>3, <1>5
      <3>2. readBuffer[n + i] = Len(consumed) + (n + i) - 1
        BY <3>1 DEF IndInv, DeliveryInv
      <3> QED
        BY <1>3, <1>5, <1>6, <3>1, <3>2
    <2>5. Len(consumed') + Len(readBuffer') = Len(consumed) + Len(readBuffer)
      <3>1. Len(consumed') = Len(consumed) + n /\ Len(readBuffer') = Len(readBuffer) - n
            /\ Len(consumed) \in Nat /\ Len(readBuffer) \in Nat /\ n \in Nat
        BY <1>3, <1>5, <1>6
      <3> QED
        BY <3>1
    <2>3. ~Discarding /\ ~AfterFin => NextPos = Len(consumed') + Len(readBuffer')
      BY <2>5 DEF IndInv, DeliveryInv
    <2>4. ~Discarding /\ AfterFin => NextPos = Len(consumed') + Len(readBuffer') + 1
      BY <2>5 DEF IndInv, DeliveryInv
    <2> QED
      BY <1>1, <1>2, <2>1, <2>2, <2>3, <2>4 DEF DeliveryInv
  <1>11. FinInv'
    BY <1>1, <1>2 DEF IndInv, FinInv
  <1>12. ScoreboardInv'
    BY <1>1, <1>2 DEF IndInv, ScoreboardInv
  <1>13. StuckInv'
    BY <1>1 DEF StuckInv
  <1>14. PromiseInv'
    <2>1. Len(readBuffer') <= Len(readBuffer) /\ Len(readBuffer') \in Nat
      BY <1>3, <1>5
    <2>2. NextPos \in Nat /\ EdgePos \in Nat /\ capacity \in Nat /\ quantumReserve \in Nat
      BY Near, Capacities, WindowFits DEF IndInv, ReceiveTypes
    <2> QED
      BY <1>1, <1>2, <1>3, <2>1, <2>2 DEF IndInv, PromiseInv
  <1>15. UnreadInv'
    BY <1>1, <1>2 DEF IndInv, UnreadInv
  <1>16. DiscardInv'
    BY <1>1, <1>2 DEF IndInv, DiscardInv
  <1> QED
    BY <1>7, <1>8, <1>9, <1>10, <1>11, <1>12, <1>13, <1>14, <1>15, <1>16 DEF IndInv

LEMMA CloseReadStep ==
    ASSUME IndInv, CloseRead
    PROVE  IndInv'
  <1>1. /\ UNCHANGED <<receiveNext, outOfOrder, pieceStarts, finSeq>>
        /\ UNCHANGED <<right, quantumReserve, lastAdvertisedWindow>>
        /\ UNCHANGED <<capacity, receiveAutoTune, userClosed, aborted, consumed>>
        /\ UNCHANGED <<remoteFINReceived, unread, ackPending, discarded, terminated>>
        /\ UNCHANGED <<pc, job>>
        /\ wakeWindow' = TRUE /\ readClosed' = TRUE /\ Discarding'
        /\ readClosed => readBuffer' = readBuffer /\ readErr' = readErr
        /\ ~readClosed => readBuffer' = <<>> /\ readErr' = "closed"
    BY DEF CloseRead, asmVars, winVars, Discarding
  <1>2. /\ NextPos' = NextPos /\ EdgePos' = EdgePos /\ Held' = Held
        /\ AfterFin' = AfterFin /\ Closed' = Closed
        /\ NewSegment' = NewSegment /\ HeldBytes' = HeldBytes
    BY <1>1 DEF NextPos, EdgePos, Held, AfterFin, Closed, NewSegment, HeldBytes
  <1>3. /\ readBuffer' = <<>> /\ readErr' \in {"closed", "failed"}
        /\ <<>> \in Seq(Nat) /\ Len(<<>>) = 0
    BY <1>1, EmptySeq DEF IndInv, DeliveryInv, FinInv, Discarding
  <1>7. ReceiveTypes'
    BY <1>1, <1>3 DEF IndInv, ReceiveTypes
  <1>8. FlagTypes'
    BY <1>1, <1>3 DEF IndInv, FlagTypes
  <1>9. JobInv'
    BY <1>1, <1>2 DEF IndInv, JobInv
  <1>10. DeliveryInv'
    BY <1>1, <1>3 DEF IndInv, DeliveryInv
  <1>11. FinInv'
    BY <1>1, <1>2, <1>3 DEF IndInv, FinInv
  <1>12. ScoreboardInv'
    BY <1>1, <1>2 DEF IndInv, ScoreboardInv
  <1>13. StuckInv'
    BY <1>1 DEF StuckInv
  <1>14. PromiseInv'
    BY <1>1, <1>2 DEF IndInv, PromiseInv
  <1>15. UnreadInv'
    BY <1>1, <1>2 DEF IndInv, UnreadInv
  <1>16. DiscardInv'
    BY <1>1, <1>2 DEF IndInv, DiscardInv
  <1> QED
    BY <1>7, <1>8, <1>9, <1>10, <1>11, <1>12, <1>13, <1>14, <1>15, <1>16 DEF IndInv

\* Close is graceful only if the count it reads covers every held byte that no
\* handler of a new segment will answer for.
LEMMA CloseStep ==
    ASSUME IndInv, NEW l \in LingerZero, Close(l)
    PROVE  IndInv'
  <1>1. /\ UNCHANGED <<receiveNext, outOfOrder, pieceStarts, finSeq>>
        /\ UNCHANGED <<right, quantumReserve, lastAdvertisedWindow>>
        /\ UNCHANGED <<capacity, receiveAutoTune, readClosed, consumed>>
        /\ UNCHANGED <<remoteFINReceived, unread, ackPending, discarded, terminated>>
        /\ UNCHANGED <<pc, job, wakeWindow>>
        /\ userClosed' = TRUE /\ userClosed = FALSE /\ Discarding'
        /\ readBuffer' = <<>> /\ readErr' = "closed"
        /\ aborted' \in BOOLEAN /\ (aborted => aborted') /\ (~aborted' => unread = 0)
        /\ <<>> \in Seq(Nat) /\ Len(<<>>) = 0
    BY EmptySeq
       DEF Close, CloseIsAbortive, asmVars, winVars, Discarding, IndInv, FlagTypes
  <1>2. /\ NextPos' = NextPos /\ EdgePos' = EdgePos /\ Held' = Held
        /\ AfterFin' = AfterFin /\ Closed' = Closed
        /\ NewSegment' = NewSegment /\ HeldBytes' = HeldBytes
    BY <1>1 DEF NextPos, EdgePos, Held, AfterFin, Closed, NewSegment, HeldBytes
  <1>7. ReceiveTypes'
    BY <1>1 DEF IndInv, ReceiveTypes
  <1>8. FlagTypes'
    BY <1>1 DEF IndInv, FlagTypes
  <1>9. JobInv'
    BY <1>1, <1>2 DEF IndInv, JobInv
  <1>10. DeliveryInv'
    BY <1>1 DEF IndInv, DeliveryInv
  <1>11. FinInv'
    BY <1>1, <1>2 DEF IndInv, FinInv
  <1>12. ScoreboardInv'
    BY <1>1, <1>2 DEF IndInv, ScoreboardInv
  <1>13. StuckInv'
    BY <1>1 DEF StuckInv
  <1>14. PromiseInv'
    BY <1>1, <1>2 DEF IndInv, PromiseInv
  <1>15. UnreadInv'
    BY <1>1, <1>2 DEF IndInv, UnreadInv
  <1>16. DiscardInv'
    <2>1. unread = 0 /\ ~terminated =>
            Held = {} \/ (NewSegment /\ pc \in {"publish", "promote", "promoted", "finish"})
      <3>1. HeldBytes = 0 => Held = {}
        BY FS_EmptySet DEF HeldBytes, Held, IndInv, ScoreboardInv
      <3> QED
        BY <3>1 DEF IndInv, UnreadInv, JobInv
    <2>2. discarded => aborted \/ terminated
      BY <1>1 DEF IndInv, DiscardInv
    <2> QED
      BY <1>1, <1>2, <2>1, <2>2 DEF IndInv, DiscardInv
  <1> QED
    BY <1>7, <1>8, <1>9, <1>10, <1>11, <1>12, <1>13, <1>14, <1>15, <1>16 DEF IndInv

LEMMA SetReadBufferStep ==
    ASSUME IndInv, NEW b \in ReadBufferSizes, SetReadBuffer(b)
    PROVE  IndInv'
  <1>1. /\ UNCHANGED <<receiveNext, outOfOrder, pieceStarts, finSeq>>
        /\ UNCHANGED <<right, quantumReserve, lastAdvertisedWindow>>
        /\ UNCHANGED <<readBuffer, consumed, discarded>>
        /\ UNCHANGED <<readClosed, userClosed, aborted, readErr>>
        /\ UNCHANGED <<remoteFINReceived, unread, ackPending, terminated>>
        /\ UNCHANGED <<pc, job>>
        /\ wakeWindow' = TRUE /\ receiveAutoTune' = FALSE /\ capacity' \in 1 .. MaxCapacity
    BY Capacities DEF SetReadBuffer, asmVars, winVars, bufVars
  <1>2. /\ NextPos' = NextPos /\ EdgePos' = EdgePos /\ Held' = Held
        /\ AfterFin' = AfterFin /\ Closed' = Closed /\ Discarding' = Discarding
        /\ NewSegment' = NewSegment /\ HeldBytes' = HeldBytes
    BY <1>1 DEF NextPos, EdgePos, Held, AfterFin, Closed, NewSegment, HeldBytes, Discarding
  <1>7. ReceiveTypes'
    BY <1>1 DEF IndInv, ReceiveTypes
  <1>8. FlagTypes'
    BY <1>1 DEF IndInv, FlagTypes
  <1>9. JobInv'
    BY <1>1, <1>2 DEF IndInv, JobInv
  <1>10. DeliveryInv'
    BY <1>1, <1>2 DEF IndInv, DeliveryInv
  <1>11. FinInv'
    BY <1>1, <1>2 DEF IndInv, FinInv
  <1>12. ScoreboardInv'
    BY <1>1, <1>2 DEF IndInv, ScoreboardInv
  <1>13. StuckInv'
    BY <1>1 DEF StuckInv
  <1>14. PromiseInv'
    BY <1>1, <1>2 DEF IndInv, PromiseInv
  <1>15. UnreadInv'
    BY <1>1, <1>2 DEF IndInv, UnreadInv
  <1>16. DiscardInv'
    BY <1>1, <1>2 DEF IndInv, DiscardInv
  <1> QED
    BY <1>7, <1>8, <1>9, <1>10, <1>11, <1>12, <1>13, <1>14, <1>15, <1>16 DEF IndInv

(* The actor's steps. *)

LEMMA JobIs ==
    ASSUME JobInv, pc # "idle"
    PROVE  /\ job.kind \in {"segment", "wake"} /\ job.closed \in BOOLEAN
           /\ job.kind = "segment" =>
                /\ job \in SegmentJobs /\ job.seg \in PeerSegments /\ job.win \in Nat
                /\ job.new \in BOOLEAN
           /\ job.kind = "wake" => job \in WakeJobs
  <1>1. CASE job \in SegmentJobs
    BY <1>1 DEF SegmentJobs
  <1>2. CASE job \in WakeJobs
    BY <1>2 DEF WakeJobs
  <1> QED
    BY <1>1, <1>2 DEF JobInv

\* Setting job.closed changes nothing else of the locals.
LEMMA JobClosing ==
    ASSUME JobInv, pc # "idle", NEW c \in BOOLEAN, job' = [job EXCEPT !.closed = c]
    PROVE  /\ job' \in SegmentJobs \cup WakeJobs
           /\ job'.kind = job.kind /\ job'.closed = c
           /\ NewSegment' = NewSegment
  <1>1. CASE job \in SegmentJobs
    BY <1>1 DEF SegmentJobs, NewSegment
  <1>2. CASE job \in WakeJobs
    BY <1>2 DEF WakeJobs, NewSegment
  <1> QED
    BY <1>1, <1>2 DEF JobInv

LEMMA IdleIs ==
    ASSUME JobInv, pc = "idle"
    PROVE  ~Closed /\ ~NewSegment /\ job.kind = "none"
  BY DEF JobInv, NoJob, Closed, NewSegment

\* Nothing is held when no byte is.
LEMMA HeldNone ==
    ASSUME IsFiniteSet(Held)
    PROVE  HeldBytes \in Nat /\ (HeldBytes = 0 <=> Held = {})
  BY FS_EmptySet, FS_CardinalityType DEF HeldBytes, Held

LEMMA AdmitSegmentStep ==
    ASSUME IndInv, NEW s \in PeerSegments, AdmitSegment(s)
    PROVE  IndInv'
  <1>1. /\ UNCHANGED <<receiveNext, outOfOrder, pieceStarts, finSeq>>
        /\ UNCHANGED <<right, quantumReserve, lastAdvertisedWindow>>
        /\ UNCHANGED <<readBuffer, consumed, discarded>>
        /\ UNCHANGED <<capacity, receiveAutoTune, readClosed, userClosed, aborted>>
        /\ UNCHANGED <<remoteFINReceived, unread, ackPending, readErr, terminated, wakeWindow>>
        /\ pc = "idle" /\ pc' = "receive" /\ ~terminated
    BY DEF AdmitSegment, asmVars, winVars, bufVars, sockVars
  <1> DEFINE beyond == s.data # <<>> /\ SeqGreater(SeqAdd(s.seq, Len(s.data)), receiveNext)
  <1>2. /\ WindowSize \in Nat
        /\ WindowSize # 0 => NextPos + WindowSize <= EdgePos
    <2>1. /\ WindowSize \in Nat
          /\ EdgePos >= NextPos => WindowSize = EdgePos - NextPos
          /\ EdgePos < NextPos => WindowSize = 0
          /\ NextPos \in Nat /\ EdgePos \in Nat
      BY WindowSizeIs, Near DEF IndInv
    <2> QED
      BY <2>1
  <1>3. beyond <=> s.data # <<>> /\ Position(s.seq) + Len(s.data) > NextPos
    <2>1. /\ s.seq \in SeqNums /\ Len(s.data) \in Nat /\ Position(s.seq) \in Nat
          /\ Position(s.seq) + Len(s.data) <= StreamLen
      BY PeerSegmentRange, PosIs, LenProperties DEF StreamRange
    <2>2. Position(s.seq) + Len(s.data) < Half /\ Position(s.seq) + Len(s.data) < SeqMod
      BY <2>1, HalfType, Stream, Capacities, WindowFits
    <2>3. /\ SeqAdd(s.seq, Len(s.data)) \in SeqNums
          /\ Position(SeqAdd(s.seq, Len(s.data))) = Position(s.seq) + Len(s.data)
      BY <2>1, <2>2, PosAdd
    <2>4. receiveNext \in SeqNums /\ NextPos \in Nat /\ NextPos < Half
      BY Near DEF IndInv, ReceiveTypes
    <2>5. SeqGreater(SeqAdd(s.seq, Len(s.data)), receiveNext)
            <=> NextPos < Position(s.seq) + Len(s.data)
      BY <2>2, <2>3, <2>4, PosLess DEF NextPos
    <2> QED
      BY <2>1, <2>4, <2>5
  <1>4. beyond \in BOOLEAN
    OBVIOUS
  <1>5. job' = [kind |-> "segment", seg |-> s, win |-> WindowSize, closed |-> FALSE,
                new |-> beyond]
    BY DEF AdmitSegment
  <1> HIDE DEF beyond
  <1>6. /\ job' \in SegmentJobs /\ job'.kind = "segment" /\ job'.seg = s /\ ~job'.closed
        /\ job'.win = WindowSize /\ job'.new = beyond
    BY <1>2, <1>4, <1>5 DEF SegmentJobs
  <1>7. ~Closed' /\ ~Closed /\ ~NewSegment
    BY <1>1, <1>6, IdleIs DEF Closed, IndInv
  <1>8. /\ NextPos' = NextPos /\ EdgePos' = EdgePos /\ Held' = Held
        /\ AfterFin' = AfterFin /\ Discarding' = Discarding
        /\ HeldBytes' = HeldBytes /\ Available' = Available
    BY <1>1, <1>7 DEF NextPos, EdgePos, Held, AfterFin, HeldBytes, Discarding, Available
  <1>9. ReceiveTypes'
    BY <1>1 DEF IndInv, ReceiveTypes
  <1>10. FlagTypes'
    BY <1>1 DEF IndInv, FlagTypes
  <1>11. JobInv'
    BY <1>1, <1>2, <1>3, <1>6, <1>7, <1>8 DEF IndInv, JobInv
  <1>12. DeliveryInv'
    BY <1>1, <1>8 DEF IndInv, DeliveryInv
  <1>13. FinInv'
    BY <1>1, <1>8 DEF IndInv, FinInv
  <1>14. ScoreboardInv'
    BY <1>1, <1>8 DEF IndInv, ScoreboardInv
  <1>15. StuckInv'
    BY <1>1, <1>8 DEF IndInv, StuckInv
  <1>16. PromiseInv'
    BY <1>1, <1>8 DEF IndInv, PromiseInv
  <1>17. UnreadInv'
    BY <1>1, <1>8 DEF IndInv, UnreadInv
  <1>18. DiscardInv'
    BY <1>1, <1>7, <1>8 DEF IndInv, DiscardInv
  <1> QED
    BY <1>9, <1>10, <1>11, <1>12, <1>13, <1>14, <1>15, <1>16, <1>17, <1>18 DEF IndInv

\* A published segment carries the window NextWindow computes.
LEMMA CommitStep ==
    ASSUME IndInv, CommitWindow, pc \in {"idle", "receive"}, ackPending' \in BOOLEAN,
           UNCHANGED <<asmVars, remoteFINReceived, unread, bufVars, sockVars, readErr,
                       terminated, wakeWindow, pc, job>>
    PROVE  IndInv' /\ EdgePos' >= EdgePos
  <1>1. /\ UNCHANGED <<receiveNext, outOfOrder, pieceStarts, finSeq>>
        /\ UNCHANGED <<readBuffer, consumed, discarded>>
        /\ UNCHANGED <<capacity, receiveAutoTune, readClosed, userClosed, aborted>>
        /\ UNCHANGED <<remoteFINReceived, unread, readErr, terminated, wakeWindow>>
        /\ UNCHANGED <<pc, job>>
    BY DEF asmVars, bufVars, sockVars
  <1>2. /\ right' \in SeqNums /\ quantumReserve' \in 0 .. (Quantum - 1)
        /\ lastAdvertisedWindow' \in Nat
        /\ EdgePos' >= EdgePos /\ EdgePos' <= StreamLen + 1 + MaxWindow + Quantum
        /\ quantumReserve' <= quantumReserve \/ Available > 0
        /\ EdgePos' > NextPos =>
                \/ right' = right /\ quantumReserve' = quantumReserve
                \/ EdgePos' - NextPos <= Available + quantumReserve'
    BY NextWindowSound DEF CommitWindow, EdgePos, IndInv
  <1>3. /\ NextPos' = NextPos /\ Held' = Held
        /\ AfterFin' = AfterFin /\ Closed' = Closed /\ Discarding' = Discarding
        /\ HeldBytes' = HeldBytes /\ Available' = Available /\ NewSegment' = NewSegment
    BY <1>1 DEF NextPos, Held, AfterFin, Closed, HeldBytes, Discarding, Available, NewSegment
  <1>4. /\ NextPos \in Nat /\ EdgePos \in Nat /\ EdgePos' \in Nat /\ Available \in Int
        /\ HeldBytes \in Nat /\ Len(readBuffer) \in Nat /\ capacity \in Nat
        /\ quantumReserve \in Nat /\ quantumReserve' \in Nat
        /\ ~Discarding => Available = capacity - Len(readBuffer) - HeldBytes
    <2>1. NextPos \in Nat /\ EdgePos \in Nat
      BY Near DEF IndInv
    <2>2. EdgePos' \in Nat
      BY <1>2, PosIs DEF EdgePos
    <2>3. capacity \in Nat /\ quantumReserve \in Nat /\ quantumReserve' \in Nat
      BY <1>2, Capacities, WindowFits DEF IndInv, ReceiveTypes
    <2> QED
      BY <2>1, <2>2, <2>3, AvailableType DEF IndInv
  <1>9. ReceiveTypes'
    BY <1>1, <1>2 DEF IndInv, ReceiveTypes
  <1>10. FlagTypes'
    BY <1>1 DEF IndInv, FlagTypes
  <1>11. JobInv'
    <2>1. pc = "receive" => /\ job.win \in Nat
                            /\ job.win # 0 => NextPos + job.win <= EdgePos'
      <3> SUFFICES ASSUME pc = "receive"
                   PROVE  job.win \in Nat /\ (job.win # 0 => NextPos + job.win <= EdgePos')
        OBVIOUS
      <3>1. job.win \in Nat /\ (job.win # 0 => NextPos + job.win <= EdgePos)
        BY JobIs DEF IndInv, JobInv
      <3> QED
        BY <1>2, <1>4, <3>1
    <2> QED
      BY <1>1, <1>3, <2>1 DEF IndInv, JobInv
  <1>12. DeliveryInv'
    BY <1>1, <1>3 DEF IndInv, DeliveryInv
  <1>13. FinInv'
    BY <1>1, <1>3 DEF IndInv, FinInv
  <1>14. ScoreboardInv'
    <2>1. \A q \in Held : Position(q) < EdgePos'
      <3> TAKE q \in Held
      <3>1. Position(q) \in Nat /\ Position(q) < EdgePos
        BY PosIs DEF IndInv, ScoreboardInv
      <3> QED
        BY <1>2, <1>4, <3>1
    <2> QED
      BY <1>1, <1>3, <2>1 DEF IndInv, ScoreboardInv
  <1>15. StuckInv'
    <2> SUFFICES ASSUME ~Discarding, receiveNext \in Held, ~wakeWindow
                 PROVE  Available + quantumReserve' <= 0
      BY <1>1, <1>3 DEF StuckInv
    <2>1. Available + quantumReserve <= 0
      BY DEF IndInv, StuckInv
    <2>2. Available \in Int /\ quantumReserve \in Nat /\ quantumReserve' \in Nat
      BY <1>4
    <2>3. quantumReserve' <= quantumReserve \/ Available > 0
      BY <1>2
    <2>4. ASSUME NEW a \in Int, NEW r \in Nat, NEW m \in Nat, a + r <= 0, m <= r \/ a > 0
          PROVE  a + m <= 0
      BY <2>4
    <2> QED
      BY <2>1, <2>2, <2>3, <2>4
  <1>16. PromiseInv'
    <2> SUFFICES ASSUME receiveAutoTune, ~Discarding, ~AfterFin, EdgePos' > NextPos
                 PROVE  Len(readBuffer) + (EdgePos' - NextPos) <= capacity + quantumReserve'
      BY <1>1, <1>2, <1>3 DEF PromiseInv
    <2>1. CASE right' = right /\ quantumReserve' = quantumReserve
      BY <2>1 DEF IndInv, PromiseInv, EdgePos
    <2>2. CASE EdgePos' - NextPos <= Available + quantumReserve'
      <3>1. /\ EdgePos' \in Nat /\ NextPos \in Nat /\ quantumReserve' \in Nat
            /\ capacity \in Nat /\ Len(readBuffer) \in Nat /\ HeldBytes \in Nat
        BY <1>4
      <3>2. Available = capacity - Len(readBuffer) - HeldBytes
        BY <1>4
      <3> QED
        BY <2>2, <3>1, <3>2
    <2> QED
      BY <1>2, <2>1, <2>2
  <1>17. UnreadInv'
    BY <1>1, <1>3 DEF IndInv, UnreadInv
  <1>18. DiscardInv'
    BY <1>1, <1>3 DEF IndInv, DiscardInv
  <1> QED
    BY <1>2, <1>9, <1>10, <1>11, <1>12, <1>13, <1>14, <1>15, <1>16, <1>17, <1>18 DEF IndInv

LEMMA PublishUnreadStep ==
    ASSUME IndInv, PublishUnread
    PROVE  IndInv'
  <1>1. /\ UNCHANGED <<receiveNext, outOfOrder, pieceStarts, finSeq>>
        /\ UNCHANGED <<right, quantumReserve, lastAdvertisedWindow>>
        /\ UNCHANGED <<readBuffer, consumed, discarded>>
        /\ UNCHANGED <<capacity, receiveAutoTune, readClosed, userClosed, aborted>>
        /\ UNCHANGED <<remoteFINReceived, ackPending, readErr, terminated, wakeWindow, job>>
        /\ pc = "publish" /\ pc' = "promote" /\ unread' = HeldBytes
    BY DEF PublishUnread, asmVars, winVars, bufVars, sockVars
  <1>2. /\ NextPos' = NextPos /\ EdgePos' = EdgePos /\ Held' = Held
        /\ AfterFin' = AfterFin /\ Closed' = Closed /\ Discarding' = Discarding
        /\ HeldBytes' = HeldBytes /\ NewSegment' = NewSegment
    BY <1>1 DEF NextPos, EdgePos, Held, AfterFin, Closed, HeldBytes, Discarding, NewSegment
  <1>3. HeldBytes \in Nat /\ (HeldBytes = 0 <=> Held = {})
    BY HeldNone DEF IndInv, ScoreboardInv
  <1>9. ReceiveTypes'
    BY <1>1, <1>3 DEF IndInv, ReceiveTypes
  <1>10. FlagTypes'
    BY <1>1 DEF IndInv, FlagTypes
  <1>11. JobInv'
    BY <1>1, <1>2 DEF IndInv, JobInv
  <1>12. DeliveryInv'
    BY <1>1, <1>2 DEF IndInv, DeliveryInv
  <1>13. FinInv'
    BY <1>1, <1>2 DEF IndInv, FinInv
  <1>14. ScoreboardInv'
    BY <1>1, <1>2 DEF IndInv, ScoreboardInv
  <1>15. StuckInv'
    BY <1>1 DEF StuckInv
  <1>16. PromiseInv'
    BY <1>1, <1>2 DEF IndInv, PromiseInv
  <1>17. UnreadInv'
    BY <1>1, <1>2, <1>3 DEF UnreadInv
  <1>18. DiscardInv'
    BY <1>1, <1>2 DEF IndInv, DiscardInv
  <1> QED
    BY <1>9, <1>10, <1>11, <1>12, <1>13, <1>14, <1>15, <1>16, <1>17, <1>18 DEF IndInv

\* The promotion loop ends where nothing held has reached RCV.NXT.
LEMMA PromoteEndStep ==
    ASSUME IndInv, PromoteEnd
    PROVE  IndInv'
  <1>1. /\ UNCHANGED <<receiveNext, outOfOrder, pieceStarts, finSeq>>
        /\ UNCHANGED <<right, quantumReserve, lastAdvertisedWindow>>
        /\ UNCHANGED <<readBuffer, consumed, discarded>>
        /\ UNCHANGED <<capacity, receiveAutoTune, readClosed, userClosed, aborted>>
        /\ UNCHANGED <<remoteFINReceived, ackPending, readErr, terminated, wakeWindow, job>>
        /\ pc \in {"promote", "promoted"} /\ pc' = PromoteExit /\ unread' = HeldBytes
        /\ pc = "promote" /\ pieceStarts # {} => SeqGreater(FirstPiece, receiveNext)
    BY DEF PromoteEnd, asmVars, winVars, bufVars, sockVars
  <1>2. job.kind \in {"segment", "wake"}
    BY <1>1, JobIs DEF IndInv
  <1>3. /\ job.kind = "segment" => pc' = "finish"
        /\ job.kind = "wake" => pc' = "wakefinish"
        /\ NewSegment => pc' = "finish"
    BY <1>1, <1>2 DEF PromoteExit, NewSegment
  <1>4. /\ NextPos' = NextPos /\ EdgePos' = EdgePos /\ Held' = Held
        /\ AfterFin' = AfterFin /\ Closed' = Closed /\ Discarding' = Discarding
        /\ HeldBytes' = HeldBytes /\ NewSegment' = NewSegment /\ Available' = Available
    BY <1>1, <1>2, <1>3
       DEF NextPos, EdgePos, Held, AfterFin, Closed, HeldBytes, Discarding, NewSegment,
           Available
  <1>5. HeldBytes \in Nat /\ (HeldBytes = 0 <=> Held = {})
    BY HeldNone DEF IndInv, ScoreboardInv
  <1>6. pc = "promote" => receiveNext \notin Held
    <2> SUFFICES ASSUME pc = "promote"
                 PROVE  receiveNext \notin Held
      OBVIOUS
    <2>1. /\ NextPos \in Nat /\ NextPos < Half /\ EdgePos \in Nat /\ EdgePos < Half
          /\ receiveNext \in SeqNums
      BY Near DEF IndInv, ReceiveTypes
    <2>2. CASE pieceStarts = {}
      BY <2>1, <2>2, NoPieceNothingHeld DEF IndInv
    <2>3. CASE pieceStarts # {}
      <3>1. /\ FirstPiece \in Held /\ \A q \in Held : Position(FirstPiece) <= Position(q)
        BY <2>1, <2>3, FirstPieceIs DEF IndInv
      <3>2. /\ FirstPiece \in SeqNums /\ Position(FirstPiece) \in Nat
            /\ Position(FirstPiece) < EdgePos
        BY <3>1, PosIs DEF IndInv, ScoreboardInv
      <3>3. Position(FirstPiece) < Half
        BY <2>1, <3>2, HalfType
      <3>4. NextPos < Position(FirstPiece)
        BY <1>1, <2>1, <2>3, <3>2, <3>3, PosLess DEF NextPos
      <3> QED
        BY <2>1, <3>1, <3>2, <3>4 DEF NextPos
    <2> QED
      BY <2>2, <2>3
  <1>9. ReceiveTypes'
    BY <1>1, <1>5 DEF IndInv, ReceiveTypes
  <1>10. FlagTypes'
    BY <1>1 DEF IndInv, FlagTypes
  <1>11. JobInv'
    BY <1>1, <1>2, <1>3, <1>4 DEF IndInv, JobInv
  <1>12. DeliveryInv'
    BY <1>1, <1>4 DEF IndInv, DeliveryInv
  <1>13. FinInv'
    BY <1>1, <1>4 DEF IndInv, FinInv
  <1>14. ScoreboardInv'
    BY <1>1, <1>4 DEF IndInv, ScoreboardInv
  <1>15. StuckInv'
    BY <1>1, <1>4, <1>6 DEF IndInv, StuckInv
  <1>16. PromiseInv'
    BY <1>1, <1>4 DEF IndInv, PromiseInv
  <1>17. UnreadInv'
    BY <1>1, <1>2, <1>3, <1>4 DEF UnreadInv
  <1>18. DiscardInv'
    BY <1>1, <1>3, <1>4 DEF IndInv, DiscardInv
  <1> QED
    BY <1>9, <1>10, <1>11, <1>12, <1>13, <1>14, <1>15, <1>16, <1>17, <1>18 DEF IndInv

\* A FIN with nothing before it is consumed.
LEMMA PromoteFinStep ==
    ASSUME IndInv, PromoteFin
    PROVE  IndInv'
  <1>1. /\ UNCHANGED <<outOfOrder, pieceStarts>>
        /\ UNCHANGED <<right, quantumReserve, lastAdvertisedWindow>>
        /\ UNCHANGED <<readBuffer, consumed, discarded>>
        /\ UNCHANGED <<capacity, receiveAutoTune, readClosed, userClosed, aborted>>
        /\ UNCHANGED <<remoteFINReceived, ackPending, readErr, terminated, wakeWindow>>
        /\ pc = "promote" /\ pc' = "promoted" /\ unread' = unread /\ pieceStarts = {}
        /\ finSeq = receiveNext /\ finSeq' = NoFin /\ receiveNext' = SeqAdd(receiveNext, 1)
        /\ job' = [job EXCEPT !.closed = TRUE]
    BY DEF PromoteFin, winVars, bufVars, sockVars
  <1>2. /\ job.kind \in {"segment", "wake"} /\ job' \in SegmentJobs \cup WakeJobs
        /\ job'.kind = job.kind /\ job'.closed = TRUE /\ NewSegment' = NewSegment
    BY <1>1, JobIs, JobClosing DEF IndInv
  <1>4. ~AfterFin /\ ~remoteFINReceived /\ AfterFin' /\ Closed'
    BY <1>1, <1>2 DEF IndInv, JobInv, AfterFin, Closed
  <1>5. /\ NextPos \in Nat /\ NextPos <= StreamLen + 1 /\ receiveNext \in SeqNums
        /\ StreamLen \in Nat /\ StreamLen + 2 < SeqMod /\ SeqMod \in Nat
    BY Near, HalfType, Stream, Capacities, WindowFits DEF IndInv, ReceiveTypes
  <1>6. receiveNext' \in SeqNums /\ NextPos' = NextPos + 1
    <2>1. Position(receiveNext) + 1 < SeqMod
      BY <1>5 DEF NextPos
    <2> QED
      BY <1>1, <1>5, <2>1, PosAdd DEF NextPos
  <1>7. Held = {} /\ Held' = {} /\ HeldBytes' = 0
    <2>1. Held = {}
      BY <1>1, <1>5, NoPieceNothingHeld DEF IndInv
    <2> QED
      BY <1>1, <2>1, FS_EmptySet DEF Held, HeldBytes
  <1>8. NextPos \in FinPositions
    <2>1. NoFin \notin SeqNums
      BY SequenceSpace DEF NoFin, SeqNums
    <2> QED
      BY <1>1, <1>5, <2>1 DEF IndInv, FinInv, NextPos
  <1>9. EdgePos' = EdgePos /\ Discarding' = Discarding
    BY <1>1 DEF EdgePos, Discarding
  <1>10. ReceiveTypes'
    BY <1>1, <1>6 DEF IndInv, ReceiveTypes
  <1>11. FlagTypes'
    BY <1>1 DEF IndInv, FlagTypes
  <1>12. JobInv'
    BY <1>1, <1>2, <1>4 DEF IndInv, JobInv
  <1>13. DeliveryInv'
    BY <1>1, <1>4, <1>6, <1>9 DEF IndInv, DeliveryInv
  <1>14. FinInv'
    <2>1. NextPos' >= 1 /\ NextPos' - 1 \in FinPositions
      BY <1>5, <1>6, <1>8
    <2> QED
      BY <1>1, <1>4, <1>7, <1>9, <2>1 DEF IndInv, FinInv
  <1>15. ScoreboardInv'
    BY <1>1, <1>7 DEF IndInv, ScoreboardInv
  <1>16. StuckInv'
    BY <1>7 DEF StuckInv
  <1>17. PromiseInv'
    BY <1>4, <1>9 DEF IndInv, PromiseInv
  <1>18. UnreadInv'
    BY <1>1, <1>2, <1>7 DEF UnreadInv
  <1>19. DiscardInv'
    BY <1>1, <1>2, <1>7 DEF IndInv, DiscardInv
  <1> QED
    BY <1>10, <1>11, <1>12, <1>13, <1>14, <1>15, <1>16, <1>17, <1>18, <1>19 DEF IndInv

\* Back in the loop, with EOF published if the FIN was consumed.
LEMMA ReturnStep ==
    ASSUME IndInv, pc \in {"receive", "finish", "wakefinish"},
           ~(job.kind = "segment" /\ NewDataAfterClose),
           pc = "receive" => remoteFINReceived,
           remoteFINReceived' = (remoteFINReceived \/ job.closed),
           readErr' = IF job.closed /\ readErr = "none" THEN "eof" ELSE readErr,
           ackPending' \in BOOLEAN, pc' = "idle", job' = NoJob,
           UNCHANGED <<asmVars, unread, winVars, bufVars, sockVars, terminated, wakeWindow>>
    PROVE  IndInv'
  <1>1. /\ UNCHANGED <<receiveNext, outOfOrder, pieceStarts, finSeq, unread>>
        /\ UNCHANGED <<right, quantumReserve, lastAdvertisedWindow>>
        /\ UNCHANGED <<readBuffer, consumed, discarded>>
        /\ UNCHANGED <<capacity, receiveAutoTune, readClosed, userClosed, aborted>>
        /\ UNCHANGED <<terminated, wakeWindow>>
    BY DEF asmVars, winVars, bufVars, sockVars
  <1>2. job.closed \in BOOLEAN /\ (Closed <=> job.closed) /\ ~Closed' /\ ~terminated
    BY JobIs DEF IndInv, JobInv, Closed
  <1>3. /\ remoteFINReceived' \in BOOLEAN /\ (AfterFin' <=> AfterFin)
        /\ (remoteFINReceived' <=> AfterFin)
    BY <1>2 DEF AfterFin, IndInv, FlagTypes
  <1>4. /\ NextPos' = NextPos /\ EdgePos' = EdgePos /\ Held' = Held
        /\ Discarding' = Discarding /\ HeldBytes' = HeldBytes /\ Available' = Available
    BY <1>1 DEF NextPos, EdgePos, Held, HeldBytes, Discarding, Available
  <1>5. ~(userClosed /\ NewSegment)
    BY DEF NewDataAfterClose, NewSegment
  <1>6. /\ readErr' \in {"none", "eof", "closed", "failed"}
        /\ readErr' = "eof" => remoteFINReceived'
        /\ Discarding => readErr' = readErr
    BY <1>2 DEF IndInv, FlagTypes, FinInv
  <1>10. ReceiveTypes'
    BY <1>1 DEF IndInv, ReceiveTypes
  <1>11. FlagTypes'
    BY <1>1, <1>3, <1>6 DEF IndInv, FlagTypes
  <1>12. JobInv'
    BY <1>1, <1>2 DEF IndInv, JobInv
  <1>13. DeliveryInv'
    BY <1>1, <1>3, <1>4 DEF IndInv, DeliveryInv
  <1>14. FinInv'
    BY <1>1, <1>3, <1>4, <1>6 DEF IndInv, FinInv
  <1>15. ScoreboardInv'
    BY <1>1, <1>4 DEF IndInv, ScoreboardInv
  <1>16. StuckInv'
    BY <1>1, <1>4 DEF IndInv, StuckInv
  <1>17. PromiseInv'
    BY <1>1, <1>3, <1>4 DEF IndInv, PromiseInv
  <1>18. UnreadInv'
    BY <1>1, <1>4 DEF IndInv, UnreadInv
  <1>19. DiscardInv'
    BY <1>1, <1>4, <1>5 DEF IndInv, DiscardInv
  <1> QED
    BY <1>10, <1>11, <1>12, <1>13, <1>14, <1>15, <1>16, <1>17, <1>18, <1>19 DEF IndInv

LEMMA FinishSegmentStep ==
    ASSUME IndInv, FinishSegment
    PROVE  IndInv'
  BY ReturnStep DEF FinishSegment

LEMMA FinishWakeStep ==
    ASSUME IndInv, FinishWake
    PROVE  IndInv'
  <1>1. pc = "wakefinish" /\ job.kind = "wake"
    BY DEF FinishWake, IndInv, JobInv
  <1>2. ackPending' \in BOOLEAN
    BY DEF FinishWake, IndInv, FlagTypes
  <1> QED
    BY <1>1, <1>2, ReturnStep DEF FinishWake

\* The actor returns.  An abort drops only what the application gave up.
LEMMA FinishStep ==
    ASSUME IndInv, Finish, remoteFINReceived' = (remoteFINReceived \/ Closed),
           pc # "idle" => Discarding,
           UNCHANGED <<asmVars, winVars, ackPending, consumed, discarded, sockVars, wakeWindow>>
    PROVE  IndInv'
  <1>1. /\ UNCHANGED <<receiveNext, outOfOrder, pieceStarts, finSeq, ackPending>>
        /\ UNCHANGED <<right, quantumReserve, lastAdvertisedWindow>>
        /\ UNCHANGED <<consumed, discarded, wakeWindow>>
        /\ UNCHANGED <<capacity, receiveAutoTune, readClosed, userClosed, aborted>>
        /\ terminated' = TRUE /\ pc' = "idle" /\ job' = NoJob
    BY DEF Finish, asmVars, winVars, sockVars
  <1>2. Closed \in BOOLEAN /\ ~Closed'
    BY <1>1, JobIs DEF IndInv, Closed
  <1>3. /\ remoteFINReceived' \in BOOLEAN /\ (AfterFin' <=> AfterFin)
        /\ (remoteFINReceived' <=> AfterFin)
    BY <1>2 DEF AfterFin, IndInv, FlagTypes
  <1>4. readBuffer' = readBuffer /\ unread' \in Nat
    <2>1. CASE aborted
      BY <2>1 DEF Finish, IndInv, FinInv, DeliveryInv, Discarding
    <2>2. CASE ~aborted
      BY <2>2 DEF Finish, IndInv, ReceiveTypes
    <2> QED
      BY <2>1, <2>2
  <1>5. /\ NextPos' = NextPos /\ EdgePos' = EdgePos /\ Held' = Held
        /\ Discarding' = Discarding /\ HeldBytes' = HeldBytes /\ Available' = Available
    BY <1>1, <1>4 DEF NextPos, EdgePos, Held, HeldBytes, Discarding, Available
  <1>6. /\ readErr' \in {"none", "eof", "closed", "failed"}
        /\ readErr' = "eof" => remoteFINReceived'
        /\ Discarding => readErr' \in {"closed", "failed"}
    <2>1. CASE aborted
      BY <2>1 DEF Finish
    <2>2. CASE ~aborted
      BY <1>3, <2>2 DEF Finish, IndInv, FlagTypes, FinInv, AfterFin
    <2> QED
      BY <2>1, <2>2
  <1>10. ReceiveTypes'
    BY <1>1, <1>4 DEF IndInv, ReceiveTypes
  <1>11. FlagTypes'
    BY <1>1, <1>3, <1>6 DEF IndInv, FlagTypes
  <1>12. JobInv'
    BY <1>1, <1>2 DEF IndInv, JobInv
  <1>13. DeliveryInv'
    BY <1>1, <1>3, <1>4, <1>5 DEF IndInv, DeliveryInv
  <1>14. FinInv'
    BY <1>1, <1>3, <1>5, <1>6 DEF IndInv, FinInv
  <1>15. ScoreboardInv'
    BY <1>1, <1>5 DEF IndInv, ScoreboardInv
  <1>16. StuckInv'
    <2>1. CASE Discarding
      BY <1>5, <2>1 DEF StuckInv
    <2>2. CASE ~Discarding
      BY <1>1, <1>5, <2>2 DEF IndInv, StuckInv
    <2> QED
      BY <2>1, <2>2
  <1>17. PromiseInv'
    BY <1>1, <1>3, <1>4, <1>5 DEF IndInv, PromiseInv
  <1>18. UnreadInv'
    BY <1>1 DEF UnreadInv
  <1>19. DiscardInv'
    BY <1>1 DEF DiscardInv
  <1> QED
    BY <1>10, <1>11, <1>12, <1>13, <1>14, <1>15, <1>16, <1>17, <1>18, <1>19 DEF IndInv

LEMMA ResetAfterCloseStep ==
    ASSUME IndInv, ResetAfterClose
    PROVE  IndInv'
  <1>1. pc # "idle" /\ Discarding
    BY DEF ResetAfterClose, NewDataAfterClose, Discarding
  <1>2. remoteFINReceived' = (remoteFINReceived \/ Closed)
    BY <1>1 DEF ResetAfterClose, Closed
  <1> QED
    BY <1>1, <1>2, FinishStep DEF ResetAfterClose

LEMMA TerminateStep ==
    ASSUME IndInv, Terminate
    PROVE  IndInv'
  <1>1. pc = "idle" /\ ~Closed
    BY DEF Terminate, Closed
  <1>2. remoteFINReceived' = (remoteFINReceived \/ Closed)
    BY <1>1 DEF Terminate, IndInv, FlagTypes
  <1> QED
    BY <1>1, <1>2, FinishStep DEF Terminate

LEMMA GrowToIs ==
    ASSUME ReceiveTypes, NEW target \in 0 .. MaxCapacity
    PROVE  GrowTo(target) \in 1 .. MaxCapacity /\ GrowTo(target) >= capacity
  BY Capacities DEF GrowTo, MinOf, ReceiveTypes

\* The wake: automatic tuning grows the capacity, and input the application no
\* longer wants is dropped.
LEMMA TakeWakeStep ==
    ASSUME IndInv, TakeWake
    PROVE  IndInv'
  <1>1. /\ UNCHANGED <<receiveNext>>
        /\ UNCHANGED <<right, quantumReserve, lastAdvertisedWindow>>
        /\ UNCHANGED <<readBuffer, consumed, discarded>>
        /\ UNCHANGED <<receiveAutoTune, readClosed, userClosed, aborted>>
        /\ UNCHANGED <<remoteFINReceived, ackPending, readErr, terminated>>
        /\ pc = "idle" /\ ~terminated /\ wakeWindow' = FALSE
        /\ job' = [kind |-> "wake", prev |-> receiveNext, closed |-> FALSE]
    BY DEF TakeWake, winVars, bufVars
  <1>2. /\ job' \in WakeJobs /\ job'.kind = "wake" /\ ~job'.closed
    BY <1>1 DEF WakeJobs, IndInv, ReceiveTypes
  <1>3. capacity' \in 1 .. MaxCapacity /\ capacity' >= capacity
    BY GrowToIs DEF TakeWake, IndInv
  <1>4. ~Closed /\ ~Closed' /\ ~NewSegment /\ ~NewSegment'
    BY <1>1, <1>2, IdleIs DEF IndInv, Closed, NewSegment
  <1>5. /\ NextPos' = NextPos /\ EdgePos' = EdgePos /\ (AfterFin' <=> AfterFin)
        /\ Discarding' = Discarding
    BY <1>1, <1>4 DEF NextPos, EdgePos, AfterFin, Discarding
  <1>6. CASE Discarding
    <2>1. outOfOrder' = <<>> /\ pieceStarts' = {} /\ finSeq' = NoFin /\ unread' = 0
          /\ pc' = "wakefinish"
      BY <1>6 DEF TakeWake
    <2>2. Held' = {} /\ HeldBytes' = 0
      BY <2>1, FS_EmptySet DEF Held, HeldBytes
    <2>10. ReceiveTypes'
      BY <1>1, <1>3, <2>1 DEF IndInv, ReceiveTypes
    <2>11. FlagTypes'
      BY <1>1 DEF IndInv, FlagTypes
    <2>12. JobInv'
      BY <1>1, <1>2, <1>4, <2>1 DEF IndInv, JobInv
    <2>13. DeliveryInv'
      BY <1>1, <1>5 DEF IndInv, DeliveryInv
    <2>14. FinInv'
      BY <1>1, <1>5, <2>1, <2>2 DEF IndInv, FinInv
    <2>15. ScoreboardInv'
      BY <2>1, <2>2, FS_EmptySet, Stream DEF ScoreboardInv
    <2>16. StuckInv'
      BY <2>2 DEF StuckInv
    <2>17. PromiseInv'
      BY <1>5, <1>6 DEF IndInv, PromiseInv
    <2>18. UnreadInv'
      BY <2>1, <2>2 DEF UnreadInv
    <2>19. DiscardInv'
      BY <1>1, <1>4, <2>2 DEF IndInv, DiscardInv
    <2> QED
      BY <2>10, <2>11, <2>12, <2>13, <2>14, <2>15, <2>16, <2>17, <2>18, <2>19 DEF IndInv
  <1>7. CASE ~Discarding
    <2>1. /\ UNCHANGED <<outOfOrder, pieceStarts, finSeq, unread>>
          /\ HoldsPieces => pc' = "promote"
          /\ ~HoldsPieces => pc' = "wakefinish"
      BY <1>7 DEF TakeWake
    <2>2. Held' = Held /\ HeldBytes' = HeldBytes
      BY <2>1 DEF Held, HeldBytes
    <2>3. HeldBytes \in Nat /\ (HeldBytes = 0 <=> Held = {})
      BY HeldNone DEF IndInv, ScoreboardInv
    <2>4. ~HoldsPieces => Held = {}
      <3>1. NextPos \in Nat
        BY Near DEF IndInv
      <3> QED
        BY <3>1, NoPieceNothingHeld DEF HoldsPieces, IndInv
    <2>5. AfterFin => ~HoldsPieces
      BY DEF IndInv, FinInv, HoldsPieces
    <2>10. ReceiveTypes'
      BY <1>1, <1>3, <2>1 DEF IndInv, ReceiveTypes
    <2>11. FlagTypes'
      BY <1>1 DEF IndInv, FlagTypes
    <2>12. JobInv'
      BY <1>1, <1>2, <1>4, <2>1, <2>5 DEF IndInv, JobInv, AfterFin
    <2>13. DeliveryInv'
      BY <1>1, <1>5 DEF IndInv, DeliveryInv
    <2>14. FinInv'
      BY <1>1, <1>5, <2>1, <2>2 DEF IndInv, FinInv
    <2>15. ScoreboardInv'
      BY <1>1, <1>5, <2>1, <2>2 DEF IndInv, ScoreboardInv
    <2>16. StuckInv'
      BY <2>1, <2>2, <2>4 DEF StuckInv
    <2>17. PromiseInv'
      <3>1. /\ capacity \in Nat /\ capacity' \in Nat /\ quantumReserve \in Nat
            /\ NextPos \in Nat /\ EdgePos \in Nat /\ Len(readBuffer) \in Nat
        BY <1>3, Near, LenProperties, Capacities, WindowFits DEF IndInv, ReceiveTypes
      <3>2. (receiveAutoTune /\ ~Discarding /\ ~AfterFin /\ EdgePos > NextPos) =>
                Len(readBuffer) + (EdgePos - NextPos) <= capacity' + quantumReserve
        BY <1>3, <3>1 DEF IndInv, PromiseInv
      <3> QED
        BY <1>1, <1>5, <3>2 DEF IndInv, PromiseInv
    <2>18. UnreadInv'
      BY <1>1, <2>1, <2>2, <2>3, <2>4 DEF IndInv, UnreadInv
    <2>19. DiscardInv'
      BY <1>1, <1>4, <1>7, <2>2 DEF IndInv, DiscardInv, Discarding
    <2> QED
      BY <2>10, <2>11, <2>12, <2>13, <2>14, <2>15, <2>16, <2>17, <2>18, <2>19 DEF IndInv
  <1> QED
    BY <1>6, <1>7

(* Delivery. *)

\* appendReadBuffer takes no more than it is offered, and everything unless
\* the room beside the other held bytes is exhausted.
LEMMA AcceptedIs ==
    ASSUME ReceiveTypes, NEW n \in Nat, NEW others \in Nat
    PROVE  /\ Accepted(n, others) \in Nat /\ Accepted(n, others) <= n
           /\ Discarding => Accepted(n, others) = n
           /\ Accepted(n, others) < n =>
                capacity - Len(readBuffer) - others + quantumReserve <= Accepted(n, others)
  <1>1. capacity \in Int /\ Len(readBuffer) \in Nat /\ quantumReserve \in Int
    BY LenProperties, Capacities, WindowFits DEF ReceiveTypes
  <1> DEFINE free == capacity - Len(readBuffer) - others + quantumReserve
  <1>2. free \in Int
    BY <1>1
  <1>3. ~Discarding => Accepted(n, others) = MinOf(n, MaxOf(0, free))
    BY DEF Accepted
  <1>4. Discarding => Accepted(n, others) = n
    BY DEF Accepted
  <1> HIDE DEF free
  <1>5. /\ MinOf(n, MaxOf(0, free)) \in Nat /\ MinOf(n, MaxOf(0, free)) <= n
        /\ MinOf(n, MaxOf(0, free)) < n => free <= MinOf(n, MaxOf(0, free))
    BY <1>2 DEF MinOf, MaxOf
  <1> QED
    BY <1>3, <1>4, <1>5 DEF free

\* Appending the next n bytes of the stream keeps the buffer a stretch of it.
LEMMA AppendStep ==
    ASSUME ReceiveTypes, DeliveryInv, ~AfterFin, NextPos \in Nat,
           NEW b \in Seq(Nat), NEW n \in 0 .. Len(b),
           \A i \in 1 .. n : b[i] = NextPos + i - 1,
           AppendReadBuffer(b, n)
    PROVE  /\ consumed' = consumed /\ readBuffer' \in Seq(Nat)
           /\ \A i \in 1 .. Len(readBuffer') : readBuffer'[i] = Len(consumed) + i - 1
           /\ Discarding => readBuffer' = <<>>
           /\ ~Discarding => /\ Len(readBuffer') = Len(readBuffer) + n
                             /\ NextPos + n = Len(consumed) + Len(readBuffer')
  <1>1. /\ readBuffer \in Seq(Nat) /\ Len(readBuffer) \in Nat /\ Len(consumed) \in Nat
        /\ n \in Nat /\ consumed' = consumed
    BY LenProperties DEF ReceiveTypes, AppendReadBuffer
  <1>2. CASE Discarding
    <2>1. readBuffer' = readBuffer /\ readBuffer = <<>>
      BY <1>2 DEF AppendReadBuffer, DeliveryInv
    <2> QED
      BY <1>1, <1>2, <2>1 DEF DeliveryInv
  <1>3. CASE ~Discarding
    <2> DEFINE p == SubSeq(b, 1, n)
    <2>1. readBuffer' = readBuffer \o p
      BY <1>3 DEF AppendReadBuffer
    <2>2. p \in Seq(Nat) /\ Len(p) = n /\ \A i \in 1 .. n : p[i] = b[i]
      BY PrefixOf
    <2> HIDE DEF p
    <2>3. /\ readBuffer' \in Seq(Nat) /\ Len(readBuffer') = Len(readBuffer) + n
          /\ \A i \in 1 .. Len(readBuffer') : i <= Len(readBuffer) => readBuffer'[i] = readBuffer[i]
          /\ \A i \in 1 .. Len(readBuffer') : i > Len(readBuffer) =>
                i - Len(readBuffer) \in 1 .. n /\ readBuffer'[i] = p[i - Len(readBuffer)]
      <3>1. readBuffer \in Seq(Nat) /\ p \in Seq(Nat)
        BY <1>1, <2>2
      <3>2. /\ readBuffer \o p \in Seq(Nat) /\ Len(readBuffer \o p) = Len(readBuffer) + Len(p)
            /\ \A i \in 1 .. Len(readBuffer \o p) :
                i <= Len(readBuffer) => (readBuffer \o p)[i] = readBuffer[i]
            /\ \A i \in 1 .. Len(readBuffer \o p) : i > Len(readBuffer) =>
                i - Len(readBuffer) \in 1 .. Len(p)
                /\ (readBuffer \o p)[i] = p[i - Len(readBuffer)]
        BY <3>1, AppendedIs
      <3>3. Len(p) = n
        BY <2>2
      <3> QED
        BY <2>1, <3>2, <3>3
    <2>4. NextPos = Len(consumed) + Len(readBuffer)
      BY <1>3 DEF DeliveryInv
    <2>5. \A i \in 1 .. Len(readBuffer') : readBuffer'[i] = Len(consumed) + i - 1
      <3> TAKE i \in 1 .. Len(readBuffer')
      <3>1. i \in Nat /\ i >= 1
        BY <2>3, <1>1
      <3>2. CASE i <= Len(readBuffer)
        <4>1. i \in 1 .. Len(readBuffer)
          BY <1>1, <3>1, <3>2
        <4>2. readBuffer'[i] = readBuffer[i]
          BY <2>3, <3>2
        <4> QED
          BY <4>1, <4>2 DEF DeliveryInv
      <3>3. CASE i > Len(readBuffer)
        <4> DEFINE k == i - Len(readBuffer)
        <4>1. k \in 1 .. n /\ readBuffer'[i] = p[k] /\ i = k + Len(readBuffer)
          <5>1. i = k + Len(readBuffer)
            BY <1>1, <3>1
          <5>2. k \in 1 .. n /\ readBuffer'[i] = p[k]
            BY <2>3, <3>3
          <5> QED
            BY <5>1, <5>2
        <4> HIDE DEF k
        <4>2. p[k] = NextPos + k - 1
          BY <2>2, <4>1
        <4> QED
          BY <1>1, <2>4, <4>1, <4>2
      <3> QED
        BY <1>1, <3>1, <3>2, <3>3
    <2> QED
      BY <1>1, <1>3, <2>3, <2>4, <2>5
  <1> QED
    BY <1>2, <1>3

\* In-order payload goes to the buffer, and a FIN right behind it is consumed.
LEMMA ReceiveInOrderStep ==
    ASSUME IndInv, ReceiveInOrder
    PROVE  IndInv'
  <1> DEFINE s == Trimmed(job.seg)
             len == MinOf(Len(s.data), job.win)
             bytes == SubSeq(s.data, 1, len)
             n == Accepted(Len(bytes), 0)
             closed == InOrderFIN(s, n, job.win)
  <1>1. /\ UNCHANGED <<outOfOrder, pieceStarts, finSeq>>
        /\ UNCHANGED <<right, quantumReserve, lastAdvertisedWindow>>
        /\ UNCHANGED <<capacity, receiveAutoTune, readClosed, userClosed, aborted>>
        /\ UNCHANGED <<remoteFINReceived, ackPending, readErr, terminated, wakeWindow>>
        /\ pc = "receive" /\ ~remoteFINReceived /\ s.seq = receiveNext /\ ~HoldsPieces
        /\ pc' = "finish" /\ unread' = 0
    BY DEF ReceiveInOrder, winVars, sockVars
  <1>2. /\ AppendReadBuffer(bytes, n)
        /\ receiveNext' = SeqAdd(receiveNext, n + (IF closed THEN 1 ELSE 0))
        /\ job' = [job EXCEPT !.closed = closed]
    BY DEF ReceiveInOrder
  <1>3. /\ job.kind = "segment" /\ job.seg \in PeerSegments /\ job.win \in Nat
        /\ ~job.closed /\ ~AfterFin /\ NextPos <= StreamLen
        /\ job.new <=> /\ job.seg.data # <<>>
                       /\ Position(job.seg.seq) + Len(job.seg.data) > NextPos
    BY <1>1, JobIs DEF IndInv, JobInv, AfterFin, Closed, FinInv
  <1>4. /\ NextPos \in Nat /\ EdgePos \in Nat /\ receiveNext \in SeqNums
        /\ StreamLen \in Nat /\ StreamLen + 2 < SeqMod /\ SeqMod \in Nat
    BY Near, HalfType, Stream, Capacities, WindowFits DEF IndInv, ReceiveTypes
  <1>5. /\ StreamRange(s) /\ (s.data # <<>> => job.new)
    BY <1>3, <1>4, PeerSegmentRange, TrimmedRange
  <1> HIDE DEF s
  <1>6. /\ s.data \in Seq(Nat) /\ Len(s.data) \in Nat /\ s.fin \in BOOLEAN
        /\ NextPos + Len(s.data) <= StreamLen
        /\ \A i \in 1 .. Len(s.data) : s.data[i] = NextPos + i - 1
        /\ s.fin => NextPos + Len(s.data) \in FinPositions
    BY <1>1, <1>5, LenProperties DEF StreamRange, NextPos
  <1>7. len \in 0 .. Len(s.data)
    BY <1>3, <1>6 DEF MinOf
  <1> HIDE DEF len
  <1>8. bytes \in Seq(Nat) /\ Len(bytes) = len /\ \A i \in 1 .. len : bytes[i] = s.data[i]
    BY <1>6, <1>7, PrefixOf
  <1> HIDE DEF bytes
  <1>9. /\ n \in Nat /\ n <= len /\ n <= Len(s.data)
    <2>1. Len(bytes) \in Nat
      BY <1>7, <1>8, <1>6
    <2>2. n \in Nat /\ n <= Len(bytes)
      BY <2>1, AcceptedIs DEF IndInv
    <2> HIDE DEF n
    <2> QED
      BY <1>6, <1>7, <1>8, <2>2
  <1>10. /\ closed \in BOOLEAN /\ (closed => s.fin /\ n = Len(s.data))
    BY <1>6 DEF InOrderFIN
  <1> HIDE DEF n, closed
  <1>11. /\ n \in 0 .. Len(bytes)
         /\ \A i \in 1 .. n : bytes[i] = NextPos + i - 1
    <2>1. n \in Nat /\ n <= len /\ len \in Nat /\ len <= Len(s.data) /\ Len(s.data) \in Nat
          /\ Len(bytes) = len
      BY <1>6, <1>7, <1>8, <1>9
    <2>2. n \in 0 .. Len(bytes)
      BY <2>1
    <2>3. \A i \in 1 .. n : i \in 1 .. len /\ i \in 1 .. Len(s.data)
      BY <2>1
    <2> QED
      BY <1>6, <1>8, <2>2, <2>3
  <1>12. /\ consumed' = consumed /\ readBuffer' \in Seq(Nat)
         /\ \A i \in 1 .. Len(readBuffer') : readBuffer'[i] = Len(consumed) + i - 1
         /\ Discarding => readBuffer' = <<>>
         /\ ~Discarding => /\ Len(readBuffer') = Len(readBuffer) + n
                           /\ NextPos + n = Len(consumed) + Len(readBuffer')
    BY <1>2, <1>3, <1>4, <1>8, <1>11, AppendStep DEF IndInv
  <1>13. /\ receiveNext' \in SeqNums
         /\ closed => NextPos' = NextPos + n + 1
         /\ ~closed => NextPos' = NextPos + n
    <2> DEFINE step == n + (IF closed THEN 1 ELSE 0)
    <2>1. /\ step \in Nat /\ (closed => step = n + 1) /\ (~closed => step = n)
          /\ Position(receiveNext) + step < SeqMod
      BY <1>4, <1>6, <1>9 DEF NextPos
    <2>2. receiveNext' = SeqAdd(receiveNext, step)
      BY <1>2
    <2> HIDE DEF step
    <2>3. receiveNext' \in SeqNums /\ NextPos' = NextPos + step
      BY <1>4, <2>1, <2>2, PosAdd DEF NextPos
    <2> QED
      BY <1>4, <1>9, <2>1, <2>3
  <1>14. Held = {} /\ Held' = {} /\ HeldBytes' = 0 /\ finSeq = NoFin /\ pieceStarts = {}
    <2>1. Held = {} /\ finSeq = NoFin /\ pieceStarts = {}
      BY <1>1, <1>4, NoPieceNothingHeld DEF IndInv, HoldsPieces
    <2> QED
      BY <1>1, <2>1, FS_EmptySet DEF Held, HeldBytes
  <1>15. /\ job' \in SegmentJobs \cup WakeJobs /\ job'.kind = "segment"
         /\ job'.closed = closed /\ NewSegment' = NewSegment
         /\ (NewSegment <=> job.new)
    BY <1>1, <1>2, <1>3, <1>10, JobClosing DEF IndInv, NewSegment
  <1>16. /\ (AfterFin' <=> closed) /\ (Closed' <=> closed)
         /\ EdgePos' = EdgePos /\ Discarding' = Discarding
    BY <1>1, <1>15 DEF AfterFin, Closed, EdgePos, Discarding
  <1>17. n > 0 => NewSegment
    <2>1. n > 0 => s.data # <<>>
      BY <1>6, <1>9, EmptySeq
    <2> QED
      BY <1>5, <1>15, <2>1
  <1>20. ReceiveTypes'
    BY <1>1, <1>12, <1>13 DEF IndInv, ReceiveTypes
  <1>21. FlagTypes'
    BY <1>1, <1>2 DEF IndInv, FlagTypes, AppendReadBuffer
  <1>22. JobInv'
    BY <1>1, <1>3, <1>15 DEF IndInv, JobInv
  <1>23. DeliveryInv'
    <2>1. ~Discarding /\ ~closed => NextPos' = Len(consumed) + Len(readBuffer')
      BY <1>12, <1>13
    <2>2. ~Discarding /\ closed => NextPos' = Len(consumed) + Len(readBuffer') + 1
      BY <1>12, <1>13
    <2> QED
      BY <1>12, <1>16, <2>1, <2>2 DEF IndInv, DeliveryInv
  <1>24. FinInv'
    <2>1. ~closed => NextPos' <= StreamLen
      BY <1>4, <1>6, <1>9, <1>13
    <2>2. closed => NextPos' >= 1 /\ NextPos' - 1 \in FinPositions
      <3> SUFFICES ASSUME closed
                   PROVE  NextPos' >= 1 /\ NextPos' - 1 \in FinPositions
        OBVIOUS
      <3>1. NextPos' = NextPos + Len(s.data) + 1 /\ NextPos + Len(s.data) \in FinPositions
        BY <1>6, <1>10, <1>13
      <3>2. NextPos' - 1 = NextPos + Len(s.data) /\ NextPos' >= 1
        BY <1>4, <1>6, <3>1
      <3> QED
        BY <3>1, <3>2
    <2> QED
      BY <1>1, <1>14, <1>16, <2>1, <2>2 DEF IndInv, FinInv
  <1>25. ScoreboardInv'
    BY <1>1, <1>14 DEF IndInv, ScoreboardInv
  <1>26. StuckInv'
    BY <1>14 DEF StuckInv
  <1>27. PromiseInv'
    <2> SUFFICES ASSUME receiveAutoTune, ~Discarding, ~closed, EdgePos > NextPos'
                 PROVE  Len(readBuffer') + (EdgePos - NextPos') <= capacity + quantumReserve
      BY <1>1, <1>16 DEF IndInv, PromiseInv
    <2>1. NextPos' = NextPos + n /\ Len(readBuffer') = Len(readBuffer) + n
          /\ Len(readBuffer) \in Nat
      BY <1>12, <1>13, LenProperties DEF IndInv, ReceiveTypes
    <2>2. EdgePos > NextPos
      BY <1>4, <1>9, <2>1
    <2>3. Len(readBuffer) + (EdgePos - NextPos) <= capacity + quantumReserve
      BY <1>3, <2>2 DEF IndInv, PromiseInv
    <2>4. Len(readBuffer') + (EdgePos - NextPos') = Len(readBuffer) + (EdgePos - NextPos)
      BY <1>4, <1>9, <2>1
    <2> QED
      BY <2>3, <2>4
  <1>28. UnreadInv'
    BY <1>1, <1>14 DEF UnreadInv
  <1>29. DiscardInv'
    <2>1. discarded' = (discarded \/ (userClosed /\ n > 0))
      BY <1>2 DEF AppendReadBuffer
    <2> QED
      BY <1>1, <1>14, <1>15, <1>17, <2>1 DEF IndInv, DiscardInv
  <1> QED
    BY <1>20, <1>21, <1>22, <1>23, <1>24, <1>25, <1>26, <1>27, <1>28, <1>29 DEF IndInv

\* What does not fit at RCV.NXT goes through the scoreboard.
LEMMA ReceiveOutOfOrderStep ==
    ASSUME IndInv, ReceiveOutOfOrder
    PROVE  IndInv'
  <1> DEFINE s == Trimmed(job.seg)
             r == Stored(s, job.win)
             keep == r.inWindow /\ r.fits
  <1>1. /\ UNCHANGED <<right, quantumReserve, lastAdvertisedWindow>>
        /\ UNCHANGED <<readBuffer, consumed, discarded>>
        /\ UNCHANGED <<capacity, receiveAutoTune, readClosed, userClosed, aborted>>
        /\ UNCHANGED <<receiveNext, remoteFINReceived, unread, ackPending, readErr, terminated>>
        /\ UNCHANGED <<wakeWindow, job>>
        /\ pc = "receive" /\ ~remoteFINReceived
    BY DEF ReceiveOutOfOrder, winVars, bufVars, sockVars
  <1>2. /\ keep => outOfOrder' = r.held /\ pieceStarts' = r.starts /\ finSeq' = r.finSeq
        /\ ~keep => UNCHANGED <<outOfOrder, pieceStarts, finSeq>>
        /\ pc' \in {"finish", "publish", "promote"}
        /\ pc' = "finish" => ~(keep /\ r.progress)
    BY DEF ReceiveOutOfOrder
  <1>3. /\ job.kind = "segment" /\ job.seg \in PeerSegments /\ job.win \in Nat
        /\ ~job.closed /\ ~AfterFin /\ NextPos <= StreamLen
        /\ job.win # 0 => NextPos + job.win <= EdgePos
        /\ job.new <=> /\ job.seg.data # <<>>
                       /\ Position(job.seg.seq) + Len(job.seg.data) > NextPos
    BY <1>1, JobIs DEF IndInv, JobInv, AfterFin, Closed, FinInv
  <1>4. /\ NextPos \in Nat /\ EdgePos \in Nat /\ receiveNext \in SeqNums
    BY Near DEF IndInv, ReceiveTypes
  <1>5. /\ StreamRange(s) /\ NextPos <= Position(s.seq) /\ (s.data # <<>> => job.new)
    BY <1>3, <1>4, PeerSegmentRange, TrimmedRange
  <1> HIDE DEF s
  <1>6. /\ DOMAIN r.held \subseteq SeqNums /\ IsFiniteSet(DOMAIN r.held)
        /\ r.starts \subseteq DOMAIN r.held
        /\ r.fits => Cardinality(r.starts) <= MaxOutOfOrder
        /\ \A q \in DOMAIN r.held :
             /\ r.held[q] = Position(q)
             /\ NextPos <= Position(q) /\ Position(q) < EdgePos /\ Position(q) < StreamLen
             /\ r.finSeq # NoFin => Position(q) < Position(r.finSeq)
             /\ q \in r.starts \/ SeqSub(q, 1) \in DOMAIN r.held
        /\ r.finSeq \in SeqNums \cup {NoFin}
        /\ r.finSeq # NoFin => /\ Position(r.finSeq) \in FinPositions
                               /\ NextPos <= Position(r.finSeq)
        /\ ~r.progress => DOMAIN r.held = Held
        /\ s.data = <<>> => DOMAIN r.held \subseteq Held
    BY <1>3, <1>5, StoredSound DEF IndInv
  <1> HIDE DEF r
  <1>7. /\ NextPos' = NextPos /\ EdgePos' = EdgePos /\ Discarding' = Discarding
        /\ ~AfterFin' /\ ~Closed' /\ NewSegment' = NewSegment /\ (NewSegment <=> job.new)
    BY <1>1, <1>2, <1>3 DEF NextPos, EdgePos, Discarding, AfterFin, Closed, NewSegment
  <1>8. /\ pc' = "finish" => Held' = Held
        /\ Held = {} /\ Held' # {} => NewSegment
    <2>1. CASE keep
      BY <1>2, <1>5, <1>6, <1>7, <2>1 DEF Held
    <2>2. CASE ~keep
      BY <1>2, <2>2 DEF Held
    <2> QED
      BY <2>1, <2>2
  <1>9. ScoreboardInv' /\ finSeq' \in SeqNums \cup {NoFin}
        /\ (finSeq' # NoFin => Position(finSeq') \in FinPositions /\ NextPos <= Position(finSeq'))
    <2>1. CASE keep
      <3>1. outOfOrder' = r.held /\ pieceStarts' = r.starts /\ finSeq' = r.finSeq /\ r.fits
            /\ Held' = DOMAIN r.held
        BY <1>2, <2>1 DEF Held
      <3> HIDE DEF keep
      <3> QED
        BY <1>6, <1>7, <3>1 DEF ScoreboardInv
    <2>2. CASE ~keep
      <3>1. UNCHANGED <<outOfOrder, pieceStarts, finSeq>> /\ Held' = Held
        BY <1>2, <2>2 DEF Held
      <3> HIDE DEF keep
      <3> QED
        BY <1>7, <3>1 DEF IndInv, ScoreboardInv, FinInv, ReceiveTypes
    <2> QED
      BY <2>1, <2>2
  <1>10. HeldBytes \in Nat /\ (HeldBytes = 0 <=> Held = {})
    BY HeldNone DEF IndInv, ScoreboardInv
  <1>20. ReceiveTypes'
    BY <1>1, <1>9 DEF IndInv, ReceiveTypes
  <1>21. FlagTypes'
    BY <1>1 DEF IndInv, FlagTypes
  <1>22. JobInv'
    BY <1>1, <1>2, <1>3 DEF IndInv, JobInv
  <1>23. DeliveryInv'
    BY <1>1, <1>3, <1>7 DEF IndInv, DeliveryInv
  <1>24. FinInv'
    BY <1>1, <1>3, <1>7, <1>9 DEF IndInv, FinInv
  <1>26. StuckInv'
    <2>1. pc' = "finish" => Available' = Available
      BY <1>1, <1>7, <1>8 DEF Available, HeldBytes, Held
    <2> QED
      BY <1>1, <1>2, <1>7, <1>8, <2>1 DEF IndInv, StuckInv
  <1>27. PromiseInv'
    BY <1>1, <1>3, <1>7 DEF IndInv, PromiseInv
  <1>28. UnreadInv'
    <2>1. ~terminated => unread = HeldBytes
      BY <1>1 DEF IndInv, UnreadInv
    <2>2. pc' = "finish" => HeldBytes' = HeldBytes
      BY <1>8 DEF HeldBytes, Held
    <2> QED
      BY <1>1, <1>2, <1>7, <1>8, <1>10, <2>1, <2>2 DEF UnreadInv
  <1>29. DiscardInv'
    <2>1. userClosed /\ ~aborted /\ ~terminated => Held = {}
      BY <1>1 DEF IndInv, DiscardInv
    <2>2. discarded => aborted \/ terminated
      BY <1>1 DEF IndInv, DiscardInv
    <2> QED
      BY <1>1, <1>2, <1>7, <1>8, <2>1, <2>2 DEF DiscardInv
  <1> QED
    BY <1>9, <1>20, <1>21, <1>22, <1>23, <1>24, <1>26, <1>27, <1>28, <1>29 DEF IndInv

\* The byte before a held byte, if held, is at the position before.
LEMMA PrevHeld ==
    ASSUME ScoreboardInv, NEW q \in Held, SeqSub(q, 1) \in Held
    PROVE  Position(q) > 0 /\ Position(SeqSub(q, 1)) = Position(q) - 1
  <1>1. q \in SeqNums /\ Position(q) \in Nat
    BY PosIs DEF ScoreboardInv
  <1>2. CASE Position(q) > 0
    BY <1>1, <1>2, PosPrev
  <1>3. CASE Position(q) = 0
    <2>1. Position(SeqSub(q, 1)) = SeqMod - 1
      BY <1>1, <1>3, PosBeforeISN
    <2>2. Position(SeqSub(q, 1)) < StreamLen
      BY DEF ScoreboardInv
    <2> QED
      BY <2>1, <2>2, HalfType, Stream, Capacities, WindowFits
  <1> QED
    BY <1>1, <1>2, <1>3

\* Removing the first n bytes of the piece at RCV.NXT leaves a scoreboard.
LEMMA PieceRemoved ==
    ASSUME ReceiveTypes, FinInv, ScoreboardInv, NextPos \in Nat, receiveNext \in pieceStarts,
           NEW size \in Nat \ {0}, NEW n \in 0 .. size,
           NextPos + size <= StreamLen,
           \A k \in 0 .. (size - 1) : SeqAdd(receiveNext, k) \in Held,
           \A k \in 1 .. (size - 1) : SeqAdd(receiveNext, k) \notin pieceStarts,
           SeqAdd(receiveNext, size) \in Held => SeqAdd(receiveNext, size) \in pieceStarts,
           receiveNext' = SeqAdd(receiveNext, n),
           outOfOrder' = Restricted(Held \ Run(receiveNext, n)),
           pieceStarts' = (pieceStarts \ {receiveNext})
                            \cup (IF n < size THEN {SeqAdd(receiveNext, n)} ELSE {}),
           right' = right, finSeq' = finSeq
    PROVE  /\ ScoreboardInv' /\ receiveNext' \in SeqNums /\ NextPos' = NextPos + n
           /\ finSeq # NoFin => NextPos' <= Position(finSeq)
           /\ Held' \subseteq Held /\ HeldBytes' = HeldBytes - n /\ size <= HeldBytes
  <1> DEFINE moved == Run(receiveNext, n)
             rest == SeqAdd(receiveNext, n)
  <1>1. /\ StreamLen \in Nat /\ SeqMod \in Nat /\ StreamLen + 1 < SeqMod
        /\ receiveNext \in SeqNums /\ size \in Nat /\ size > 0 /\ n \in Nat /\ n <= size
        /\ Position(receiveNext) = NextPos
    BY HalfType, Stream, Capacities, WindowFits DEF ReceiveTypes, NextPos
  <1>2. /\ Held \subseteq SeqNums /\ IsFiniteSet(Held) /\ pieceStarts \subseteq Held
        /\ Cardinality(pieceStarts) <= MaxOutOfOrder
        /\ \A q \in Held :
            /\ q \in SeqNums
            /\ Position(q) \in Nat /\ outOfOrder[q] = Position(q)
            /\ NextPos <= Position(q) /\ Position(q) < EdgePos /\ Position(q) < StreamLen
            /\ finSeq # NoFin => Position(q) < Position(finSeq)
            /\ q \in pieceStarts \/ SeqSub(q, 1) \in Held
    BY PosIs DEF ScoreboardInv
  <1>3. \A k \in 0 .. size : SeqAdd(receiveNext, k) \in SeqNums
                             /\ Position(SeqAdd(receiveNext, k)) = NextPos + k
    <2> TAKE k \in 0 .. size
    <2>1. k \in Nat /\ Position(receiveNext) + k < SeqMod
      BY <1>1
    <2> QED
      BY <1>1, <2>1, PosAdd
  <1>4. receiveNext' \in SeqNums /\ NextPos' = NextPos + n /\ rest \in SeqNums
        /\ Position(rest) = NextPos + n
    BY <1>1, <1>3 DEF NextPos
  <1>5. /\ moved \subseteq SeqNums /\ IsFiniteSet(moved) /\ Cardinality(moved) = n
        /\ \A q \in SeqNums : q \in moved <=> NextPos <= Position(q) /\ Position(q) < NextPos + n
        /\ moved \subseteq Held
    <2>1. Position(receiveNext) + n < SeqMod
      BY <1>1
    <2>2. moved \subseteq Held
      BY <1>1 DEF Run
    <2> QED
      BY <1>1, <2>1, <2>2, RunIs
  <1>6. size <= HeldBytes /\ HeldBytes \in Nat
    <2>1. Position(receiveNext) + size < SeqMod
      BY <1>1
    <2>2. IsFiniteSet(Run(receiveNext, size)) /\ Cardinality(Run(receiveNext, size)) = size
      BY <1>1, <2>1, RunIs
    <2>3. Run(receiveNext, size) \subseteq Held
      BY DEF Run
    <2> QED
      BY <1>2, <2>2, <2>3, FS_Subset, FS_CardinalityType DEF HeldBytes, Held
  <1>7. finSeq # NoFin => NextPos + n <= Position(finSeq)
    <2> SUFFICES ASSUME finSeq # NoFin
                 PROVE  NextPos + n <= Position(finSeq)
      OBVIOUS
    <2>0. NextPos <= Position(finSeq) /\ Position(finSeq) \in Nat
      BY PosIs DEF FinInv, ReceiveTypes
    <2>1. CASE n = 0
      BY <1>1, <2>0, <2>1
    <2>2. CASE n # 0
      <3>1. n - 1 \in 0 .. (size - 1) /\ n - 1 \in 0 .. size
        BY <1>1, <2>2
      <3>2. SeqAdd(receiveNext, n - 1) \in Held
            /\ Position(SeqAdd(receiveNext, n - 1)) = NextPos + (n - 1)
        BY <1>3, <3>1
      <3>3. NextPos + (n - 1) < Position(finSeq)
        BY <1>2, <3>2
      <3> QED
        BY <1>1, <2>0, <3>3
    <2> QED
      BY <2>1, <2>2
  <1>8. Held' = Held \ moved /\ \A q \in Held' : outOfOrder'[q] = outOfOrder[q]
    BY DEF Held, Restricted
  <1>9. HeldBytes' = HeldBytes - n /\ IsFiniteSet(Held')
    <2>1. HeldBytes' = Cardinality(Held') /\ HeldBytes = Cardinality(Held)
      BY DEF HeldBytes, Held
    <2>2. Held \cap moved = moved
      BY <1>5
    <2> HIDE DEF moved
    <2>3. /\ IsFiniteSet(Held \ moved)
          /\ Cardinality(Held \ moved) = Cardinality(Held) - Cardinality(Held \cap moved)
      BY <1>2, FS_Difference
    <2> QED
      BY <1>5, <1>8, <2>1, <2>2, <2>3
  <1> HIDE DEF moved, rest
  <1>10. /\ n < size => pieceStarts' = (pieceStarts \ {receiveNext}) \cup {rest}
         /\ n = size => pieceStarts' = pieceStarts \ {receiveNext}
    BY <1>1 DEF rest
  <1>11. /\ n < size => rest \in Held'
         /\ \A p \in pieceStarts : p # receiveNext => p \in Held'
    <2>1. n < size => rest \in Held'
      <3> SUFFICES ASSUME n < size
                   PROVE  rest \in Held'
        OBVIOUS
      <3>1. n \in 0 .. (size - 1)
        BY <1>1
      <3>2. rest \in Held
        BY <3>1 DEF rest
      <3>3. rest \notin moved
        BY <1>1, <1>4, <1>5
      <3> QED
        BY <1>8, <3>2, <3>3
    <2>2. ASSUME NEW p \in pieceStarts, p # receiveNext, p \in moved
          PROVE  FALSE
      <3>1. PICK k \in 0 .. (n - 1) : p = SeqAdd(receiveNext, k)
        BY <2>2 DEF moved, Run
      <3>2. CASE k = 0
        <4>1. p \in SeqNums /\ Position(p) = NextPos + 0
          BY <1>1, <1>3, <3>1, <3>2
        <4>2. Position(p) = Position(receiveNext)
          BY <1>1, <4>1
        <4> QED
          BY <1>1, <2>2, <4>1, <4>2, PosInjective
      <3>3. CASE k # 0
        <4>1. k \in 1 .. (size - 1)
          BY <1>1, <3>1, <3>3
        <4> QED
          BY <2>2, <3>1, <4>1
      <3> QED
        BY <3>2, <3>3
    <2> QED
      BY <1>2, <1>8, <2>1, <2>2
  <1>12. pieceStarts' \subseteq Held'
    <2>1. CASE n < size
      BY <1>10, <1>11, <2>1
    <2>2. CASE n = size
      BY <1>10, <1>11, <2>2
    <2> QED
      BY <1>1, <2>1, <2>2
  <1>13. Cardinality(pieceStarts') <= MaxOutOfOrder
    <2>1. /\ IsFiniteSet(pieceStarts) /\ Cardinality(pieceStarts) \in Nat
          /\ MaxOutOfOrder \in Nat
      BY <1>2, FS_Subset, FS_CardinalityType, Stream
    <2> DEFINE P == pieceStarts \ {receiveNext}
    <2>2. /\ IsFiniteSet(P) /\ Cardinality(P) = Cardinality(pieceStarts) - 1
      BY <2>1, FS_RemoveElement
    <2>3. /\ n < size => pieceStarts' = P \cup {rest}
          /\ n = size => pieceStarts' = P
      BY <1>10
    <2> HIDE DEF P
    <2>4. Cardinality(P) \in Nat
      BY <2>2, FS_CardinalityType
    <2>5. Cardinality(P) + 1 <= MaxOutOfOrder
      BY <1>2, <2>1, <2>2, <2>4
    <2>6. Cardinality(P \cup {rest}) <= MaxOutOfOrder
      <3>1. CASE rest \in P
        <4>1. P \cup {rest} = P
          BY <3>1
        <4> QED
          BY <2>1, <2>4, <2>5, <4>1
      <3>2. CASE rest \notin P
        <4>1. Cardinality(P \cup {rest}) = Cardinality(P) + 1
          BY <2>2, <3>2, FS_AddElement
        <4> QED
          BY <2>5, <4>1
      <3> QED
        BY <3>1, <3>2
    <2>7. Cardinality(P) <= MaxOutOfOrder
      BY <2>1, <2>4, <2>5
    <2> QED
      BY <1>1, <2>3, <2>6, <2>7
  <1>14. ASSUME NEW q \in Held'
         PROVE  q \in pieceStarts' \/ SeqSub(q, 1) \in Held'
    <2>1. q \in Held /\ q \notin moved /\ q \in SeqNums /\ Position(q) \in Nat
          /\ NextPos <= Position(q) /\ ~(Position(q) < NextPos + n)
      BY <1>2, <1>5, <1>8, <1>14
    <2>2. Position(q) = NextPos + n => q = rest
      BY <1>4, <2>1, PosInjective
    <2>3. CASE q \in pieceStarts /\ q # receiveNext
      BY <1>1, <1>10, <2>3
    <2>4. CASE q = receiveNext
      <3>1. n = 0
        BY <1>1, <2>1, <2>4
      <3>2. q = rest /\ n < size
        BY <1>1, <2>2, <2>4, <3>1
      <3> QED
        BY <1>10, <3>2
    <2>5. CASE q \notin pieceStarts
      <3>1. SeqSub(q, 1) \in Held
        BY <1>2, <2>1, <2>5
      <3>2. Position(q) > 0 /\ Position(SeqSub(q, 1)) = Position(q) - 1
        BY <2>1, <3>1, PrevHeld
      <3>3. CASE SeqSub(q, 1) \notin moved
        BY <1>8, <3>1, <3>3
      <3>4. CASE SeqSub(q, 1) \in moved
        <4>1. Position(SeqSub(q, 1)) < NextPos + n
          BY <1>2, <1>5, <3>1, <3>4
        <4>2. Position(q) = NextPos + n
          BY <1>1, <2>1, <3>2, <4>1
        <4>3. q = rest
          BY <2>2, <4>2
        <4>4. CASE n < size
          BY <1>10, <4>3, <4>4
        <4>5. CASE n = size
          BY <2>1, <2>5, <4>3, <4>5 DEF rest
        <4> QED
          BY <1>1, <4>4, <4>5
      <3> QED
        BY <3>3, <3>4
    <2> QED
      BY <2>3, <2>4, <2>5
  <1>15. \A q \in Held' : /\ outOfOrder'[q] = Position(q)
                          /\ NextPos' <= Position(q) /\ Position(q) < EdgePos
                          /\ Position(q) < StreamLen
                          /\ finSeq # NoFin => Position(q) < Position(finSeq)
    <2> TAKE q \in Held'
    <2>1. q \in Held /\ q \notin moved /\ outOfOrder'[q] = outOfOrder[q]
      BY <1>8
    <2>2. ~(Position(q) < NextPos + n)
      BY <1>2, <1>5, <2>1
    <2>3. NextPos' <= Position(q)
      BY <1>1, <1>2, <1>4, <2>1, <2>2
    <2> QED
      BY <1>2, <2>1, <2>3
  <1>16. EdgePos' = EdgePos
    BY DEF EdgePos
  <1>17. ScoreboardInv'
    <2>1. Held' \subseteq SeqNums
      BY <1>2, <1>8
    <2> QED
      BY <1>9, <1>12, <1>13, <1>14, <1>15, <1>16, <2>1 DEF ScoreboardInv
  <1> QED
    BY <1>4, <1>6, <1>7, <1>8, <1>9, <1>17

\* A promoted piece moves from the scoreboard to the buffer, as far as there is
\* room for it.
LEMMA PromotePieceStep ==
    ASSUME IndInv, PromotePiece
    PROVE  IndInv'
  <1>1. /\ UNCHANGED <<right, quantumReserve, lastAdvertisedWindow>>
        /\ UNCHANGED <<capacity, receiveAutoTune, readClosed, userClosed, aborted>>
        /\ UNCHANGED <<remoteFINReceived, ackPending, readErr, terminated, wakeWindow>>
        /\ pc = "promote" /\ pieceStarts # {} /\ FirstPiece = receiveNext
    BY DEF PromotePiece, winVars, sockVars
  <1>2. /\ NextPos \in Nat /\ NextPos <= StreamLen + 1 /\ EdgePos \in Nat
        /\ receiveNext \in SeqNums
        /\ StreamLen \in Nat /\ StreamLen + 2 < SeqMod /\ SeqMod \in Nat
        /\ Position(receiveNext) = NextPos
    BY Near, HalfType, Stream, Capacities, WindowFits DEF IndInv, ReceiveTypes, NextPos
  <1>3. receiveNext \in pieceStarts /\ receiveNext \in Held
    BY <1>1, <1>2, FirstPieceIs DEF IndInv
  <1>4. PICK size \in Nat \ {0} :
                /\ PieceEnd(receiveNext) = SeqAdd(receiveNext, size)
                /\ Position(receiveNext) + size <= StreamLen
                /\ \A k \in 0 .. (size - 1) : SeqAdd(receiveNext, k) \in Held
                /\ \A k \in 1 .. (size - 1) : SeqAdd(receiveNext, k) \notin pieceStarts
                /\ SeqAdd(receiveNext, size) \in Held => SeqAdd(receiveNext, size) \in pieceStarts
    BY <1>3, PieceEndIs DEF IndInv
  <1> DEFINE end == SeqAdd(receiveNext, size)
             n == Accepted(size, HeldBytes - size)
             fin == n = size /\ finSeq = end
             rest == SeqAdd(receiveNext, n)
             moved == Run(receiveNext, n)
             bytes == Bytes(receiveNext, size)
  <1>5. end \in SeqNums /\ Position(end) = NextPos + size /\ SeqSub(end, receiveNext) = size
    <2>1. Position(receiveNext) + size < SeqMod /\ size \in Nat
      BY <1>2, <1>4
    <2>2. end \in SeqNums /\ Position(end) = NextPos + size
      BY <1>2, <2>1, PosAdd
    <2> HIDE DEF end
    <2>3. SeqSub(end, receiveNext) = Position(end) - Position(receiveNext)
      BY <1>2, <2>1, <2>2, PosSub
    <2> QED
      BY <1>2, <2>1, <2>2, <2>3
  <1>6. /\ AppendReadBuffer(bytes, n)
        /\ receiveNext' = SeqAdd(rest, IF fin THEN 1 ELSE 0)
        /\ fin => outOfOrder' = <<>> /\ pieceStarts' = {} /\ finSeq' = NoFin
        /\ ~fin => /\ outOfOrder' = Restricted(Held \ moved)
                   /\ pieceStarts' = (pieceStarts \ {receiveNext})
                                        \cup (IF n < size THEN {rest} ELSE {})
                   /\ finSeq' = finSeq
        /\ job' = [job EXCEPT !.closed = fin]
        /\ pc' = (IF n < size \/ fin THEN "promoted" ELSE "promote") /\ unread' = unread
    BY <1>1, <1>4, <1>5 DEF PromotePiece, Run, Held
  <1>7. /\ job.kind \in {"segment", "wake"} /\ ~job.closed /\ ~remoteFINReceived /\ ~AfterFin
        /\ ~terminated /\ NextPos <= StreamLen
    BY <1>1, JobIs DEF IndInv, JobInv, AfterFin, Closed, FinInv
  <1>8. HeldBytes \in Nat /\ size <= HeldBytes /\ (HeldBytes = 0 <=> Held = {})
    <2>1. HeldBytes \in Nat /\ (HeldBytes = 0 <=> Held = {})
      BY HeldNone DEF IndInv, ScoreboardInv
    <2>2. Position(receiveNext) + size < SeqMod /\ size \in Nat
      BY <1>2, <1>4
    <2>3. IsFiniteSet(Run(receiveNext, size)) /\ Cardinality(Run(receiveNext, size)) = size
      BY <1>2, <2>2, RunIs
    <2>4. Run(receiveNext, size) \subseteq Held /\ IsFiniteSet(Held)
      BY <1>4 DEF Run, IndInv, ScoreboardInv
    <2>5. HeldBytes = Cardinality(Held)
      BY DEF HeldBytes, Held
    <2> QED
      BY <2>1, <2>3, <2>4, <2>5, FS_Subset
  <1>9. /\ n \in Nat /\ n <= size /\ (Discarding => n = size)
        /\ n < size =>
             capacity - Len(readBuffer) - (HeldBytes - size) + quantumReserve <= n
    <2>1. HeldBytes - size \in Nat /\ size \in Nat
      BY <1>8
    <2> QED
      BY <2>1, AcceptedIs DEF IndInv
  <1> HIDE DEF n
  <1>10. rest \in SeqNums /\ Position(rest) = NextPos + n
    <2>1. Position(receiveNext) + n < SeqMod
      BY <1>2, <1>4, <1>9
    <2> QED
      BY <1>2, <1>9, <2>1, PosAdd
  <1>11. /\ bytes \in Seq(Nat) /\ Len(bytes) = size /\ n \in 0 .. Len(bytes)
         /\ \A i \in 1 .. n : bytes[i] = NextPos + i - 1
    <2>1. \A i \in 1 .. size : outOfOrder[SeqAdd(receiveNext, i - 1)] = NextPos + i - 1
      <3> TAKE i \in 1 .. size
      <3>1. i - 1 \in 0 .. (size - 1) /\ i - 1 \in Nat /\ Position(receiveNext) + (i - 1) < SeqMod
            /\ NextPos + (i - 1) = NextPos + i - 1
        BY <1>2, <1>4
      <3> DEFINE k == i - 1
      <3>2. k \in 0 .. (size - 1) /\ k \in Nat /\ Position(receiveNext) + k < SeqMod
        BY <3>1
      <3> HIDE DEF k
      <3>3. SeqAdd(receiveNext, k) \in Held
            /\ Position(SeqAdd(receiveNext, k)) = NextPos + k
        BY <1>2, <1>4, <3>2, PosAdd
      <3>4. outOfOrder[SeqAdd(receiveNext, k)] = NextPos + k
        BY <3>3 DEF IndInv, ScoreboardInv
      <3> QED
        BY <3>1, <3>4 DEF k
    <2>2. \A i \in 1 .. size : NextPos + i - 1 \in Nat
      BY <1>2
    <2>3. bytes = [i \in 1 .. size |-> outOfOrder[SeqAdd(receiveNext, i - 1)]]
      BY DEF Bytes
    <2>4. bytes \in Seq(Nat)
      BY <2>1, <2>2, <2>3, IsASeq
    <2>5. Len(bytes) = size /\ \A i \in 1 .. size : bytes[i] = NextPos + i - 1
      BY <2>1, <2>3, <2>4, LenProperties
    <2> HIDE DEF bytes
    <2> QED
      BY <1>4, <1>9, <2>4, <2>5
  <1> HIDE DEF bytes
  <1>12. /\ consumed' = consumed /\ readBuffer' \in Seq(Nat)
         /\ \A i \in 1 .. Len(readBuffer') : readBuffer'[i] = Len(consumed) + i - 1
         /\ Discarding => readBuffer' = <<>>
         /\ ~Discarding => /\ Len(readBuffer') = Len(readBuffer) + n
                           /\ NextPos + n = Len(consumed) + Len(readBuffer')
    BY <1>2, <1>6, <1>7, <1>11, AppendStep DEF IndInv
  <1>13. fin \in BOOLEAN /\ (fin => n = size /\ finSeq = end)
    OBVIOUS
  <1> HIDE DEF fin, end
  <1>14. /\ job' \in SegmentJobs \cup WakeJobs /\ job'.kind = job.kind
         /\ job'.closed = fin /\ NewSegment' = NewSegment
    BY <1>1, <1>6, <1>13, JobClosing DEF IndInv
  <1>15. EdgePos' = EdgePos /\ Discarding' = Discarding
    BY <1>1 DEF EdgePos, Discarding
  <1>16. /\ userClosed /\ ~aborted => NewSegment
         /\ discarded' = (discarded \/ (userClosed /\ n > 0))
         /\ discarded => aborted \/ (userClosed /\ NewSegment)
         /\ unread # 0 \/ NewSegment
    BY <1>1, <1>3, <1>6, <1>7 DEF IndInv, DiscardInv, UnreadInv, AppendReadBuffer
  <1>17. pc' \in {"promoted", "promote"} /\ (fin => pc' = "promoted")
    BY <1>1, <1>6
  <1>18. /\ AfterFin' <=> fin
         /\ Closed' <=> fin
    BY <1>1, <1>7, <1>14, <1>15, <1>17 DEF AfterFin, Closed
  <1>19. JobInv'
    BY <1>1, <1>7, <1>14, <1>15, <1>17, <1>18 DEF IndInv, JobInv
  <1>20. FlagTypes'
    BY <1>1, <1>16 DEF IndInv, FlagTypes
  <1>21. DiscardInv'
    <2>1. discarded' => aborted \/ (userClosed /\ NewSegment)
      BY <1>16
    <2> QED
      BY <1>1, <1>14, <1>16, <1>17, <2>1 DEF DiscardInv
  <1>22. CASE fin
    <2>1. /\ outOfOrder' = <<>> /\ pieceStarts' = {} /\ finSeq' = NoFin
          /\ receiveNext' = SeqAdd(rest, 1) /\ n = size
          /\ pc' = "promoted" /\ unread' = unread
      BY <1>6, <1>13, <1>22
    <2>2. Held' = {} /\ HeldBytes' = 0
      BY <2>1, FS_EmptySet DEF Held, HeldBytes
    <2>3. receiveNext' \in SeqNums /\ NextPos' = NextPos + n + 1
      <3>1. Position(rest) + 1 < SeqMod
        BY <1>2, <1>4, <1>9, <1>10
      <3>2. receiveNext' \in SeqNums /\ NextPos' = Position(rest) + 1
        BY <1>10, <2>1, <3>1, PosAdd DEF NextPos
      <3> QED
        BY <1>2, <1>9, <1>10, <3>2
    <2>4. NextPos + n \in FinPositions
      <3>1. finSeq \in SeqNums /\ finSeq # NoFin
        BY <1>5, <1>13, <1>22, SequenceSpace DEF NoFin, SeqNums
      <3> QED
        BY <1>5, <1>13, <1>22, <2>1, <3>1 DEF IndInv, FinInv
    <2>5. ReceiveTypes'
      BY <1>1, <1>12, <2>1, <2>2, <2>3 DEF IndInv, ReceiveTypes
    <2>6. DeliveryInv'
      <3>1. ~Discarding => NextPos' = Len(consumed) + Len(readBuffer') + 1
        BY <1>12, <2>3
      <3> QED
        BY <1>12, <1>15, <1>18, <1>22, <3>1 DEF IndInv, DeliveryInv
    <2>7. FinInv'
      <3>1. NextPos' >= 1 /\ NextPos' - 1 \in FinPositions
        <4>1. NextPos' - 1 = NextPos + n /\ NextPos' >= 1
          BY <1>2, <1>9, <2>3
        <4> QED
          BY <2>4, <4>1
      <3> QED
        BY <1>1, <1>15, <1>18, <1>22, <2>1, <2>2, <3>1 DEF IndInv, FinInv
    <2>8. ScoreboardInv'
      BY <2>1, <2>2, FS_EmptySet, Stream DEF ScoreboardInv
    <2>9. StuckInv'
      BY <2>2 DEF StuckInv
    <2>10. PromiseInv'
      BY <1>15, <1>18, <1>22 DEF IndInv, PromiseInv
    <2>11. UnreadInv'
      BY <2>1, <2>2 DEF UnreadInv
    <2> QED
      BY <1>19, <1>20, <1>21, <2>5, <2>6, <2>7, <2>8, <2>9, <2>10, <2>11 DEF IndInv
  <1>23. CASE ~fin
    <2>1. receiveNext' = SeqAdd(receiveNext, n)
      <3>1. receiveNext' = SeqAdd(rest, 0)
        BY <1>6, <1>23
      <3>2. Position(rest) + 0 < SeqMod /\ Position(rest) + 0 = Position(rest)
        BY <1>2, <1>4, <1>9, <1>10
      <3>3. SeqAdd(rest, 0) \in SeqNums /\ Position(SeqAdd(rest, 0)) = Position(rest)
        BY <1>10, <3>2, PosAdd
      <3> HIDE DEF rest
      <3>4. SeqAdd(rest, 0) = rest
        BY <1>10, <3>3, PosInjective
      <3> QED
        BY <3>1, <3>4 DEF rest
    <2>2. n \in 0 .. size /\ NextPos + size <= StreamLen
      BY <1>2, <1>4, <1>9
    <2>3. /\ ScoreboardInv' /\ receiveNext' \in SeqNums /\ NextPos' = NextPos + n
          /\ finSeq # NoFin => NextPos' <= Position(finSeq)
          /\ Held' \subseteq Held /\ HeldBytes' = HeldBytes - n
      BY <1>1, <1>2, <1>3, <1>4, <1>6, <1>23, <2>1, <2>2, PieceRemoved DEF IndInv
    <2>4. /\ ~(n < size) => pc' = "promote"
          /\ finSeq' = finSeq /\ unread' = unread
      BY <1>6, <1>23
    <2>6. ReceiveTypes'
      BY <1>1, <1>12, <2>3, <2>4 DEF IndInv, ReceiveTypes
    <2>7. DeliveryInv'
      <3>1. ~Discarding => NextPos' = Len(consumed) + Len(readBuffer')
        BY <1>12, <2>3
      <3> QED
        BY <1>12, <1>15, <1>18, <1>23, <3>1 DEF IndInv, DeliveryInv
    <2>8. FinInv'
      <3>1. NextPos' <= StreamLen
        BY <1>2, <1>9, <2>2, <2>3
      <3> QED
        BY <1>1, <1>15, <1>18, <1>23, <2>3, <2>4, <3>1 DEF IndInv, FinInv
    <2>9. Len(readBuffer) \in Nat /\ capacity \in Int /\ quantumReserve \in Int
      BY LenProperties, Capacities, WindowFits DEF IndInv, ReceiveTypes
    <2>10. StuckInv'
      <3> SUFFICES ASSUME n < size, ~Discarding
                   PROVE  Available' + quantumReserve' <= 0
        <4>1. ~(n < size) => pc' = "promote"
          BY <2>4
        <4> QED
          BY <1>15, <4>1 DEF StuckInv
      <3>1. Available' = capacity - Len(readBuffer') - HeldBytes'
        BY <1>1, <1>15 DEF Available
      <3>2. Len(readBuffer') = Len(readBuffer) + n /\ HeldBytes' = HeldBytes - n
            /\ capacity - Len(readBuffer) - (HeldBytes - size) + quantumReserve <= n
            /\ quantumReserve' = quantumReserve
        BY <1>1, <1>9, <1>12, <2>3
      <3>3. size \in Nat /\ n \in Nat /\ HeldBytes \in Nat
        BY <1>8, <1>9
      <3> HIDE DEF rest, moved
      <3>4. Available' = capacity - Len(readBuffer) - HeldBytes
        BY <2>9, <3>1, <3>2, <3>3
      <3> QED
        BY <2>9, <3>2, <3>3, <3>4
    <2>11. PromiseInv'
      <3> SUFFICES ASSUME receiveAutoTune, ~Discarding, EdgePos > NextPos'
                   PROVE  Len(readBuffer') + (EdgePos - NextPos') <= capacity + quantumReserve
        BY <1>1, <1>15 DEF IndInv, PromiseInv
      <3>1. NextPos' = NextPos + n /\ Len(readBuffer') = Len(readBuffer) + n
        BY <1>12, <2>3
      <3>2. EdgePos > NextPos
        BY <1>2, <1>9, <3>1
      <3>3. Len(readBuffer) + (EdgePos - NextPos) <= capacity + quantumReserve
        BY <1>7, <3>2 DEF IndInv, PromiseInv
      <3>4. Len(readBuffer') + (EdgePos - NextPos') = Len(readBuffer) + (EdgePos - NextPos)
        BY <1>2, <1>9, <2>9, <3>1
      <3> QED
        BY <3>3, <3>4
    <2>12. UnreadInv'
      BY <1>14, <1>16, <1>17, <2>4 DEF UnreadInv
    <2> QED
      BY <1>19, <1>20, <1>21, <2>3, <2>6, <2>7, <2>8, <2>10, <2>11, <2>12 DEF IndInv
  <1> QED
    BY <1>13, <1>22, <1>23
(* The invariant holds of every behaviour. *)

\* The first edge promises no more than the initial capacity, scaled or not.
LEMMA FirstEdge ==
    ASSUME NEW x \in Nat, NEW w \in Nat
    PROVE  /\ MinOf(x, w) \in Nat /\ MinOf(x, w) <= x /\ MinOf(x, w) <= w * Quantum
           /\ MinOf(x \div Quantum, w) \in Nat
           /\ MinOf(x \div Quantum, w) * Quantum \in Nat
           /\ MinOf(x \div Quantum, w) * Quantum <= x
           /\ MinOf(x \div Quantum, w) * Quantum <= w * Quantum
  <1> DEFINE d == x \div Quantum
             m == MinOf(d, w)
  <1>1. d \in Nat /\ d * Quantum <= x /\ Quantum \in Nat
    BY RoundDown, WindowFits
  <1> HIDE DEF d
  <1>2. m \in Nat /\ m <= d /\ m <= w
    BY <1>1 DEF MinOf
  <1> HIDE DEF m
  <1>3. \A a, b, q \in Nat : a <= b => a * q \in Nat /\ a * q <= b * q
    OBVIOUS
  <1>4. /\ m * Quantum \in Nat /\ m * Quantum <= d * Quantum /\ d * Quantum \in Nat
        /\ m * Quantum <= w * Quantum /\ w * Quantum \in Nat
    BY <1>1, <1>2, <1>3
  <1>5. \A a, b, c \in Nat : a <= b /\ b <= c => a <= c
    OBVIOUS
  <1>6. m * Quantum <= x
    BY <1>1, <1>4, <1>5
  <1>7. MinOf(x, w) \in Nat /\ MinOf(x, w) <= x /\ MinOf(x, w) <= w
    BY DEF MinOf
  <1>8. w <= w * Quantum
    <2>1. \A a \in Nat, q \in Nat \ {0} : a <= a * q
      OBVIOUS
    <2> QED
      BY <2>1, WindowFits
  <1>9. MinOf(x, w) <= w * Quantum
    BY <1>4, <1>5, <1>7, <1>8
  <1> QED
    BY <1>2, <1>4, <1>6, <1>7, <1>9 DEF m, d

LEMMA InitEstablishes == Init => IndInv
  <1> SUFFICES ASSUME Init
               PROVE  IndInv
    OBVIOUS
  <1>1. /\ receiveNext = ISN /\ outOfOrder = <<>> /\ pieceStarts = {} /\ finSeq = NoFin
        /\ remoteFINReceived = FALSE /\ unread = 0
        /\ capacity = InitialCapacity /\ receiveAutoTune = TRUE /\ quantumReserve = 0
        /\ readBuffer = <<>> /\ consumed = <<>> /\ discarded = FALSE
        /\ readClosed = FALSE /\ userClosed = FALSE /\ readErr = "none"
        /\ aborted = FALSE /\ terminated = FALSE
        /\ wakeWindow = FALSE /\ pc = "idle" /\ job = NoJob /\ ackPending \in BOOLEAN
    BY DEF Init
  <1>2. PICK wire, edge :
                /\ lastAdvertisedWindow = wire /\ right = SeqAdd(ISN, edge)
                /\ wire \in Nat /\ edge \in Nat /\ edge <= InitialCapacity
                /\ edge <= MaxWindow
    <2>1. InitialCapacity \in Nat /\ MaxWireWindow \in Nat /\ MaxWireWindow * Quantum \in Nat
          /\ InitialCapacity <= MaxCapacity /\ MaxCapacity \in Nat
      BY Capacities, WindowFits
    <2>2. ASSUME NEW e \in Nat, e <= InitialCapacity, e <= MaxWireWindow * Quantum
          PROVE  e <= MaxWindow
      BY <2>1, <2>2 DEF MaxWindow, MinOf
    <2>3. PICK scaled \in BOOLEAN :
            LET wire == IF scaled THEN MinOf(InitialCapacity \div Quantum, MaxWireWindow)
                        ELSE MinOf(InitialCapacity, MaxWireWindow)
            IN  /\ lastAdvertisedWindow = wire
                /\ right = SeqAdd(ISN, IF scaled THEN wire * Quantum ELSE wire)
      BY DEF Init
    <2>4. CASE scaled
      <3> DEFINE w == MinOf(InitialCapacity \div Quantum, MaxWireWindow)
      <3>1. lastAdvertisedWindow = w /\ right = SeqAdd(ISN, w * Quantum)
        BY <2>3, <2>4
      <3>2. /\ w \in Nat /\ w * Quantum \in Nat /\ w * Quantum <= InitialCapacity
            /\ w * Quantum <= MaxWireWindow * Quantum
        BY <2>1, FirstEdge
      <3> HIDE DEF w
      <3>3. w * Quantum <= MaxWindow
        BY <3>2, <2>2
      <3> QED
        BY <3>1, <3>2, <3>3
    <2>5. CASE ~scaled
      <3> DEFINE w == MinOf(InitialCapacity, MaxWireWindow)
      <3>1. lastAdvertisedWindow = w /\ right = SeqAdd(ISN, w)
        BY <2>3, <2>5
      <3>2. w \in Nat /\ w <= InitialCapacity /\ w <= MaxWireWindow * Quantum
        BY <2>1, FirstEdge
      <3> HIDE DEF w
      <3>3. w <= MaxWindow
        BY <3>2, <2>2
      <3> QED
        BY <3>1, <3>2, <3>3
    <2> QED
      BY <2>4, <2>5
  <1>3. /\ ISN \in SeqNums /\ Position(ISN) = 0 /\ NextPos = 0 /\ StreamLen \in Nat
        /\ MaxWindow \in Nat /\ Quantum \in Nat /\ Quantum > 0 /\ SeqMod \in Nat
        /\ StreamLen + 2 + MaxWindow + Quantum < SeqMod
        /\ InitialCapacity \in Nat
    BY <1>1, PosISN, HalfType, Stream, Capacities, WindowFits DEF NextPos
  <1>4. right \in SeqNums /\ EdgePos = edge
    <2>1. Position(ISN) + edge < SeqMod
      BY <1>2, <1>3
    <2> QED
      BY <1>2, <1>3, <2>1, PosAdd DEF EdgePos
  <1>5. Held = {} /\ HeldBytes = 0
    BY <1>1, FS_EmptySet DEF Held, HeldBytes
  <1>6. readBuffer \in Seq(Nat) /\ consumed \in Seq(Nat) /\ Len(readBuffer) = 0
        /\ Len(consumed) = 0
    BY <1>1
  <1>7. ~Discarding /\ ~AfterFin /\ ~Closed
    BY <1>1 DEF Discarding, AfterFin, Closed
  <1>10. ReceiveTypes
    BY <1>1, <1>2, <1>3, <1>4, <1>6, Capacities DEF ReceiveTypes
  <1>11. FlagTypes
    BY <1>1 DEF FlagTypes
  <1>12. JobInv
    BY <1>1 DEF JobInv
  <1>13. DeliveryInv
    BY <1>3, <1>6, <1>7 DEF DeliveryInv
  <1>14. FinInv
    BY <1>1, <1>3, <1>7 DEF FinInv
  <1>15. ScoreboardInv
    BY <1>1, <1>5, FS_EmptySet, Stream DEF ScoreboardInv
  <1>16. StuckInv
    BY <1>5 DEF StuckInv
  <1>17. PromiseInv
    BY <1>1, <1>2, <1>3, <1>4, <1>6 DEF PromiseInv
  <1>18. UnreadInv
    BY <1>1, <1>5 DEF UnreadInv
  <1>19. DiscardInv
    BY <1>1, <1>5 DEF DiscardInv
  <1> QED
    BY <1>10, <1>11, <1>12, <1>13, <1>14, <1>15, <1>16, <1>17, <1>18, <1>19 DEF IndInv

\* Only a published segment moves the edge, and it moves it forward.
LEMMA PublishStep ==
    ASSUME IndInv, FlushACK \/ SendSegment \/ \E s \in PeerSegments : RejectSegment(s)
    PROVE  IndInv' /\ EdgePos' >= EdgePos
  <1>1. /\ CommitWindow /\ pc \in {"idle", "receive"} /\ ackPending' \in {FALSE, ackPending}
        /\ UNCHANGED <<asmVars, remoteFINReceived, unread, bufVars, sockVars, readErr,
                       terminated, wakeWindow, pc, job>>
    <2>1. CASE FlushACK
      BY <2>1 DEF FlushACK
    <2>2. CASE SendSegment
      BY <2>2 DEF SendSegment
    <2>3. CASE \E s \in PeerSegments : RejectSegment(s)
      BY <2>3 DEF RejectSegment
    <2> QED
      BY <2>1, <2>2, <2>3
  <1>2. ackPending' \in BOOLEAN
    BY <1>1 DEF IndInv, FlagTypes
  <1> QED
    BY <1>1, <1>2, CommitStep

LEMMA StutterStep ==
    ASSUME IndInv, UNCHANGED vars
    PROVE  IndInv' /\ right' = right
  <1>1. /\ UNCHANGED <<receiveNext, outOfOrder, pieceStarts, finSeq>>
        /\ UNCHANGED <<right, quantumReserve, lastAdvertisedWindow>>
        /\ UNCHANGED <<readBuffer, consumed, discarded>>
        /\ UNCHANGED <<capacity, receiveAutoTune, readClosed, userClosed, aborted>>
        /\ UNCHANGED <<remoteFINReceived, unread, ackPending, readErr, terminated>>
        /\ UNCHANGED <<wakeWindow, pc, job>>
    BY DEF vars, asmVars, winVars, bufVars, sockVars
  <1>2. /\ NextPos' = NextPos /\ EdgePos' = EdgePos /\ Held' = Held
        /\ Discarding' = Discarding /\ HeldBytes' = HeldBytes /\ Available' = Available
        /\ AfterFin' = AfterFin /\ Closed' = Closed /\ NewSegment' = NewSegment
    BY <1>1 DEF NextPos, EdgePos, Held, HeldBytes, Discarding, Available, AfterFin, Closed,
                NewSegment
  <1>10. ReceiveTypes' /\ FlagTypes'
    BY <1>1 DEF IndInv, ReceiveTypes, FlagTypes
  <1>12. JobInv'
    BY <1>1, <1>2 DEF IndInv, JobInv
  <1>13. DeliveryInv'
    BY <1>1, <1>2 DEF IndInv, DeliveryInv
  <1>14. FinInv'
    BY <1>1, <1>2 DEF IndInv, FinInv
  <1>15. ScoreboardInv'
    BY <1>1, <1>2 DEF IndInv, ScoreboardInv
  <1>16. StuckInv'
    BY <1>1, <1>2 DEF IndInv, StuckInv
  <1>17. PromiseInv'
    BY <1>1, <1>2 DEF IndInv, PromiseInv
  <1>18. UnreadInv' /\ DiscardInv'
    BY <1>1, <1>2 DEF IndInv, UnreadInv, DiscardInv
  <1> QED
    BY <1>1, <1>10, <1>12, <1>13, <1>14, <1>15, <1>16, <1>17, <1>18 DEF IndInv

LEMMA EdgeSame ==
    ASSUME IndInv, right' = right
    PROVE  EdgePos' >= EdgePos
  BY Near DEF IndInv, EdgePos

LEMMA StepPreserves ==
    ASSUME IndInv, [Next]_vars
    PROVE  IndInv' /\ EdgePos' >= EdgePos
  <1>1. CASE FlushACK \/ SendSegment \/ \E s \in PeerSegments : RejectSegment(s)
    BY <1>1, PublishStep
  <1>2. CASE \E s \in PeerSegments : AdmitSegment(s)
    <2>1. PICK s \in PeerSegments : AdmitSegment(s)
      BY <1>2
    <2>2. right' = right
      BY <2>1 DEF AdmitSegment, winVars
    <2> QED
      BY <2>1, <2>2, AdmitSegmentStep, EdgeSame
  <1>3. CASE Handler
    <2>1. IndInv'
      BY <1>3, ReceiveInOrderStep, ReceiveOutOfOrderStep, PublishUnreadStep, PromotePieceStep,
         PromoteFinStep, PromoteEndStep, FinishSegmentStep, ResetAfterCloseStep, TakeWakeStep,
         FinishWakeStep DEF Handler
    <2>2. right' = right
      BY <1>3 DEF Handler, ReceiveInOrder, ReceiveOutOfOrder, PublishUnread, PromotePiece,
                  PromoteFin, PromoteEnd, FinishSegment, ResetAfterClose, TakeWake, FinishWake,
                  winVars
    <2> QED
      BY <2>1, <2>2, EdgeSame
  <1>4. CASE Terminate
    <2>1. right' = right
      BY <1>4 DEF Terminate, winVars
    <2> QED
      BY <1>4, <2>1, TerminateStep, EdgeSame
  <1>5. CASE Application
    <2>1. IndInv'
      BY <1>5, ReadStep, CloseReadStep, CloseStep, SetReadBufferStep DEF Application
    <2>2. right' = right
      BY <1>5 DEF Application, Read, CloseRead, Close, SetReadBuffer, winVars
    <2> QED
      BY <2>1, <2>2, EdgeSame
  <1>6. CASE UNCHANGED vars
    BY <1>6, StutterStep, EdgeSame
  <1> QED
    BY <1>1, <1>2, <1>3, <1>4, <1>5, <1>6 DEF Next, Network

\* The inductive invariant holds in every state of the receive half, for every
\* initial sequence number, so wherever the stream and the window wrap.
THEOREM ReceiveInvariant == Spec => []IndInv
  BY InitEstablishes, StepPreserves, PTL DEF Spec

\* Read returns the peer's stream in order and without a gap, reports EOF only
\* at a FIN reached in sequence, and no byte acknowledged after Close is lost
\* in silence.
THEOREM StreamIsFaithful == Spec => []StreamFaithful
  <1>1. IndInv => InOrderDelivery
    <2> SUFFICES ASSUME IndInv
                 PROVE  InOrderDelivery
      OBVIOUS
    <2>1. /\ consumed \in Seq(Nat) /\ readBuffer \in Seq(Nat)
          /\ Len(consumed) \in Nat /\ Len(readBuffer) \in Nat
      BY LenProperties DEF IndInv, ReceiveTypes
    <2>2. /\ Delivered \in Seq(Nat) /\ Len(Delivered) = Len(consumed) + Len(readBuffer)
          /\ \A i \in 1 .. Len(Delivered) : i <= Len(consumed) => Delivered[i] = consumed[i]
          /\ \A i \in 1 .. Len(Delivered) : i > Len(consumed) =>
                i - Len(consumed) \in 1 .. Len(readBuffer)
                /\ Delivered[i] = readBuffer[i - Len(consumed)]
      BY <2>1, AppendedIs DEF Delivered
    <2>3. \A i \in 1 .. Len(Delivered) : Delivered[i] = i - 1
      <3> TAKE i \in 1 .. Len(Delivered)
      <3>1. i \in Nat /\ i >= 1
        BY <2>1, <2>2
      <3>2. CASE i <= Len(consumed)
        <4>1. i \in 1 .. Len(consumed) /\ Delivered[i] = consumed[i]
          BY <2>1, <2>2, <3>1, <3>2
        <4> QED
          BY <4>1 DEF IndInv, DeliveryInv
      <3>3. CASE i > Len(consumed)
        <4> DEFINE k == i - Len(consumed)
        <4>1. k \in 1 .. Len(readBuffer) /\ Delivered[i] = readBuffer[k]
          BY <2>2, <3>3
        <4>2. i = k + Len(consumed) /\ k \in Int
          BY <2>1, <3>1
        <4> HIDE DEF k
        <4>3. readBuffer[k] = Len(consumed) + k - 1
          BY <4>1 DEF IndInv, DeliveryInv
        <4> QED
          BY <2>1, <4>1, <4>2, <4>3
      <3> QED
        BY <2>1, <3>1, <3>2, <3>3
    <2>4. ASSUME ~Discarding, pc = "idle"
          PROVE  Position(receiveNext) = Len(Delivered) + (IF remoteFINReceived THEN 1 ELSE 0)
      <3>1. (AfterFin <=> remoteFINReceived) /\ remoteFINReceived \in BOOLEAN
        BY <2>4 DEF AfterFin, Closed, IndInv, FlagTypes
      <3>2. CASE remoteFINReceived
        BY <2>2, <2>4, <3>1, <3>2 DEF IndInv, DeliveryInv, NextPos
      <3>3. CASE ~remoteFINReceived
        <4>1. NextPos = Len(consumed) + Len(readBuffer)
          BY <2>4, <3>1, <3>3 DEF IndInv, DeliveryInv
        <4> QED
          BY <2>1, <2>2, <3>3, <4>1 DEF NextPos
      <3> QED
        BY <3>2, <3>3
    <2> QED
      BY <2>3, <2>4 DEF InOrderDelivery
  <1>2. IndInv => EOFOnlyAtFIN
    <2> SUFFICES ASSUME IndInv, readErr = "eof"
                 PROVE  /\ remoteFINReceived /\ Len(Delivered) \in FinPositions
                        /\ Position(receiveNext) = Len(Delivered) + 1
      BY DEF EOFOnlyAtFIN
    <2>1. remoteFINReceived /\ ~Discarding /\ AfterFin
      BY DEF IndInv, FinInv, AfterFin
    <2>2. /\ consumed \in Seq(Nat) /\ readBuffer \in Seq(Nat)
          /\ Len(consumed) \in Nat /\ Len(readBuffer) \in Nat
      BY LenProperties DEF IndInv, ReceiveTypes
    <2>3. Len(Delivered) = Len(consumed) + Len(readBuffer)
      BY <2>2, AppendedIs DEF Delivered
    <2>4. NextPos = Len(Delivered) + 1 /\ NextPos - 1 \in FinPositions
      BY <2>1, <2>3 DEF IndInv, DeliveryInv, FinInv
    <2>5. NextPos - 1 = Len(Delivered)
      BY <2>2, <2>3, <2>4
    <2> QED
      BY <2>1, <2>4, <2>5 DEF NextPos
  <1>3. IndInv => NoSilentDiscard
    BY IdleIs DEF IndInv, DiscardInv, NoSilentDiscard
  <1>4. IndInv => StreamFaithful
    BY <1>1, <1>2, <1>3 DEF StreamFaithful
  <1> QED
    BY <1>4, ReceiveInvariant, PTL

\* The scoreboard holds the peer's bytes where they belong, within the piece
\* limit and before a held FIN, and while tuning is automatic every byte the
\* window still invites has room beside them.
THEOREM StorageIsSound == Spec => []StorageSound
  <1>1. IndInv => ScoreboardSound
    <2> SUFFICES ASSUME IndInv
                 PROVE  ScoreboardSound
      OBVIOUS
    <2>1. /\ NextPos \in Nat /\ NextPos < Half /\ EdgePos \in Nat /\ EdgePos < Half
          /\ receiveNext \in SeqNums /\ right \in SeqNums
      BY Near DEF IndInv, ReceiveTypes
    <2>2. ASSUME NEW q \in DOMAIN outOfOrder
          PROVE  /\ outOfOrder[q] = Position(q)
                 /\ ~SeqLess(q, receiveNext)
                 /\ SeqLess(q, right)
                 /\ finSeq # NoFin => SeqLess(q, finSeq)
                 /\ q \in pieceStarts \/ SeqSub(q, 1) \in DOMAIN outOfOrder
      <3>1. /\ q \in SeqNums /\ outOfOrder[q] = Position(q)
            /\ NextPos <= Position(q) /\ Position(q) < EdgePos
            /\ finSeq # NoFin => Position(q) < Position(finSeq)
            /\ q \in pieceStarts \/ SeqSub(q, 1) \in DOMAIN outOfOrder
        BY DEF IndInv, ScoreboardInv, Held
      <3>2. Position(q) \in Nat /\ Position(q) < Half
        BY <2>1, <3>1, PosIs, HalfType
      <3>3. ~SeqLess(q, receiveNext)
        BY <2>1, <3>1, <3>2, PosLess DEF NextPos
      <3>4. SeqLess(q, right)
        BY <2>1, <3>1, <3>2, PosLess DEF EdgePos
      <3>5. finSeq # NoFin => SeqLess(q, finSeq)
        <4> SUFFICES ASSUME finSeq # NoFin
                     PROVE  SeqLess(q, finSeq)
          OBVIOUS
        <4>1. finSeq \in SeqNums /\ Position(finSeq) \in FinPositions
          BY DEF IndInv, ReceiveTypes, FinInv
        <4>2. Position(finSeq) < Half
          <5>1. Position(finSeq) \in 0 .. StreamLen
            BY <4>1, Stream
          <5>2. /\ StreamLen \in Nat /\ MaxWindow \in Nat /\ Quantum \in Nat
                /\ Half \in Nat /\ StreamLen + 2 + MaxWindow + Quantum < Half
            BY HalfType, Stream, Capacities, WindowFits
          <5> QED
            BY <5>1, <5>2
        <4> QED
          BY <3>1, <3>2, <4>1, <4>2, PosLess
      <3> QED
        BY <3>1, <3>3, <3>4, <3>5
    <2>3. Cardinality(pieceStarts) <= MaxOutOfOrder
      BY DEF IndInv, ScoreboardInv
    <2>4. (pc = "idle" /\ ~Discarding /\ receiveNext \in DOMAIN outOfOrder)
            => (Available + quantumReserve <= 0 \/ wakeWindow \/ aborted)
      BY DEF IndInv, StuckInv, Held
    <2> QED
      BY <2>2, <2>3, <2>4 DEF ScoreboardSound
  <1>2. IndInv => StoragePromise
    <2> DEFINE open == Run(receiveNext, WindowSize)
    <2> SUFFICES ASSUME IndInv, pc = "idle", receiveAutoTune, ~Discarding,
                        ~remoteFINReceived, WindowSize > 0
                 PROVE  Len(readBuffer) + Cardinality(open \cup DOMAIN outOfOrder)
                            <= capacity + quantumReserve
      BY DEF StoragePromise, Run
    <2>1. /\ NextPos \in Nat /\ NextPos < Half /\ EdgePos \in Nat /\ EdgePos < Half
          /\ receiveNext \in SeqNums /\ ~AfterFin
      BY Near DEF IndInv, ReceiveTypes, AfterFin, Closed
    <2>2. WindowSize \in Nat /\ EdgePos > NextPos /\ WindowSize = EdgePos - NextPos
      <3>1. /\ WindowSize \in Nat /\ (EdgePos >= NextPos => WindowSize = EdgePos - NextPos)
            /\ (EdgePos < NextPos => WindowSize = 0)
        BY WindowSizeIs DEF IndInv
      <3> QED
        BY <2>1, <3>1
    <2>3. Position(receiveNext) = NextPos /\ NextPos + WindowSize = EdgePos
          /\ Position(receiveNext) + WindowSize < SeqMod
      BY <2>1, <2>2, HalfType DEF NextPos
    <2>4. /\ Cardinality(open) = WindowSize
          /\ \A q \in SeqNums : q \in open <=> NextPos <= Position(q) /\ Position(q) < EdgePos
      BY <2>1, <2>2, <2>3, RunIs
    <2> HIDE DEF open
    <2>5. DOMAIN outOfOrder \subseteq open
      BY <2>4 DEF IndInv, ScoreboardInv, Held
    <2>6. open \cup DOMAIN outOfOrder = open
      BY <2>5
    <2> QED
      BY <2>1, <2>2, <2>4, <2>6 DEF IndInv, PromiseInv
  <1>3. IndInv => StorageSound
    BY <1>1, <1>2 DEF StorageSound
  <1> QED
    BY <1>3, ReceiveInvariant, PTL

\* No step of the actor or of the application moves the promised right edge
\* back, on the wire's own comparison, wherever in the sequence space it is.
THEOREM RightEdgeHolds == Spec => RightEdgeNeverRetreats
  <1>1. ASSUME IndInv, [Next]_vars
        PROVE  ~SeqLess(right', right)
    <2>1. IndInv' /\ EdgePos' >= EdgePos
      BY <1>1, StepPreserves
    <2>2. right \in SeqNums /\ EdgePos \in Nat /\ EdgePos < Half
      BY <1>1, Near DEF IndInv, ReceiveTypes
    <2>3. right' \in SeqNums /\ EdgePos' \in Nat /\ EdgePos' < Half
      <3>1. right' \in SeqNums /\ EdgePos' <= StreamLen + 1 + MaxWindow + Quantum
        BY <2>1 DEF IndInv, ReceiveTypes, PromiseInv
      <3>2. EdgePos' \in Nat
        BY <3>1, PosIs DEF EdgePos
      <3> QED
        BY <3>1, <3>2, HalfType, Stream, Capacities, WindowFits
    <2>4. /\ Position(right') = EdgePos' /\ Position(right) = EdgePos
      BY DEF EdgePos
    <2>5. SeqLess(right', right) <=> Position(right') < Position(right)
      BY <2>2, <2>3, <2>4, PosLess
    <2> QED
      BY <2>1, <2>2, <2>3, <2>4, <2>5
  <1>2. IndInv /\ [Next]_vars => [~SeqLess(right', right)]_vars
    BY <1>1
  <1> QED
    BY <1>2, ReceiveInvariant, PTL DEF Spec, RightEdgeNeverRetreats
=============================================================================
