--------------------------- MODULE LinkEventsProofs ---------------------------
(***************************************************************************)
(* The slot keeps up with its link (LinkEvents): for all channel maps,     *)
(* intervals, window sizes, subrating factors and bounds, and for any      *)
(* number of updates.                                                      *)
(***************************************************************************)
EXTENDS LinkEvents, Numbers

UpdateRecord ==
       [kind : {"map"}, instant : Nat, told : BOOLEAN, map : Maps]
  \cup [kind : {"phy"}, instant : Nat, told : BOOLEAN, phy : Phys]
  \cup [kind : {"conn"}, instant : Nat, told : BOOLEAN, interval : ConnIntervals,
        offset : Offsets, place : {0, WinSize}]
  \cup [kind : {"rate"}, instant : Nat, told : BOOLEAN, interval : Intervals,
        offset : Offsets, place : {0}, factor : Factors]

PendingRecord ==
  [kind : Kinds, instant : 0..W-1, hinted : BOOLEAN, update : UpdateRecord]

LinkRecord ==
  [n : Nat, last : Nat, interval : Intervals, map : Maps, phy : Phys, updates : Nat]

SlotRecord ==
  [active : BOOLEAN, csa2 : BOOLEAN, cnt : 0..W-1, mts : Int, head : Nat, interval : Intervals,
   map : Maps, last : 0..NChannels-1, phy : Phys, firstWin : Nat, miss : 0..Limit,
   encrypted : BOOLEAN, trusted : BOOLEAN, pending : PendingRecord \cup {NoUpdate},
   factor : Factors \cup {1}, base : 0..W-1, cont : 0..Continuation,
   contLeft : 0..Continuation]

OpenRecord ==
  [open : {TRUE}, probing : BOOLEAN, channel : Int, phy : Phys, armed : Phys, from : Int,
   to : Int, moved : BOOLEAN, informed : BOOLEAN, heard : {"nothing", "good", "corrupt"}]

GhostRecord ==
  [anchorLost : BOOLEAN, mapLost : BOOLEAN, phyLost : BOOLEAN, mapMoved : BOOLEAN,
   reanchored : BOOLEAN, unplaced : BOOLEAN, skipped : BOOLEAN]

Types ==
  /\ link \in LinkRecord
  /\ upd \in UpdateRecord \cup {NoUpdate}
  /\ slot \in SlotRecord
  /\ win \in OpenRecord \cup {Closed}
  /\ ghost \in GhostRecord
  /\ win.open => slot.active
  /\ slot.active => slot.miss < Limit

\* The slot is at the event the link is at.
InStep == slot.cnt = link.n % W

Pending == slot.pending.update
PendingInForce == slot.pending # NoUpdate /\ Pending.instant <= link.n
UntoldInForce == InForce(upd, link.n) /\ ~upd.told

\* An instant is near enough for the counter's width to tell the past from
\* what is ahead.
InstantsNear ==
  /\ upd # NoUpdate => upd.instant <= link.n + MaxAhead
  /\ slot.pending # NoUpdate =>
       /\ slot.pending.kind = Pending.kind
       /\ slot.pending.instant = Pending.instant % W
       /\ Pending.instant <= link.n + MaxAhead
       /\ link.n <= Pending.instant + MaxLate

Tell(u) == [u EXCEPT !.told = TRUE]

\* What the slot has in hand is the link's last procedure: before its instant
\* always, and later until the link starts another one.
KnowsLast ==
  /\ slot.pending # NoUpdate /\ ~PendingInForce =>
       upd # NoUpdate /\ upd = Tell(Pending)
  /\ upd # NoUpdate /\ ~InForce(upd, link.n) /\ upd.told =>
       slot.pending # NoUpdate /\ ~PendingInForce
  /\ PendingInForce =>
       \/ upd # NoUpdate /\ ~InForce(upd, link.n)
       \/ upd # NoUpdate /\ upd = Tell(Pending)
  /\ PendingInForce => slot.encrypted

\* The link has what an update in force gave it.
Given(u) ==
  /\ u.kind = "map" => link.map = u.map
  /\ u.kind = "phy" => link.phy = u.phy
  /\ u.kind \in {"conn", "rate"} => link.interval = u.interval
GivenInForce ==
  /\ InForce(upd, link.n) => Given(upd)
  /\ PendingInForce => Given(Pending)

\* A window opened by a slot that knew everything in force stays one.
StaysInformed == win.open /\ win.informed => ~UntoldInForce /\ ~PendingInForce

PhyInv ==
  /\ \/ ghost.phyLost
     \/ slot.phy = link.phy
     \/ PendingInForce /\ Pending.kind = "phy"
     \/ UntoldInForce /\ upd.kind = "phy"
  /\ win.open /\ ~(slot.encrypted /\ Relocking(slot)) => win.phy = slot.phy

MapInv ==
  /\ \/ ghost.mapLost
     \/ slot.map = link.map
     \/ PendingInForce /\ Pending.kind = "map"
     \/ UntoldInForce /\ upd.kind = "map"
  /\ ~ghost.mapMoved => slot.map = link.map

HopInv ==
  /\ win.open => slot.csa2 \/ ~win.probing
  /\ win.open /\ slot.csa2 /\ ~win.probing /\ ~UnmappedMode(slot)
       => win.channel = Csa2Next(slot.cnt, slot.map)
  /\ win.open /\ ~slot.csa2 => win.channel = Csa1Channel(slot.last, slot.map)
  /\ slot.active /\ ~slot.csa2 /\ ~ghost.skipped
       => slot.last = ((link.n + (IF win.open THEN 1 ELSE 0)) * Hop) % NChannels
  /\ win.open /\ win.heard # "nothing"
       => win.channel = TrueChannel(link, slot.csa2)

DistrustInv == ~slot.trusted => ghost.mapMoved

\* The anchor, relative to the true one, of a slot that awaits no update of
\* it: exact, or at the early end of a transmit window.
Placed(mts, unplaced) ==
  /\ -WinSize <= mts /\ mts <= 0
  /\ ~unplaced => mts = 0

\* The update of the anchor that the slot has not applied yet, and where the
\* anchor would be if it had.
Behind == IF slot.pending # NoUpdate /\ Overdue(Pending) THEN Pending ELSE upd
Owed(u) == u.offset + u.place + (link.n - u.instant) * (u.interval - slot.interval)

AnchorInv ==
  slot.active /\ ~ghost.anchorLost =>
    /\ ~Reanchors =>
         slot.interval = link.interval /\ Placed(slot.mts, ghost.unplaced)
    /\ Reanchors =>
         /\ link.interval = Behind.interval
         /\ ~ghost.reanchored =>
              Placed(slot.mts + Owed(Behind), ghost.unplaced)

\* The first window, as long as no packet has located the slot.
FirstInv ==
  /\ slot.firstWin # 0 => slot.firstWin >= Least(2 * Guard + Steady, slot.interval)
  /\ slot.active /\ ghost.unplaced /\ ~ghost.anchorLost =>
       /\ slot.firstWin = WinSize + 2 * Guard + Steady
       /\ slot.interval \in ConnIntervals

\* What AnchorInWindow asks of a window.
Fits ==
  /\ win.informed /\ ~ghost.anchorLost /\ ~win.moved
  /\ slot.head <= Preamble[win.armed]
  /\ slot.firstWin = 0 \/ slot.interval <= LongestFirst

\* The window is wide enough for a packet of any PHY.
WindowInv ==
  win.open /\ Fits => win.from <= 0 /\ \A y \in Phys : Preamble[y] <= win.to

----------------------------------------------------------------------------
(* Channels and their numbers.                                             *)

\* The powers of two are positive.
LEMMA PowerIsPositive ==
  \A i \in 0..Bits : 2^i \in Nat /\ 2^i > 0
BY WidthAssumption, PowersAssumption, PowersOfTwo DEF Doubling

LEMMA WIsPositive == W \in Nat \ {0} /\ W % 2 = 0
<1>1. Bits \in Nat \ {0} /\ Bits \in 0..Bits /\ Bits - 1 \in 0..Bits-1
  BY WidthAssumption
<1>2. W \in Nat /\ W > 0
  BY <1>1, PowerIsPositive DEF W
<1>3. 2^(Bits - 1) \in Nat
  <2>1. Bits - 1 \in 0..Bits
    BY <1>1
  <2> QED BY <2>1, PowerIsPositive
<1>4. W = 2 * 2^(Bits - 1)
  <2>1. 2^((Bits - 1) + 1) = 2 * 2^(Bits - 1)
    BY <1>1, PowersAssumption
  <2>2. (Bits - 1) + 1 = Bits
    BY <1>1
  <2> QED BY <2>1, <2>2 DEF W
<1> HIDE DEF W
<1> DEFINE h == 2^(Bits - 1)
<1>5. h \in Nat /\ W = 2 * h
  BY <1>3, <1>4
<1> HIDE DEF h
<1>6. W % 2 = 0
  BY <1>5
<1> QED BY <1>2, <1>6

\* A number written with n bits is below 2^n.
LEMMA NumberBound ==
  ASSUME NEW n \in 0..Bits, NEW b \in [0..n-1 -> {0, 1}]
  PROVE  Number(b, n) \in 0 .. 2^n - 1
<1>1. Bits \in Nat /\ Doubling(Bits)
  BY WidthAssumption, PowersAssumption DEF Doubling
<1>2. (CHOOSE f : Digits(b, n, f))[n] \in 0 .. 2^n - 1
  BY <1>1, DigitsBound
<1> QED BY <1>2 DEF Number, Digits

LEMMA XorType == ASSUME NEW x, NEW y PROVE Xor(x, y) \in 0..W-1
<1> DEFINE b == [i \in 0..Bits-1 |-> IF Bit(x, i) = Bit(y, i) THEN 0 ELSE 1]
<1>1. b \in [0..Bits-1 -> {0, 1}] /\ Bits \in 0..Bits
  BY WidthAssumption
<1> HIDE DEF b
<1>2. Number(b, Bits) \in 0 .. 2^Bits - 1
  BY <1>1, NumberBound
<1> QED BY <1>2 DEF Xor, W, b

LEMMA RemapInMap ==
  ASSUME NEW map \in SUBSET Nat, IsFiniteSet(map), NEW k \in 0 .. Cardinality(map) - 1
  PROVE  Remap(map, k) \in map
BY RankChosen DEF Remap

LEMMA ScaleBound ==
  ASSUME NEW count \in Nat \ {0}, NEW prn \in 0..W-1
  PROVE  Scale(count, prn) \in 0..count-1
BY WIsPositive, ScaledBelow DEF Scale

LEMMA Csa2InMap ==
  ASSUME NEW map \in SUBSET Nat, IsFiniteSet(map), Cardinality(map) > 0, NEW prn \in 0..W-1
  PROVE  Csa2Channel(prn, map) \in map
<1>1. Cardinality(map) \in Nat \ {0}
  BY FS_CardinalityType
<1>2. Scale(Cardinality(map), prn) \in 0 .. Cardinality(map) - 1
  BY <1>1, ScaleBound
<1>3. Remap(map, Scale(Cardinality(map), prn)) \in map
  BY <1>2, RemapInMap
<1> QED BY <1>3 DEF Csa2Channel

----------------------------------------------------------------------------
(* The slot's arithmetic.                                                  *)

LEMMA Horizon ==
  /\ W \in Nat \ {0} /\ W \div 2 \in Nat /\ 2 * (W \div 2) <= W
  /\ MaxAhead \in Nat /\ MaxLate \in Nat
  /\ MaxAhead < W \div 2
  /\ \A f \in Factors \cup {1} : f \in Nat \ {0} /\ MaxLate + 2 * f < W \div 2 /\ 2 * f < W
<1>1. W \in Nat \ {0}
  BY WIsPositive
<1>2. PICK q \in Int, r \in 0..1 : W = q * 2 + r /\ W % 2 = r /\ W \div 2 = q
  BY <1>1, Quotient
<1>3. W \div 2 \in Nat /\ 2 * (W \div 2) <= W
  BY <1>1, <1>2
<1>4. \A f \in Factors \cup {1} : f \in Nat \ {0}
  BY CountersAssumption
<1>5. MaxAhead \in Nat /\ MaxLate \in Nat /\ MaxAhead < W \div 2
  BY InstantsAssumption
<1>6. \A f \in Factors \cup {1} : MaxLate + 2 * f < W \div 2
  BY InstantsAssumption
<1> HIDE DEF W
<1>7. \A f \in Factors \cup {1} : 2 * f < W
  <2> TAKE f \in Factors \cup {1}
  <2> DEFINE h == W \div 2
  <2>1. h \in Nat /\ 2 * h <= W /\ f \in Nat /\ MaxLate + 2 * f < h
    BY <1>3, <1>4, <1>6
  <2> HIDE DEF h
  <2> QED BY <1>1, <1>5, <2>1
<1> QED BY <1>1, <1>3, <1>4, <1>5, <1>6, <1>7

LEMMA SignedIs ==
  ASSUME NEW x \in Int, NEW y \in Int, x % W = y % W,
         y < W \div 2, -y < W \div 2
  PROVE  Signed(x) = y
<1>1. W \in Nat \ {0} /\ W \div 2 \in Nat /\ 2 * (W \div 2) <= W
  BY Horizon
<1>2. CASE y >= 0
  <2>1. y \in 0..W-1
    BY <1>1, <1>2
  <2>2. y % W = y
    BY <1>1, <2>1, ModSmall
  <2> QED BY <2>2 DEF Signed
<1>3. CASE y < 0
  <2>1. y + W \in 0..W-1 /\ ~(y + W < W \div 2)
    BY <1>1, <1>3
  <2>2. (y + W) % W = y + W
    BY <1>1, <2>1, ModSmall
  <2>3. (y + 1 * W) % W = y % W
    <3>1. 1 \in Int
      OBVIOUS
    <3> QED BY <1>1, <3>1, Congruent, Zenon
  <2>4. x % W = y + W
    BY <1>1, <2>2, <2>3
  <2>5. (y + W) - W = y
    BY <1>1
  <2> QED BY <2>1, <2>4, <2>5 DEF Signed
<1> QED BY <1>2, <1>3

LEMMA Apart ==
  ASSUME NEW a \in Int, NEW b \in Int
  PROVE  ((a % W) - (b % W)) % W = (a - b) % W
<1>1. W \in Nat \ {0}
  BY Horizon
<1>2. PICK x \in 0..W-1 : a % W = x
  BY <1>1, Division
<1>3. x \in Int /\ -b \in Int
  OBVIOUS
<1>4. (x - (b % W)) % W = (x - b) % W
  BY <1>1, <1>3, ModMinus, Zenon
<1>5. ((a % W) + (-b)) % W = (a + (-b)) % W
  BY <1>1, <1>3, ModPlus, Zenon
<1>6. x + (-b) = x - b /\ a + (-b) = a - b
  OBVIOUS
<1> QED BY <1>2, <1>4, <1>5, <1>6, Zenon

\* The slot is at event m, near the instant it awaits.
Near(s, m) ==
  /\ s.cnt = m % W
  /\ s.pending # NoUpdate =>
       /\ s.pending.kind = s.pending.update.kind
       /\ s.pending.instant = s.pending.update.instant % W
       /\ s.pending.update.instant - m < W \div 2
       /\ m - s.pending.update.instant < W \div 2

IsDue(s, m) == s.pending # NoUpdate /\ s.pending.update.instant <= m

LEMMA UpdateFields ==
  ASSUME NEW u \in UpdateRecord
  PROVE  /\ u.kind \in Kinds /\ u.instant \in Nat /\ u.told \in BOOLEAN
         /\ u.kind = "map" => u.map \in Maps
         /\ u.kind = "phy" => u.phy \in Phys
         /\ u.kind \in {"conn", "rate"} =>
              u.interval \in Intervals /\ u.offset \in Offsets /\ u.place \in {0, WinSize}
         /\ u.kind = "conn" => u.interval \in ConnIntervals
         /\ u.kind = "rate" => u.factor \in Factors /\ u.place = 0
         /\ u # NoUpdate
<1>1. ConnIntervals \subseteq Intervals
  BY WindowsAssumption
<1> QED BY <1>1 DEF UpdateRecord, Kinds, NoUpdate

\* Due, Late and the distance to the instant are what they are meant to be.
LEMMA DueMeans ==
  ASSUME NEW s \in SlotRecord, NEW m \in Nat, Near(s, m), s.pending # NoUpdate
  PROVE  /\ Due(s) <=> s.pending.update.instant <= m
         /\ s.pending.update.instant <= m => Late(s) = m - s.pending.update.instant
         /\ Signed(s.pending.instant - s.cnt) = s.pending.update.instant - m
<1> DEFINE k == s.pending.update.instant
<1>1. k \in Nat /\ W \in Nat \ {0} /\ W \div 2 \in Nat /\ 2 * (W \div 2) <= W
  BY Horizon, UpdateFields DEF SlotRecord, PendingRecord
<1>2. s.cnt = m % W /\ s.pending.instant = k % W /\ k - m < W \div 2 /\ m - k < W \div 2
  BY DEF Near
<1> HIDE DEF k
<1>3. m \in Int /\ k \in Int
  BY <1>1
<1>4. /\ (s.cnt - s.pending.instant) % W = (m - k) % W
      /\ (s.pending.instant - s.cnt) % W = (k - m) % W
  BY <1>2, <1>3, Apart, Zenon
<1>5. s.cnt \in Int /\ s.pending.instant \in Int
  BY DEF SlotRecord, PendingRecord
<1>6. Signed(s.cnt - s.pending.instant) = m - k
  <2>1. -(m - k) < W \div 2
    BY <1>1, <1>2
  <2>2. s.cnt - s.pending.instant \in Int /\ m - k \in Int
    BY <1>1, <1>5
  <2> QED BY <1>2, <1>4, <2>1, <2>2, SignedIs
<1>7. Signed(s.pending.instant - s.cnt) = k - m
  <2>1. -(k - m) < W \div 2
    BY <1>1, <1>2
  <2>2. s.pending.instant - s.cnt \in Int /\ k - m \in Int
    BY <1>1, <1>5
  <2> QED BY <1>2, <1>4, <2>1, <2>2, SignedIs
<1>8. Due(s) <=> k <= m
  BY <1>1, <1>6 DEF Due
<1>9. k <= m => Late(s) = m - k
  <2> HAVE k <= m
  <2>1. m - k \in 0..W-1
    BY <1>1, <1>2
  <2>2. (m - k) % W = m - k
    BY <1>1, <2>1, ModSmall
  <2> QED BY <1>4, <2>2 DEF Late
<1> QED BY <1>7, <1>8, <1>9 DEF k

LEMMA ConstantTypes ==
  /\ W \in Nat \ {0} /\ NChannels \in Nat \ {0}
  /\ Hop \in Nat /\ Continuation \in Nat
  /\ RelockAfter \in Nat /\ UnmappedRelock \in Nat /\ ProbeAfter \in Nat /\ WidenMax \in Nat
  /\ Limit \in Nat \ {0}
  /\ Guard \in Nat /\ Steady \in Nat /\ Coded \in Nat /\ RelockSpan \in Nat
  /\ LateLead \in Nat /\ WinSize \in Nat
  /\ \A i \in Offsets : i \in Nat
  /\ \A i \in Intervals : i \in Nat
  /\ \A i \in ConnIntervals : i \in Intervals
  /\ \A f \in Factors : f \in Nat \ {0} /\ W % f = 0
BY WIsPositive, WidthAssumption, CountersAssumption, WindowsAssumption

\* The lead of a window: it covers the preamble, and leaves room for a packet.
LEMMA LeadIs ==
  ASSUME NEW x \in Phys, NEW y \in Phys, NEW i \in Intervals
  PROVE  /\ OpenLead(x, i) \in Nat /\ Preamble[y] \in Nat
         /\ Preamble[x] <= OpenLead(x, i)
         /\ Preamble[y] <= Steady /\ Preamble[y] <= Coded
         /\ LateLead + OpenLead(x, i) + Preamble[y] <= i
         /\ i \in ConnIntervals => LateLead + OpenLead(x, i) + Preamble[y] + WinSize <= i
         /\ i <= LongestFirst => OpenLead(x, i) + Preamble[y] <= 2 * Guard + Steady
<1>1. i \in Nat /\ LeadPer \in Nat \ {0} /\ Preamble[x] \in Nat /\ Preamble[y] \in Nat
      /\ Guard \in Nat
  BY WindowsAssumption
<1>2. i \div LeadPer \in Int /\ i \div 3 \in Int
  BY <1>1, Division
<1>3. OpenLead(x, i) \in Int
  <2> DEFINE q == i \div LeadPer
             c == i \div 3
             lead == Guard + Preamble[x] + q
  <2>1. lead \in Int /\ c \in Int
    BY <1>1, <1>2
  <2>2. OpenLead(x, i) = IF lead > c /\ c > RxReady THEN c ELSE lead
    BY DEF OpenLead
  <2> HIDE DEF lead, c
  <2> QED BY <2>1, <2>2
<1>4. Preamble[x] <= OpenLead(x, i)
  BY WindowsAssumption
<1>5. /\ Preamble[y] <= Steady /\ Preamble[y] <= Coded
      /\ LateLead + OpenLead(x, i) + Preamble[y] <= i
      /\ i \in ConnIntervals => LateLead + OpenLead(x, i) + Preamble[y] + WinSize <= i
      /\ i <= LongestFirst => OpenLead(x, i) + Preamble[y] <= 2 * Guard + Steady
  BY WindowsAssumption
<1> QED BY <1>1, <1>3, <1>4, <1>5

\* r is slot s with update u applied, late events after its instant.
AppliedTo(s, r, u, late) ==
  /\ r \in SlotRecord /\ r.pending = NoUpdate /\ r.head = s.head
  /\ r.active = s.active /\ r.csa2 = s.csa2 /\ r.cnt = s.cnt /\ r.last = s.last
  /\ r.miss = s.miss /\ r.encrypted = s.encrypted
  /\ r.map = IF u.kind = "map" THEN u.map ELSE s.map
  /\ r.phy = IF u.kind = "phy" THEN u.phy ELSE s.phy
  /\ s.trusted => r.trusted
  /\ r.interval = IF u.kind \in {"conn", "rate"} THEN u.interval ELSE s.interval
  /\ u.kind = "map" => r.mts = s.mts /\ r.firstWin = s.firstWin
  /\ u.kind = "phy" => r.mts = s.mts /\ r.firstWin = 4 * Guard + Coded
  /\ u.kind = "conn" =>
       /\ r.mts = s.mts + u.offset + late * (u.interval - s.interval)
       /\ r.firstWin = WinSize + 2 * Guard + Steady
  /\ u.kind = "rate" =>
       /\ r.mts = s.mts + u.offset
       /\ r.firstWin = Least(2 * Guard + Steady, u.interval)

LEMMA AppliedMap ==
  ASSUME NEW s \in SlotRecord, NEW u \in UpdateRecord, u.kind = "map",
         s.pending # NoUpdate, NEW late
  PROVE  AppliedTo(s, [ApplyMap(s, u) EXCEPT !.pending = NoUpdate], u, late)
BY UpdateFields DEF ApplyMap, SlotRecord, PendingRecord, AppliedTo

LEMMA AppliedPhy ==
  ASSUME NEW s \in SlotRecord, NEW u \in UpdateRecord, u.kind = "phy", NEW late
  PROVE  AppliedTo(s, [ApplyPhy(s, u) EXCEPT !.pending = NoUpdate], u, late)
<1>1. 4 * Guard + Coded \in Nat
  BY ConstantTypes
<1> QED BY <1>1, UpdateFields DEF ApplyPhy, SlotRecord, PendingRecord, AppliedTo

LEMMA AppliedConn ==
  ASSUME NEW s \in SlotRecord, NEW u \in UpdateRecord, u.kind = "conn",
         Late(s) \in Nat
  PROVE  AppliedTo(s, [ApplyConn(s, u) EXCEPT !.pending = NoUpdate], u, Late(s))
<1> DEFINE x == s.mts + u.offset + Late(s) * (u.interval - s.interval)
           f == WinSize + 2 * Guard + Steady
<1>1. x \in Int /\ f \in Nat /\ u.interval \in Intervals
  <2>1. s.mts \in Int /\ s.interval \in Int
    BY ConstantTypes DEF SlotRecord
  <2>2. u.interval \in Intervals /\ u.interval \in Int /\ u.offset \in Int
    BY UpdateFields, ConstantTypes
  <2>3. Late(s) * (u.interval - s.interval) \in Int
    BY <2>1, <2>2
  <2> QED BY <2>1, <2>2, <2>3, ConstantTypes
<1>2. ApplyConn(s, u) = [s EXCEPT !.interval = u.interval, !.mts = x, !.firstWin = f]
  BY DEF ApplyConn, SlotRecord
<1> HIDE DEF x, f
<1>3. [ApplyConn(s, u) EXCEPT !.pending = NoUpdate] =
        [s EXCEPT !.interval = u.interval, !.mts = x, !.firstWin = f, !.pending = NoUpdate]
  BY <1>2
<1> QED BY <1>1, <1>3 DEF x, f, SlotRecord, AppliedTo

LEMMA AppliedRate ==
  ASSUME NEW s \in SlotRecord, NEW u \in UpdateRecord, u.kind = "rate",
         s.pending # NoUpdate, NEW late
  PROVE  AppliedTo(s, [ApplyRate(s, u) EXCEPT !.pending = NoUpdate], u, late)
<1> DEFINE x == s.mts + u.offset
           f == Least(2 * Guard + Steady, u.interval)
<1>1. u.interval \in Intervals /\ u.interval \in Nat /\ u.offset \in Nat /\ u.factor \in Factors
  BY UpdateFields, ConstantTypes
<1>2. x \in Int /\ f \in Nat
  BY <1>1, ConstantTypes DEF SlotRecord, Least
<1>3. s.pending.instant \in 0..W-1 /\ Continuation \in 0..Continuation
  BY ConstantTypes DEF SlotRecord, PendingRecord
<1> HIDE DEF x, f
<1> DEFINE r == [s EXCEPT !.interval = u.interval, !.mts = x, !.firstWin = f]
           q == [r EXCEPT !.factor = u.factor, !.base = s.pending.instant,
                          !.cont = Continuation, !.contLeft = Continuation]
<1>4. ApplyRate(s, u) = IF u.factor = 1 THEN r ELSE q
  BY DEF ApplyRate, SlotRecord, x, f
<1>5. AppliedTo(s, [r EXCEPT !.pending = NoUpdate], u, late)
  BY <1>1, <1>2 DEF x, f, SlotRecord, AppliedTo
<1>6. AppliedTo(s, [q EXCEPT !.pending = NoUpdate], u, late)
  BY <1>1, <1>2, <1>3 DEF x, f, SlotRecord, AppliedTo
<1> QED BY <1>4, <1>5, <1>6

\* apply_pending_if_due does what it should at event m.
LEMMA ApplyIs ==
  ASSUME NEW s \in SlotRecord, NEW m \in Nat, Near(s, m)
  PROVE  /\ ~IsDue(s, m) => ApplyPendingIfDue(s) = s
         /\ IsDue(s, m) =>
              AppliedTo(s, ApplyPendingIfDue(s), s.pending.update,
                        m - s.pending.update.instant)
<1>1. Due(s) <=> IsDue(s, m)
  <2>1. CASE s.pending = NoUpdate
    BY <2>1 DEF Due, IsDue
  <2>2. CASE s.pending # NoUpdate
    BY <2>2, DueMeans DEF IsDue
  <2> QED BY <2>1, <2>2
<1>2. ASSUME IsDue(s, m)
      PROVE  AppliedTo(s, ApplyPendingIfDue(s), s.pending.update, m - s.pending.update.instant)
  <2> DEFINE u == s.pending.update
             late == m - u.instant
  <2>1. s.pending # NoUpdate /\ u \in UpdateRecord /\ u.kind \in Kinds /\ u.instant \in Nat /\ u.instant <= m
    BY <1>2, UpdateFields DEF IsDue, SlotRecord, PendingRecord
  <2>2. Late(s) = late /\ late \in Nat
    BY <2>1, DueMeans
  <2> HIDE DEF late, u
  <2> SUFFICES AppliedTo(s, ApplyPendingIfDue(s), u, late)
    BY DEF u, late
  <2>3. CASE u.kind = "map"
    <3>1. ApplyPendingIfDue(s) = [ApplyMap(s, u) EXCEPT !.pending = NoUpdate]
      BY <1>1, <1>2, <2>3 DEF ApplyPendingIfDue, u
    <3> QED BY <2>1, <2>3, <3>1, AppliedMap
  <2>4. CASE u.kind = "phy"
    <3>1. ApplyPendingIfDue(s) = [ApplyPhy(s, u) EXCEPT !.pending = NoUpdate]
      BY <1>1, <1>2, <2>4 DEF ApplyPendingIfDue, u
    <3> QED BY <2>1, <2>4, <3>1, AppliedPhy
  <2>5. CASE u.kind = "conn"
    <3>1. ApplyPendingIfDue(s) = [ApplyConn(s, u) EXCEPT !.pending = NoUpdate]
      BY <1>1, <1>2, <2>5 DEF ApplyPendingIfDue, u
    <3> QED BY <2>1, <2>2, <2>5, <3>1, AppliedConn
  <2>6. CASE u.kind = "rate"
    <3>1. ApplyPendingIfDue(s) = [ApplyRate(s, u) EXCEPT !.pending = NoUpdate]
      BY <1>1, <1>2, <2>6 DEF ApplyPendingIfDue, u
    <3> QED BY <2>1, <2>6, <3>1, AppliedRate
  <2> QED BY <2>1, <2>3, <2>4, <2>5, <2>6 DEF Kinds
<1> QED BY <1>1, <1>2 DEF ApplyPendingIfDue


\* r is slot s, at event m, after k more events.
Moved(s, r, m, k) ==
  /\ r \in SlotRecord
  /\ r.cnt = (m + k) % W /\ r.mts = s.mts + k * s.interval
  /\ r.active = s.active /\ r.csa2 = s.csa2 /\ r.interval = s.interval /\ r.map = s.map
  /\ r.last = s.last /\ r.phy = s.phy /\ r.firstWin = s.firstWin /\ r.miss = s.miss
  /\ r.encrypted = s.encrypted /\ r.trusted = s.trusted /\ r.pending = s.pending
  /\ r.factor = s.factor /\ r.base = s.base

\* An event the slot has to attend: a subscribed one, or an instant.
MustAttend(s, j) ==
  \/ (j - s.base) % s.factor = 0
  \/ s.pending # NoUpdate /\ s.pending.update.instant = j

LEMMA SlotNumbers ==
  ASSUME NEW s \in SlotRecord
  PROVE  /\ s.interval \in Nat /\ s.mts \in Int /\ s.factor \in Nat \ {0} /\ s.base \in Int
         /\ s.cnt \in Int /\ s.miss \in Nat /\ s.contLeft \in Nat /\ s.firstWin \in Nat
         /\ s.interval \in Intervals /\ W % s.factor = 0 /\ s.factor \in Factors \cup {1}
<1>1. W % 1 = 0
  BY ConstantTypes
<1> QED BY <1>1, ConstantTypes DEF SlotRecord

LEMMA SkipMoves ==
  ASSUME NEW s \in SlotRecord, NEW m \in Nat, NEW k \in Nat, s.cnt = m % W
  PROVE  Moved(s, Skip(s, k), m, k)
<1> DEFINE c == (s.cnt + k) % W
           x == s.mts + k * s.interval
<1>1. W \in Nat \ {0} /\ m \in Int /\ k \in Int
  BY ConstantTypes
<1>2. c = (m + k) % W
  BY <1>1, ModPlus, Zenon
<1>3. c \in 0..W-1
  <2>1. m + k \in Int
    BY <1>1
  <2> QED BY <1>1, <1>2, <2>1, Division
<1>4. x \in Int
  BY SlotNumbers
<1> HIDE DEF c, x
<1>5. Skip(s, k) = [s EXCEPT !.cnt = c, !.mts = x]
  BY DEF Skip, SlotRecord, c, x
<1> QED BY <1>2, <1>3, <1>4, <1>5 DEF Moved, SlotRecord, x

LEMMA MovedTwice ==
  ASSUME NEW s \in SlotRecord, NEW r, NEW q, NEW m \in Nat, NEW k \in Nat, NEW l \in Nat,
         Moved(s, r, m, k), Moved(r, q, m + k, l)
  PROVE  Moved(s, q, m, k + l)
<1>1. (m + k) + l = m + (k + l)
  OBVIOUS
<1>2. (k + l) * s.interval = k * s.interval + l * s.interval
  BY SlotNumbers
<1>3. k * s.interval \in Int /\ l * s.interval \in Int /\ s.mts \in Int
  BY SlotNumbers
<1>4. q.mts = s.mts + (k + l) * s.interval
  BY <1>2, <1>3 DEF Moved
<1> QED BY <1>1, <1>4 DEF Moved

\* Subrating moves on to an event that is to be attended, and skips none.
LEMMA SubrateMoves ==
  ASSUME NEW s \in SlotRecord, NEW m \in Nat, Near(s, m)
  PROVE  \E k \in 0..s.factor-1 :
           /\ Moved(s, SubrateSkip(s), m, k)
           /\ \A j \in m..m+k-1 : ~MustAttend(s, j)
<1> DEFINE phase == ((s.cnt - s.base) % W) % s.factor
           toInstant == Signed(s.pending.instant - s.cnt)
           full == s.factor - phase
           skip == IF s.pending # NoUpdate /\ toInstant >= 0 /\ toInstant < full
                   THEN toInstant ELSE full
<1>1. s.cnt = m % W
  BY DEF Near
<1>2. Moved(s, s, m, 0)
  BY <1>1, SlotNumbers DEF Moved
<1>3. CASE SubrateSkip(s) = s
  BY <1>2, <1>3, SlotNumbers
<1>4. CASE s.factor > 1 /\ s.contLeft > 0
  <2>1. SubrateSkip(s) = [s EXCEPT !.contLeft = @ - 1]
    BY <1>4 DEF SubrateSkip
  <2>2. s.contLeft - 1 \in 0..Continuation
    BY <1>4, ConstantTypes DEF SlotRecord
  <2>3. Moved(s, SubrateSkip(s), m, 0)
    BY <1>2, <2>1, <2>2 DEF Moved, SlotRecord
  <2> QED BY <2>3, SlotNumbers
<1>5. CASE s.factor > 1 /\ s.contLeft = 0 /\ phase # 0
  <2>1. SubrateSkip(s) = Skip(s, skip)
    BY <1>5 DEF SubrateSkip
  <2>2. phase = (m - s.base) % s.factor
    <3>1. (s.cnt - s.base) % W = (m - s.base) % W
      <4>1. -s.base \in Int /\ W \in Nat \ {0} /\ m \in Int
        BY SlotNumbers, ConstantTypes
      <4>2. ((m % W) + (-s.base)) % W = (m + (-s.base)) % W
        BY <4>1, ModPlus, Zenon
      <4>3. m + (-s.base) = m - s.base /\ s.cnt + (-s.base) = s.cnt - s.base
        BY SlotNumbers
      <4> QED BY <1>1, <4>2, <4>3, Zenon
    <3>2. m - s.base \in Int /\ W \in Nat \ {0} /\ s.factor \in Nat \ {0} /\ W % s.factor = 0
      BY SlotNumbers, ConstantTypes
    <3>3. ((m - s.base) % W) % s.factor = (m - s.base) % s.factor
      BY <3>2, ModOfMod, Zenon
    <3> QED BY <3>1, <3>3, Zenon
  <2>3. m - s.base \in Int /\ s.factor \in Nat \ {0}
    BY SlotNumbers
  <2>4. PICK q \in Int, r \in 0..s.factor-1 :
          m - s.base = q * s.factor + r /\ (m - s.base) % s.factor = r
                                        /\ (m - s.base) \div s.factor = q
    BY <2>3, Quotient, Zenon
  <2>5. phase = r /\ r \in 1..s.factor-1
    BY <1>5, <2>2, <2>3, <2>4
  <2>6. s.pending # NoUpdate => toInstant = s.pending.update.instant - m
    BY DueMeans
  <2>7. s.pending # NoUpdate => s.pending.update.instant \in Nat
    BY UpdateFields DEF SlotRecord, PendingRecord
  <2> HIDE DEF phase, toInstant
  <2>8. skip \in 0..s.factor-1 /\ skip <= s.factor - r
    BY <2>3, <2>5, <2>6, <2>7
  <2>9. s.pending # NoUpdate =>
          s.pending.update.instant < m \/ s.pending.update.instant >= m + skip
    BY <2>3, <2>5, <2>6, <2>7
  <2> HIDE DEF skip
  <2>10. Moved(s, Skip(s, skip), m, skip)
    BY <1>1, <2>8, SkipMoves
  <2>11. ASSUME NEW j \in m..m+skip-1
         PROVE  ~MustAttend(s, j)
    <3>1. j - m + r \in 1..s.factor-1 /\ s.base \in Int
      BY <2>3, <2>5, <2>8, SlotNumbers
    <3>2. j - s.base = q * s.factor + (j - m + r)
      <4> DEFINE p == q * s.factor
      <4>1. p \in Int /\ m - s.base = p + r
        BY <2>3, <2>4
      <4> HIDE DEF p
      <4>2. j - s.base = p + (j - m + r)
        BY <3>1, <4>1
      <4> QED BY <4>2 DEF p
    <3>3. j - m + r \in 0..s.factor-1 /\ j - s.base \in Int
      BY <3>1
    <3>4. (j - s.base) % s.factor = j - m + r
      BY <2>3, <3>2, <3>3, RemainderIs, Zenon
    <3>5. s.pending # NoUpdate => s.pending.update.instant # j
      BY <2>7, <2>8, <2>9
    <3> QED BY <3>1, <3>4, <3>5 DEF MustAttend
  <2> QED BY <2>1, <2>8, <2>10, <2>11
<1>6. s.factor = 1 \/ (s.factor > 1 /\ s.contLeft = 0 /\ phase = 0) => SubrateSkip(s) = s
  BY DEF SubrateSkip
<1> QED BY <1>3, <1>4, <1>5, <1>6, SlotNumbers

----------------------------------------------------------------------------
(* serve_close.                                                            *)

Accounted == Anchor(Account(slot))
Left == YieldEvent(SubrateSkip(NextCounter(Accounted)))
Gone == (Left.cnt - slot.cnt) % W

LEMMA OpenFields ==
  ASSUME Types, win.open
  PROVE  /\ win \in OpenRecord /\ win.probing \in BOOLEAN /\ win.informed \in BOOLEAN
         /\ slot \in SlotRecord /\ slot.active /\ slot.miss < Limit
<1>1. win # Closed
  BY DEF Closed
<1>2. win \in OpenRecord
  BY <1>1 DEF Types
<1> QED BY <1>2 DEF Types, OpenRecord

\* The slot, its window accounted for.
LEMMA AccountedFields ==
  ASSUME Types, win.open
  PROVE  LET s == Accounted
             heard == win.heard # "nothing"
         IN  /\ s \in SlotRecord
             /\ s.cnt = slot.cnt /\ s.csa2 = slot.csa2 /\ s.interval = slot.interval
             /\ s.map = slot.map /\ s.last = slot.last /\ s.phy = slot.phy
             /\ s.encrypted = slot.encrypted /\ s.pending = slot.pending
             /\ s.factor = slot.factor /\ s.base = slot.base
             /\ s.mts = IF heard THEN slot.interval ELSE slot.mts + slot.interval
             /\ s.firstWin = IF heard THEN 0 ELSE slot.firstWin
             /\ s.trusted = (slot.trusted /\ ~(heard /\ win.probing /\ win.channel \notin slot.map))
             /\ s.active => s.miss < Limit
             /\ s.miss = Account(slot).miss /\ s.trusted = Account(slot).trusted
<1>1. slot \in SlotRecord /\ slot.active /\ slot.miss < Limit
      /\ win.probing \in BOOLEAN
  BY OpenFields
<1>2. slot.interval \in Int /\ slot.mts + slot.interval \in Int /\ slot.miss + 1 \in 0..Limit
      /\ 0 \in 0..Limit /\ 0 < Limit /\ 0 \in Nat
  BY <1>1, SlotNumbers, ConstantTypes
<1>3. CASE win.heard # "nothing"
  <2> DEFINE t == slot.trusted /\ ~(win.probing /\ win.channel \notin slot.map)
  <2>1. t \in BOOLEAN
    OBVIOUS
  <2>2. Account(slot) = [slot EXCEPT !.miss = 0, !.trusted = t]
    BY <1>1, <1>3 DEF Account, SlotRecord
  <2> HIDE DEF t
  <2>3. Accounted = [slot EXCEPT !.miss = 0, !.trusted = t, !.mts = slot.interval,
                                 !.head = Preamble[win.phy], !.firstWin = 0]
    BY <1>1, <1>3, <2>2 DEF Accounted, Anchor, SlotRecord
  <2>4. t = (slot.trusted /\ ~(win.heard # "nothing" /\ win.probing /\ win.channel \notin slot.map))
    BY <1>3 DEF t
  <2>5. Account(slot).miss = 0 /\ Account(slot).trusted = t
    BY <1>1, <2>2 DEF SlotRecord
  <2>6. Accounted \in SlotRecord /\ (Accounted.active => Accounted.miss < Limit)
    <3>1. Preamble[win.phy] \in Nat
      BY OpenFields, WindowsAssumption DEF OpenRecord
    <3> QED BY <1>1, <1>2, <2>1, <2>3, <3>1 DEF SlotRecord
  <2>7. Accounted.trusted = t /\ Accounted.miss = 0
    BY <1>1, <2>3 DEF SlotRecord
  <2> QED BY <1>1, <1>3, <2>3, <2>4, <2>5, <2>6, <2>7 DEF SlotRecord
<1>4. CASE win.heard = "nothing"
  <2> DEFINE a == slot.miss + 1 < Limit
  <2>1. a \in BOOLEAN
    OBVIOUS
  <2>2. Account(slot) = [slot EXCEPT !.miss = slot.miss + 1, !.active = a]
    BY <1>1, <1>4 DEF Account, SlotRecord
  <2> HIDE DEF a
  <2>3. Accounted = [slot EXCEPT !.miss = slot.miss + 1, !.active = a,
                                 !.mts = slot.mts + slot.interval]
    BY <1>1, <1>4, <2>2 DEF Accounted, Anchor, SlotRecord
  <2>4. Account(slot).miss = slot.miss + 1 /\ Account(slot).trusted = slot.trusted
    BY <1>1, <2>2 DEF SlotRecord
  <2>5. slot.trusted \in BOOLEAN
    BY <1>1 DEF SlotRecord
  <2>6. Accounted.active => Accounted.miss < Limit
    BY <1>1, <2>3 DEF SlotRecord, a
  <2> QED BY <1>1, <1>2, <1>4, <2>1, <2>3, <2>4, <2>5, <2>6 DEF SlotRecord
<1> QED BY <1>3, <1>4

LEMMA SameYield ==
  ASSUME NEW s, NEW r, s.miss = r.miss, s.csa2 = r.csa2, s.encrypted = r.encrypted,
         s.trusted = r.trusted
  PROVE  YieldsToScan(s) <=> YieldsToScan(r)
BY DEF YieldsToScan, Relocking, RelockThreshold, UnmappedMode

\* The slot moves on by as many events as the link, and stays near the
\* instant it awaits.
LEMMA CloseMoves ==
  ASSUME Types, InStep, InstantsNear, win.open
  PROVE  /\ Gone \in 1..W-1
         /\ Near(Left, link.n + Gone)
         /\ Moved([Accounted EXCEPT !.cnt = (@ + 1) % W], Left, link.n + 1, Gone - 1)
         /\ \/ \A j \in link.n + 1 .. link.n + Gone - 1 : ~MustAttend(slot, j)
            \/ /\ YieldsToScan(Account(slot))
               /\ \E y \in Int : \A j \in (link.n + 1 .. link.n + Gone - 1) \ {y} :
                    ~MustAttend(slot, j)
<1> DEFINE s == Accounted
           n == link.n
           f == slot.factor
           u == slot.pending.update
<1>1. /\ s \in SlotRecord /\ slot \in SlotRecord /\ n \in Nat
      /\ s.cnt = n % W /\ s.pending = slot.pending /\ s.factor = slot.factor /\ s.base = slot.base
      /\ W \in Nat \ {0} /\ W \div 2 \in Nat
      /\ f \in Nat \ {0} /\ MaxLate + 2 * f < W \div 2 /\ 2 * f < W
      /\ MaxAhead \in Nat /\ MaxAhead < W \div 2 /\ MaxLate \in Nat
  BY AccountedFields, SlotNumbers, Horizon DEF Types, LinkRecord, InStep
<1>2. slot.pending # NoUpdate =>
        /\ slot.pending.kind = u.kind /\ slot.pending.instant = u.instant % W
        /\ u.instant \in Nat /\ u.instant <= n + MaxAhead /\ n <= u.instant + MaxLate
  BY <1>1, UpdateFields DEF InstantsNear, Pending, SlotRecord, PendingRecord
<1>3. ASSUME NEW r, NEW k \in 0 .. 2 * f, r.cnt = (n + k) % W, r.pending = slot.pending
      PROVE  Near(r, n + k)
  <2> HIDE DEF s, n, f, u
  <2>1. CASE slot.pending = NoUpdate
    BY <1>3, <2>1 DEF Near
  <2>2. CASE slot.pending # NoUpdate
    <3> DEFINE h == W \div 2
    <3>1. h \in Nat /\ MaxLate + 2 * f < h /\ MaxAhead < h
      BY <1>1
    <3> HIDE DEF h
    <3>2. u.instant - (n + k) < h /\ (n + k) - u.instant < h
      BY <1>1, <1>2, <2>2, <3>1
    <3> QED BY <1>2, <1>3, <2>2, <3>2 DEF Near, u, h
  <2> QED BY <2>1, <2>2
<1> DEFINE a == NextCounter(s)
           b == SubrateSkip(a)
           c == Skip(b, 1)
<1>4. a = [s EXCEPT !.cnt = (@ + 1) % W] /\ a \in SlotRecord /\ a.cnt = (n + 1) % W
      /\ a.pending = slot.pending /\ a.factor = f /\ a.base = slot.base
      /\ a.miss = s.miss /\ a.csa2 = s.csa2 /\ a.encrypted = s.encrypted /\ a.trusted = s.trusted
  <2>1. (s.cnt + 1) % W = (n + 1) % W
    <3>1. n \in Int /\ 1 \in Int
      BY <1>1
    <3>2. ((n % W) + 1) % W = (n + 1) % W
      BY <1>1, <3>1, ModPlus, Zenon
    <3> QED BY <1>1, <3>2, Zenon
  <2>2. (n + 1) % W \in 0..W-1
    <3>1. n + 1 \in Int
      BY <1>1
    <3> QED BY <1>1, <3>1, Division
  <2>3. a = [s EXCEPT !.cnt = (@ + 1) % W]
    BY DEF NextCounter
  <2> HIDE DEF s, n, f, a
  <2>4. a = [s EXCEPT !.cnt = (n + 1) % W]
    BY <1>1, <2>1, <2>3 DEF SlotRecord
  <2> QED BY <1>1, <2>2, <2>3, <2>4 DEF SlotRecord, f
<1>5. Near(a, n + 1)
  <2>1. 1 \in 0 .. 2 * f
    BY <1>1
  <2> QED BY <1>3, <1>4, <2>1
<1>6. \A j : MustAttend(a, j) <=> MustAttend(slot, j)
  BY <1>4 DEF MustAttend
<1>7. PICK k \in 0..f-1 : Moved(a, b, n + 1, k) /\ \A j \in n+1 .. n+1+k-1 : ~MustAttend(a, j)
  <2>1. n + 1 \in Nat
    BY <1>1
  <2> HIDE DEF a, n
  <2> QED BY <1>4, <1>5, <2>1, SubrateMoves
<1>8. YieldsToScan(b) <=> YieldsToScan(Account(slot))
  <2>1. /\ b.miss = Account(slot).miss /\ b.csa2 = slot.csa2 /\ b.encrypted = slot.encrypted
        /\ b.trusted = Account(slot).trusted
    BY <1>4, <1>7, AccountedFields DEF Moved
  <2>2. Account(slot).csa2 = slot.csa2 /\ Account(slot).encrypted = slot.encrypted
    BY <1>1 DEF Account, SlotRecord
  <2> QED BY <2>1, <2>2, SameYield
<1> HIDE DEF a, b, n, f, s
<1>9. CASE ~YieldsToScan(b)
  <2>1. Left = b
    BY <1>9 DEF Left, YieldEvent, a, b, s
  <2>2. k + 1 \in 0..W-1 /\ k + 1 \in 0..2*f
    BY <1>1
  <2>3. Left.cnt = (n + (k + 1)) % W
    <3>1. (n + 1) + k = n + (k + 1)
      BY <1>1
    <3> QED BY <1>7, <2>1, <3>1 DEF Moved
  <2>4. Gone = k + 1
    <3>1. n \in Int
      BY <1>1
    <3> QED BY <1>1, <2>2, <2>3, <3>1, ModDistance DEF Gone, InStep, n
  <2>5. Near(Left, n + (k + 1))
    BY <1>3, <1>4, <1>7, <2>1, <2>2, <2>3 DEF Moved
  <2>6. \A j \in n + 1 .. n + Gone - 1 : ~MustAttend(slot, j)
    BY <1>1, <1>6, <1>7, <2>4
  <2>7. Gone - 1 = k
    BY <2>4
  <2> QED BY <1>1, <1>4, <1>7, <2>1, <2>2, <2>4, <2>5, <2>6, <2>7 DEF n, s
<1>10. CASE YieldsToScan(b)
  <2>1. Left = SubrateSkip(c)
    BY <1>10 DEF Left, YieldEvent, a, b, s
  <2>2. n + 1 + k \in Nat /\ n + 1 \in Nat /\ 1 \in Nat
    BY <1>1
  <2>3. Moved(b, c, n + 1 + k, 1)
    BY <1>7, <2>2, SkipMoves DEF Moved
  <2>4. Moved(a, c, n + 1, k + 1)
    BY <1>4, <1>7, <2>2, <2>3, MovedTwice
  <2> HIDE DEF c
  <2>5. n + 1 + (k + 1) = n + (k + 2) /\ n + (k + 2) \in Nat /\ k + 2 \in 0 .. 2*f /\ k + 1 \in Nat
    BY <1>1
  <2>6. c \in SlotRecord /\ c.cnt = (n + (k + 2)) % W /\ c.pending = slot.pending
        /\ c.factor = f /\ c.base = slot.base
    BY <1>4, <2>4, <2>5 DEF Moved
  <2>7. Near(c, n + (k + 2))
    BY <1>3, <2>5, <2>6
  <2>8. PICK l \in 0..f-1 :
          /\ Moved(c, Left, n + (k + 2), l)
          /\ \A j \in n + (k + 2) .. n + (k + 2) + l - 1 : ~MustAttend(c, j)
    BY <2>1, <2>5, <2>6, <2>7, SubrateMoves
  <2>9. Moved(a, Left, n + 1, (k + 1) + l)
    <3>1. n + 1 \in Nat /\ k + 1 \in Nat /\ l \in Nat /\ (n + 1) + (k + 1) = n + (k + 2)
      BY <1>1
    <3>2. Moved(c, Left, (n + 1) + (k + 1), l)
      BY <2>8, <3>1
    <3> QED BY <1>4, <2>4, <3>1, <3>2, MovedTwice
  <2> DEFINE d == k + 2 + l
  <2>10. d \in 0..W-1 /\ d \in 1..W-1 /\ d \in 0 .. 2*f /\ d - 1 = (k + 1) + l
    BY <1>1
  <2>11. Left.cnt = (n + d) % W
    <3>1. (n + 1) + ((k + 1) + l) = n + d
      BY <1>1
    <3> QED BY <2>9, <3>1 DEF Moved
  <2>12. \A j \in (n + 1 .. n + d - 1) \ {n + 1 + k} : ~MustAttend(slot, j)
    <3> TAKE j \in (n + 1 .. n + d - 1) \ {n + 1 + k}
    <3>1. j \in n+1 .. n+1+k-1 \/ j \in n + (k + 2) .. n + (k + 2) + l - 1
      BY <1>1
    <3>2. MustAttend(c, j) <=> MustAttend(slot, j)
      BY <2>6 DEF MustAttend, f
    <3> QED BY <1>6, <1>7, <2>8, <3>1, <3>2
  <2> HIDE DEF d
  <2>13. Gone = d
    <3>1. n \in Int
      BY <1>1
    <3> QED BY <1>1, <2>10, <2>11, <3>1, ModDistance DEF Gone, InStep, n
  <2>14. Near(Left, n + d)
    BY <1>3, <1>4, <2>9, <2>10, <2>11 DEF Moved
  <2>15. n + 1 + k \in Int
    BY <1>1
  <2> QED BY <1>4, <1>8, <1>10, <2>9, <2>10, <2>12, <2>13, <2>14, <2>15 DEF n, s
<1> QED BY <1>9, <1>10


----------------------------------------------------------------------------
(* Channels and windows.                                                   *)

LEMMA MapFacts ==
  ASSUME NEW map \in Maps
  PROVE  /\ map \in SUBSET Nat /\ map \subseteq 0..NChannels-1 /\ IsFiniteSet(map)
         /\ Cardinality(map) \in Nat \ {0}
<1>1. map \subseteq 0..NChannels-1 /\ IsFiniteSet(map) /\ Cardinality(map) > 1
  BY CountersAssumption
<1>2. NChannels \in Nat
  BY ConstantTypes
<1>3. Cardinality(map) \in Nat
  BY <1>1, FS_CardinalityType
<1> QED BY <1>1, <1>2, <1>3

\* Both algorithms stay in the channel map.
LEMMA Csa1InMap ==
  ASSUME NEW map \in Maps, NEW unmapped \in Nat
  PROVE  Csa1Channel(unmapped, map) \in map
<1>1. /\ map \in SUBSET Nat /\ IsFiniteSet(map) /\ Cardinality(map) \in Nat \ {0}
  BY MapFacts
<1>2. unmapped % Cardinality(map) \in 0 .. Cardinality(map) - 1
  <2>1. unmapped \in Int
    OBVIOUS
  <2> QED BY <1>1, <2>1, Division
<1>3. Remap(map, unmapped % Cardinality(map)) \in map
  BY <1>1, <1>2, RemapInMap
<1> QED BY <1>3 DEF Csa1Channel

LEMMA PrnType ==
  ASSUME NEW cnt \in 0..W-1
  PROVE  Prn[cnt] \in 0..W-1
BY XorType DEF Prn, PrnE

LEMMA Csa2NextInMap ==
  ASSUME NEW map \in Maps, NEW cnt \in 0..W-1
  PROVE  Csa2Next(cnt, map) \in map
<1>1. /\ map \in SUBSET Nat /\ IsFiniteSet(map) /\ Cardinality(map) \in Nat \ {0}
  BY MapFacts
<1>2. Cardinality(map) > 0
  BY <1>1
<1> QED BY <1>1, <1>2, PrnType, Csa2InMap DEF Csa2Next

LEMMA TrueChannelInMap ==
  ASSUME NEW csa2 \in BOOLEAN, link \in LinkRecord
  PROVE  TrueChannel(link, csa2) \in link.map
<1>1. link.map \in Maps /\ link.n \in Nat
  BY DEF LinkRecord
<1>2. link.n % W \in 0..W-1
  <2>1. link.n \in Int /\ W \in Nat \ {0}
    BY <1>1, ConstantTypes
  <2> QED BY <2>1, Division
<1>3. ((link.n + 1) * Hop) % NChannels \in Nat
  <2>1. (link.n + 1) * Hop \in Int /\ NChannels \in Nat \ {0}
    BY <1>1, ConstantTypes
  <2> DEFINE x == (link.n + 1) * Hop
  <2> HIDE DEF x
  <2>2. x % NChannels \in 0..NChannels-1
    BY <2>1, Division DEF x
  <2> QED BY <2>1, <2>2 DEF x
<1> QED BY <1>1, <1>2, <1>3, Csa1InMap, Csa2NextInMap DEF TrueChannel

LEMMA HoppedFields ==
  ASSUME NEW s \in SlotRecord
  PROVE  /\ Hopped(s) \in SlotRecord
         /\ Hopped(s) = [s EXCEPT !.last = Hopped(s).last]
         /\ s.csa2 => Hopped(s).last = s.last
         /\ ~s.csa2 => Hopped(s).last = (s.last + Hop) % NChannels
<1>1. s.last \in Int /\ s.last + Hop \in Int /\ NChannels \in Nat \ {0}
  BY ConstantTypes DEF SlotRecord
<1> DEFINE x == s.last + Hop
<1> HIDE DEF x
<1>2. x % NChannels \in 0..NChannels-1
  BY <1>1, Division DEF x
<1>3. Csa1Step(s.last, Hop) \in 0..NChannels-1 /\ Csa1Step(s.last, Hop) = (s.last + Hop) % NChannels
  BY <1>2 DEF Csa1Step, x
<1> QED BY <1>3 DEF Hopped, SlotRecord

LEMMA ChannelType ==
  ASSUME NEW s \in SlotRecord
  PROVE  ChannelForEvent(s) \in Int
<1>1. s.map \in Maps /\ s.cnt \in 0..W-1 /\ Hopped(s).last \in Nat
  BY HoppedFields DEF SlotRecord
<1>2. Csa1Channel(Hopped(s).last, s.map) \in Int /\ Csa2Next(s.cnt, s.map) \in Int
  BY <1>1, Csa1InMap, Csa2NextInMap, MapFacts
<1>3. UnmappedChannel(s.cnt) \in Int
  <2>1. Prn[s.cnt] \in Int /\ NChannels \in Nat \ {0}
    BY <1>1, PrnType, ConstantTypes
  <2> DEFINE x == Prn[s.cnt]
  <2> HIDE DEF x
  <2>2. x % NChannels \in 0..NChannels-1
    BY <2>1, Division DEF x
  <2> QED BY <2>2 DEF UnmappedChannel, x
<1> QED BY <1>2, <1>3 DEF ChannelForEvent

\* The size of the window serve_open would give slot s at its usual size.
Usual(s) ==
  IF s.firstWin # 0 THEN s.firstWin
  ELSE 2 * OpenGuard(s) + (IF s.phy = "Coded" THEN Coded ELSE Steady)

\* Relocking only widens, and the room before the next event is kept free.
LEMMA WindowIs ==
  ASSUME NEW s \in SlotRecord
  PROVE  /\ Window(s) \in Int
         /\ Window(s) >= Usual(s) \/ Window(s) = s.interval - LateLead
<1> DEFINE w == Least(s.miss - RelockThreshold(s), WidenMax)
           p == 2 * OpenGuard(s) + RelockSpan * 2^w
           first == Usual(s)
           wide == IF Relocking(s) THEN Greatest(first, p) ELSE first
<1>0. OpenGuard(s) \in Nat
  BY LeadIs DEF OpenGuard, SlotRecord
<1>1. first \in Int /\ s.interval - LateLead \in Int
  BY <1>0, SlotNumbers, ConstantTypes DEF Usual
<1>2. Relocking(s) => p \in Int
  <2> HAVE Relocking(s)
  <2>1. RelockThreshold(s) \in Nat
    BY ConstantTypes DEF RelockThreshold
  <2>2. w \in Nat
    BY <2>1, SlotNumbers, ConstantTypes DEF Relocking, Least
  <2> HIDE DEF w
  <2>3. 2^w \in Int
    BY <2>2
  <2> QED BY <1>0, <2>3, ConstantTypes
<1>3. Window(s) = Least(wide, s.interval - LateLead)
  BY DEF Window, Usual
<1> HIDE DEF first, p
<1>4. wide \in Int /\ wide >= first
  BY <1>1, <1>2 DEF Greatest
<1> HIDE DEF wide
<1> QED BY <1>1, <1>3, <1>4 DEF Least, first

LEMMA ListenPhyType ==
  ASSUME NEW s \in SlotRecord
  PROVE  ListenPhy(s) \in Phys
BY DEF ListenPhy, SlotRecord, Phys

----------------------------------------------------------------------------
(* The link.                                                               *)

LEMMA UpdatesAre ==
  ASSUME link \in LinkRecord, NEW u \in Updates
  PROVE  /\ u \in UpdateRecord /\ ~u.told
         /\ u.instant > link.n /\ u.instant <= link.n + MaxAhead
<1>1. link.n \in Nat /\ MaxAhead \in Nat
  BY Horizon DEF LinkRecord
<1>2. \A j \in (link.n + 1) .. (link.n + MaxAhead) : j \in Nat /\ j > link.n /\ j <= link.n + MaxAhead
  BY <1>1
<1> DEFINE instants == (link.n + 1) .. (link.n + MaxAhead)
<1>3. \/ \E j \in instants, m \in Maps :
           u = [kind |-> "map", instant |-> j, told |-> FALSE, map |-> m]
      \/ \E j \in instants, p \in Phys :
           u = [kind |-> "phy", instant |-> j, told |-> FALSE, phy |-> p]
      \/ \E j \in instants, i \in ConnIntervals, o \in Offsets, p \in {0, WinSize} :
           u = [kind |-> "conn", instant |-> j, told |-> FALSE,
                interval |-> i, offset |-> o, place |-> p]
      \/ \E j \in instants, i \in Intervals, o \in Offsets, x \in Factors :
           u = [kind |-> "rate", instant |-> j, told |-> FALSE,
                interval |-> i, offset |-> o, place |-> 0, factor |-> x]
  BY DEF Updates
<1> HIDE DEF instants
<1>4. \A j \in instants : j \in Nat /\ j > link.n /\ j <= link.n + MaxAhead
  BY <1>2 DEF instants
<1>5. ASSUME NEW j \in instants, NEW m \in Maps,
             u = [kind |-> "map", instant |-> j, told |-> FALSE, map |-> m]
      PROVE  u \in UpdateRecord /\ ~u.told /\ u.instant = j
  BY <1>4, <1>5 DEF UpdateRecord
<1>6. ASSUME NEW j \in instants, NEW p \in Phys,
             u = [kind |-> "phy", instant |-> j, told |-> FALSE, phy |-> p]
      PROVE  u \in UpdateRecord /\ ~u.told /\ u.instant = j
  BY <1>4, <1>6 DEF UpdateRecord
<1>7. ASSUME NEW j \in instants, NEW i \in ConnIntervals, NEW o \in Offsets, NEW p \in {0, WinSize},
             u = [kind |-> "conn", instant |-> j, told |-> FALSE,
                  interval |-> i, offset |-> o, place |-> p]
      PROVE  u \in UpdateRecord /\ ~u.told /\ u.instant = j
  BY <1>4, <1>7 DEF UpdateRecord
<1>8. ASSUME NEW j \in instants, NEW i \in Intervals, NEW o \in Offsets, NEW x \in Factors,
             u = [kind |-> "rate", instant |-> j, told |-> FALSE,
                  interval |-> i, offset |-> o, place |-> 0, factor |-> x]
      PROVE  u \in UpdateRecord /\ ~u.told /\ u.instant = j
  BY <1>4, <1>8 DEF UpdateRecord
<1>9. \E j \in instants : u \in UpdateRecord /\ ~u.told /\ u.instant = j
  BY <1>3, <1>5, <1>6, <1>7, <1>8
<1> QED BY <1>4, <1>9

LEMMA TellFields ==
  ASSUME NEW u \in UpdateRecord
  PROVE  /\ Tell(u) \in UpdateRecord /\ Tell(u).told
         /\ Tell(u).kind = u.kind /\ Tell(u).instant = u.instant
         /\ u.kind = "map" => Tell(u).map = u.map
         /\ u.kind = "phy" => Tell(u).phy = u.phy
         /\ u.kind \in {"conn", "rate"} =>
              /\ Tell(u).interval = u.interval /\ Tell(u).offset = u.offset
              /\ Tell(u).place = u.place
BY DEF Tell, UpdateRecord

LEMMA LinkAfterFields ==
  ASSUME Types, NEW d \in Nat
  PROVE  LET l == LinkAfter(d)
         IN  /\ l \in LinkRecord /\ l.n = link.n + d
             /\ l.map = IF TakesEffect(d) /\ upd.kind = "map" THEN upd.map ELSE link.map
             /\ l.phy = IF TakesEffect(d) /\ upd.kind = "phy" THEN upd.phy ELSE link.phy
             /\ l.interval = IF TakesEffect(d) /\ upd.kind \in {"conn", "rate"}
                             THEN upd.interval ELSE link.interval
<1>1. link \in LinkRecord /\ link.n + d \in Nat
  BY DEF Types, LinkRecord
<1>2. CASE ~TakesEffect(d)
  <2>1. LinkAfter(d) = [link EXCEPT !.n = @ + d]
    BY <1>2 DEF LinkAfter
  <2> QED BY <1>1, <1>2, <2>1 DEF LinkRecord
<1>3. CASE TakesEffect(d)
  <2>1. upd \in UpdateRecord
    BY <1>3 DEF TakesEffect, InForce, Types
  <2>2. CASE upd.kind = "map"
    <3>1. LinkAfter(d) = [link EXCEPT !.n = @ + d, !.map = upd.map]
      BY <1>1, <1>3, <2>2 DEF LinkAfter, LinkRecord
    <3> QED BY <1>1, <1>3, <2>1, <2>2, <3>1, UpdateFields DEF LinkRecord
  <2>3. CASE upd.kind = "phy"
    <3>1. LinkAfter(d) = [link EXCEPT !.n = @ + d, !.phy = upd.phy]
      BY <1>1, <1>3, <2>3 DEF LinkAfter, LinkRecord
    <3> QED BY <1>1, <1>3, <2>1, <2>3, <3>1, UpdateFields DEF LinkRecord
  <2>4. CASE upd.kind \in {"conn", "rate"}
    <3>1. LinkAfter(d) = [link EXCEPT !.n = @ + d, !.interval = upd.interval]
      BY <1>1, <1>3, <2>4 DEF LinkAfter, LinkRecord
    <3> QED BY <1>1, <1>3, <2>1, <2>4, <3>1, UpdateFields DEF LinkRecord
  <2> QED BY <2>1, <2>2, <2>3, <2>4, UpdateFields DEF Kinds
<1> QED BY <1>2, <1>3

LEMMA DistanceType ==
  ASSUME Types, NEW d \in Nat
  PROVE  Distance(d) \in Int
<1>1. link.n \in Int /\ link.interval \in Int
  BY ConstantTypes DEF Types, LinkRecord
<1>2. d * link.interval \in Int
  BY <1>1
<1>3. ASSUME TakesEffect(d), upd.kind \in {"conn", "rate"}
      PROVE  (upd.instant - link.n) * link.interval + upd.offset + upd.place
             + (link.n + d - upd.instant) * upd.interval \in Int
  <2>1. upd \in UpdateRecord
    BY <1>3 DEF TakesEffect, InForce, Types
  <2>2. upd.instant \in Int /\ upd.offset \in Int /\ upd.place \in Int /\ upd.interval \in Int
    BY <1>3, <2>1, UpdateFields, ConstantTypes
  <2>3. (upd.instant - link.n) * link.interval \in Int
        /\ (link.n + d - upd.instant) * upd.interval \in Int
    BY <1>1, <2>2
  <2> QED BY <2>2, <2>3
<1> QED BY <1>2, <1>3 DEF Distance


----------------------------------------------------------------------------
(* What the steps do.                                                      *)

LEMMA MissFields ==
  ASSUME NEW g \in GhostRecord, NEW u
  PROVE  LET r == Miss(g, u)
         IN  /\ r \in GhostRecord
             /\ r.anchorLost <=> g.anchorLost \/ u.kind \in {"conn", "rate"}
             /\ r.mapLost <=> g.mapLost \/ u.kind = "map"
             /\ r.phyLost <=> g.phyLost \/ u.kind = "phy"
             /\ r.mapMoved = g.mapMoved /\ r.reanchored = g.reanchored
             /\ r.unplaced = g.unplaced /\ r.skipped = g.skipped
BY DEF Miss, GhostRecord

LEMMA NoteAppliedFields ==
  ASSUME NEW s \in SlotRecord, NEW m \in Nat, Near(s, m), NEW g \in GhostRecord
  PROVE  LET r == NoteApplied(s, g)
             u == s.pending.update
         IN  /\ r \in GhostRecord
             /\ r.mapMoved = g.mapMoved /\ r.skipped = g.skipped
             /\ ~IsDue(s, m) => r = g
             /\ IsDue(s, m) =>
                  /\ r.anchorLost <=>
                       \/ g.anchorLost
                       \/ u.kind = "rate" /\ u.instant # m
                       \/ u.kind \in {"conn", "rate"} /\ (g.reanchored \/ g.unplaced)
                       \/ u.kind = "phy" /\ g.unplaced
                  /\ r.mapLost <=> g.mapLost /\ u.kind # "map"
                  /\ r.phyLost <=> g.phyLost /\ u.kind # "phy"
                  /\ ~r.reanchored
                  /\ r.unplaced <=> g.unplaced \/ u.kind = "conn"
<1>1. Due(s) <=> IsDue(s, m)
  <2>1. CASE s.pending = NoUpdate
    BY <2>1 DEF Due, IsDue
  <2>2. CASE s.pending # NoUpdate
    BY <2>2, DueMeans DEF IsDue
  <2> QED BY <2>1, <2>2
<1>2. IsDue(s, m) => Late(s) = m - s.pending.update.instant /\ s.pending.update.instant \in Nat
  BY DueMeans, UpdateFields DEF IsDue, SlotRecord, PendingRecord
<1>3. IsDue(s, m) => (Late(s) # 0 <=> s.pending.update.instant # m)
  BY <1>2
<1>4. CASE ~IsDue(s, m)
  BY <1>1, <1>4 DEF NoteApplied
<1>5. CASE IsDue(s, m)
  <2> DEFINE u == s.pending.update
             a == g.anchorLost \/ (Late(s) # 0 /\ u.kind = "rate")
                  \/ (g.reanchored /\ u.kind \in {"conn", "rate"})
                  \/ (g.unplaced /\ u.kind \in {"conn", "rate", "phy"})
             b == g.mapLost /\ u.kind # "map"
             c == g.phyLost /\ u.kind # "phy"
             d == g.unplaced \/ u.kind = "conn"
  <2>1. a \in BOOLEAN /\ b \in BOOLEAN /\ c \in BOOLEAN /\ d \in BOOLEAN
    OBVIOUS
  <2>2. NoteApplied(s, g) = [g EXCEPT !.anchorLost = a, !.mapLost = b, !.phyLost = c,
                                      !.reanchored = FALSE, !.unplaced = d]
    BY <1>1, <1>5 DEF NoteApplied, GhostRecord
  <2>3. a <=> \/ g.anchorLost
              \/ u.kind = "rate" /\ u.instant # m
              \/ u.kind \in {"conn", "rate"} /\ (g.reanchored \/ g.unplaced)
              \/ u.kind = "phy" /\ g.unplaced
    BY <1>3, <1>5
  <2> DEFINE r == NoteApplied(s, g)
  <2>4. /\ r \in GhostRecord /\ r.mapMoved = g.mapMoved /\ r.skipped = g.skipped
        /\ r.anchorLost = a /\ r.mapLost = b /\ r.phyLost = c /\ r.reanchored = FALSE
        /\ r.unplaced = d
    <3> HIDE DEF a, b, c, d
    <3> QED BY <2>1, <2>2 DEF GhostRecord
  <2> HIDE DEF r
  <2> QED BY <1>5, <2>3, <2>4 DEF r
<1> QED BY <1>4, <1>5

\* The slot and the window after a packet, whatever it says.
Hears ==
  /\ win.open /\ win.heard = "nothing" /\ win' \in OpenRecord /\ win'.heard # "nothing"
  /\ win'.open /\ win'.probing = win.probing /\ win'.channel = win.channel /\ win'.phy = win.phy
  /\ win'.from = win.from /\ win'.to = win.to /\ win'.informed = win.informed
  /\ win'.armed = win.armed /\ win'.moved = win.moved /\ slot'.head = slot.head
  /\ win.channel = TrueChannel(link, slot.csa2)
  /\ slot' \in SlotRecord
  /\ slot'.active = slot.active /\ slot'.csa2 = slot.csa2 /\ slot'.cnt = slot.cnt
  /\ slot'.mts = slot.mts /\ slot'.interval = slot.interval /\ slot'.map = slot.map
  /\ slot'.last = slot.last /\ slot'.phy = slot.phy /\ slot'.firstWin = slot.firstWin
  /\ slot'.miss = slot.miss /\ slot'.trusted = slot.trusted
  /\ slot.encrypted => slot'.encrypted

TeachesNothing ==
  /\ Hears
  /\ slot'.pending = slot.pending
  /\ UNCHANGED <<link, upd, ghost>>

InHand(u, hinted) ==
  [kind |-> u.kind, instant |-> u.instant % W, hinted |-> hinted, update |-> u]

TeachesUpdate ==
  /\ Hears
  /\ ~slot.encrypted /\ ~slot'.encrypted /\ CentralFree
  /\ \E u \in UpdateRecord :
       /\ ~u.told /\ u.instant > link.n /\ u.instant <= link.n + MaxAhead
       /\ upd' = Tell(u)
       /\ slot'.pending = InHand(u, FALSE)
  /\ link' \in LinkRecord /\ link' = [link EXCEPT !.updates = @ + 1]
  /\ ghost' = Forget(ghost)

LEMMA InHandType ==
  ASSUME NEW u \in UpdateRecord, NEW hinted \in BOOLEAN
  PROVE  /\ InHand(u, hinted) \in PendingRecord /\ InHand(u, hinted) # NoUpdate
         /\ InHand(u, hinted).update = u /\ InHand(u, hinted).kind = u.kind
         /\ InHand(u, hinted).instant = u.instant % W
<1>1. u.kind \in Kinds /\ u.instant \in Int /\ W \in Nat \ {0}
  BY UpdateFields, ConstantTypes
<1>2. u.instant % W \in 0..W-1
  BY <1>1, Division
<1> QED BY <1>1, <1>2 DEF InHand, PendingRecord, NoUpdate, Kinds

LEMMA HearStep ==
  ASSUME Types
  PROVE  /\ HearCorrupt \/ HearEmpty \/ HearData \/ HearEncryption \/ HearSubrate
              => TeachesNothing
         /\ HearUpdate => TeachesUpdate
<1>1. slot \in SlotRecord /\ link \in LinkRecord
  BY DEF Types
<1>2. Reaches => win \in OpenRecord /\ win.open /\ win.heard = "nothing"
                 /\ win.channel = TrueChannel(link, slot.csa2)
  BY OpenFields DEF Reaches
<1>3. ASSUME NEW h \in {"good", "corrupt"}, Reaches, win' = [win EXCEPT !.heard = h]
      PROVE  /\ win' \in OpenRecord /\ win'.heard # "nothing"
             /\ win'.open /\ win'.probing = win.probing /\ win'.channel = win.channel
             /\ win'.phy = win.phy /\ win'.from = win.from /\ win'.to = win.to
             /\ win'.informed = win.informed /\ win'.armed = win.armed
             /\ win'.moved = win.moved
  BY <1>2, <1>3 DEF OpenRecord
<1>4. slot.cont \in 0..Continuation /\ Continuation \in 0..Continuation
  BY <1>1, ConstantTypes DEF SlotRecord
<1>5. link.n % W \in 0..W-1
  <2>1. link.n \in Int /\ W \in Nat \ {0}
    BY <1>1, ConstantTypes DEF LinkRecord
  <2> QED BY <2>1, Division
<1>6. HearCorrupt => TeachesNothing
  BY <1>1, <1>2, <1>3 DEF HearCorrupt, TeachesNothing, Hears
<1>7. HearEmpty => TeachesNothing
  BY <1>1, <1>2, <1>3 DEF HearEmpty, TeachesNothing, Hears
<1>8. ASSUME HearData PROVE TeachesNothing
  <2>1. slot' = [slot EXCEPT !.contLeft = slot.cont]
    BY <1>8 DEF HearData
  <2> QED BY <1>1, <1>2, <1>3, <1>4, <1>8, <2>1 DEF HearData, TeachesNothing, Hears, SlotRecord
<1>9. ASSUME HearEncryption PROVE TeachesNothing
  <2>1. slot' = [slot EXCEPT !.contLeft = slot.cont, !.encrypted = TRUE]
    BY <1>9 DEF HearEncryption
  <2>2. Reaches /\ win' = [win EXCEPT !.heard = "good"] /\ UNCHANGED <<link, upd, ghost>>
    BY <1>9 DEF HearEncryption
  <2>3. /\ slot' \in SlotRecord /\ slot'.encrypted = TRUE
        /\ slot'.active = slot.active /\ slot'.csa2 = slot.csa2 /\ slot'.cnt = slot.cnt
        /\ slot'.mts = slot.mts /\ slot'.interval = slot.interval /\ slot'.map = slot.map
        /\ slot'.last = slot.last /\ slot'.phy = slot.phy /\ slot'.firstWin = slot.firstWin
        /\ slot'.miss = slot.miss /\ slot'.trusted = slot.trusted /\ slot'.head = slot.head
        /\ slot'.pending = slot.pending
    BY <1>1, <1>4, <2>1 DEF SlotRecord
  <2> QED BY <1>2, <1>3, <2>2, <2>3 DEF TeachesNothing, Hears
<1>10. ASSUME HearSubrate PROVE TeachesNothing
  <2>1. PICK f \in Factors :
          slot' = [slot EXCEPT !.factor = f, !.base = link.n % W,
                               !.cont = Continuation, !.contLeft = Continuation]
    BY <1>10 DEF HearSubrate
  <2> QED BY <1>1, <1>2, <1>3, <1>4, <1>5, <1>10, <2>1
          DEF HearSubrate, TeachesNothing, Hears, SlotRecord
<1>11. ASSUME HearUpdate PROVE TeachesUpdate
  <2>1. PICK u \in Updates :
          /\ upd' = Tell(u)
          /\ slot' = [slot EXCEPT !.contLeft = slot.cont, !.pending = InHand(u, FALSE)]
    BY <1>11 DEF HearUpdate, Tell, InHand
  <2>2. /\ u \in UpdateRecord /\ ~u.told /\ u.instant > link.n
        /\ u.instant <= link.n + MaxAhead
    BY <1>1, UpdatesAre
  <2>3. InHand(u, FALSE) \in PendingRecord
    BY <2>2, InHandType
  <2>4. Hears /\ slot'.pending = InHand(u, FALSE) /\ slot'.encrypted = slot.encrypted
    BY <1>1, <1>2, <1>3, <1>4, <1>11, <2>1, <2>3 DEF HearUpdate, Hears, SlotRecord
  <2>5. link' = [link EXCEPT !.updates = @ + 1] /\ link' \in LinkRecord
    BY <1>1, <1>11 DEF HearUpdate, LinkRecord
  <2> QED BY <1>11, <2>1, <2>2, <2>4, <2>5 DEF HearUpdate, TeachesUpdate
<1> QED BY <1>6, <1>7, <1>8, <1>9, <1>10, <1>11

\* What the host knows and the slot does not.
LEMMA HintStep ==
  ASSUME Types, Hint
  PROVE  /\ slot.active /\ slot.encrypted /\ upd \in UpdateRecord /\ ~upd.told
         /\ link.n - upd.instant <= MaxLate
         /\ upd' = Tell(upd)
         /\ slot' = [slot EXCEPT !.pending = InHand(upd, TRUE)] /\ slot' \in SlotRecord
         /\ slot'.pending = InHand(upd, TRUE)
         /\ ghost' = IF slot.pending = NoUpdate THEN ghost ELSE Miss(ghost, Pending)
         /\ ghost' \in GhostRecord
         /\ UNCHANGED <<link, win>>
<1>1. slot \in SlotRecord /\ upd \in UpdateRecord /\ ghost \in GhostRecord
  BY DEF Types, Hint
<1>2. InHand(upd, TRUE) \in PendingRecord
  BY <1>1, InHandType
<1>3. slot' = [slot EXCEPT !.pending = InHand(upd, TRUE)]
  BY DEF Hint, InHand
<1>4. slot' \in SlotRecord /\ slot'.pending = InHand(upd, TRUE)
  BY <1>1, <1>2, <1>3 DEF SlotRecord
<1>5. ghost' = IF slot.pending = NoUpdate THEN ghost ELSE Miss(ghost, Pending)
  BY DEF Hint, Pending
<1>6. ghost' \in GhostRecord
  BY <1>1, <1>5, MissFields
<1> QED BY <1>1, <1>3, <1>4, <1>5, <1>6 DEF Hint, Tell

LEMMA ForgetFields ==
  ASSUME Types
  PROVE  LET r == Forget(ghost)
             lost == upd # NoUpdate /\ ~upd.told
         IN  /\ r \in GhostRecord
             /\ r.anchorLost <=> ghost.anchorLost \/ (lost /\ upd.kind \in {"conn", "rate"})
             /\ r.mapLost <=> ghost.mapLost \/ (lost /\ upd.kind = "map")
             /\ r.phyLost <=> ghost.phyLost \/ (lost /\ upd.kind = "phy")
             /\ r.mapMoved = ghost.mapMoved /\ r.reanchored = ghost.reanchored
             /\ r.unplaced = ghost.unplaced /\ r.skipped = ghost.skipped
BY MissFields DEF Forget, Types

LEMMA AnnounceStep ==
  ASSUME Types, AnnounceUnheard
  PROVE  /\ CentralFree
         /\ upd' \in UpdateRecord /\ ~upd'.told
         /\ upd'.instant > link.n /\ upd'.instant <= link.n + MaxAhead
         /\ link' = [link EXCEPT !.updates = @ + 1] /\ link' \in LinkRecord
         /\ ghost' = Forget(ghost)
         /\ UNCHANGED <<slot, win>>
<1>1. PICK u \in Updates : upd' = u
  BY DEF AnnounceUnheard
<1>2. link \in LinkRecord
  BY DEF Types
<1>3. link' = [link EXCEPT !.updates = @ + 1] /\ link' \in LinkRecord
  BY <1>2 DEF AnnounceUnheard, LinkRecord
<1> QED BY <1>1, <1>2, <1>3, UpdatesAre DEF AnnounceUnheard

LEMMA NearNow ==
  ASSUME Types, InStep, InstantsNear
  PROVE  Near(slot, link.n) /\ (IsDue(slot, link.n) <=> PendingInForce)
<1>1. /\ slot \in SlotRecord /\ link.n \in Nat
      /\ MaxAhead < W \div 2 /\ MaxAhead \in Nat /\ MaxLate \in Nat /\ W \div 2 \in Nat
      /\ MaxLate + 2 * 1 < W \div 2
  BY Horizon DEF Types, LinkRecord
<1>2. CASE slot.pending = NoUpdate
  BY <1>2 DEF Near, InStep, IsDue, PendingInForce
<1>3. CASE slot.pending # NoUpdate
  <2> DEFINE h == W \div 2
             k == Pending.instant
             n == link.n
  <2>1. h \in Nat /\ MaxAhead < h /\ MaxLate + 2 < h /\ k \in Nat /\ n \in Nat
        /\ k <= n + MaxAhead /\ n <= k + MaxLate
    BY <1>1, <1>3, UpdateFields DEF InstantsNear, Pending, SlotRecord, PendingRecord
  <2> HIDE DEF h, k, n
  <2>2. k - n < h /\ n - k < h
    BY <1>1, <2>1
  <2> QED BY <1>3, <2>2 DEF Near, InStep, InstantsNear, IsDue, PendingInForce, Pending, h, k, n
<1> QED BY <1>2, <1>3

Opened == ApplyPendingIfDue(slot)
From == slot.mts + slot.head - OpenGuard(slot)

LEMMA OpenStep ==
  ASSUME Types, InStep, InstantsNear, ServeOpen
  PROVE  /\ slot.active /\ ~win.open /\ UNCHANGED <<link, upd>>
         /\ Opened \in SlotRecord
         /\ ~PendingInForce => Opened = slot
         /\ PendingInForce => AppliedTo(slot, Opened, Pending, link.n - Pending.instant)
         /\ slot' = [Opened EXCEPT !.last = Hopped(Opened).last] /\ slot' \in SlotRecord
         /\ win' = [open |-> TRUE, probing |-> Probes(Opened),
                    channel |-> ChannelForEvent(Opened), phy |-> ListenPhy(Opened),
                    armed |-> slot.phy, from |-> From, to |-> From + Window(Opened),
                    moved |-> PendingInForce /\ Pending.kind \in {"conn", "rate"},
                    informed |-> ~UntoldInForce, heard |-> "nothing"]
         /\ win' \in OpenRecord
         /\ ghost' = NoteApplied(slot, ghost) /\ ghost' \in GhostRecord
<1>1. slot \in SlotRecord /\ link.n \in Nat /\ ghost \in GhostRecord
      /\ Near(slot, link.n) /\ (IsDue(slot, link.n) <=> PendingInForce)
  BY NearNow DEF Types, LinkRecord
<1>2. /\ ~PendingInForce => Opened = slot
      /\ PendingInForce => AppliedTo(slot, Opened, Pending, link.n - Pending.instant)
  BY <1>1, ApplyIs DEF Opened, Pending
<1>3. Opened \in SlotRecord
  BY <1>1, <1>2 DEF AppliedTo
<1>4. slot' = Hopped(Opened) /\ ghost' = NoteApplied(slot, ghost)
      /\ win' = [open |-> TRUE, probing |-> Probes(Opened),
                 channel |-> ChannelForEvent(Opened), phy |-> ListenPhy(Opened),
                 armed |-> slot.phy, from |-> From, to |-> From + Window(Opened),
                 moved |-> PendingInForce /\ Pending.kind \in {"conn", "rate"},
                 informed |-> ~UntoldInForce, heard |-> "nothing"]
  <2>1. (Due(slot) /\ slot.pending.kind \in {"conn", "rate"})
          = (PendingInForce /\ Pending.kind \in {"conn", "rate"})
    BY <1>1, DueMeans DEF Due, IsDue, InstantsNear, PendingInForce, Pending
  <2> QED BY <2>1 DEF ServeOpen, Opened, From, UntoldInForce
<1>5. win' \in OpenRecord
  <2>1. From \in Int /\ Window(Opened) \in Int /\ slot.phy \in Phys
    <3>1. slot.mts \in Int /\ slot.head \in Nat /\ OpenGuard(slot) \in Nat /\ slot.phy \in Phys
      BY <1>1, LeadIs DEF OpenGuard, SlotRecord
    <3> QED BY <1>3, <3>1, WindowIs DEF From
  <2>2. ChannelForEvent(Opened) \in Int /\ ListenPhy(Opened) \in Phys
    BY <1>3, ChannelType, ListenPhyType
  <2>3. /\ Probes(Opened) \in BOOLEAN /\ (~UntoldInForce) \in BOOLEAN
        /\ (PendingInForce /\ Pending.kind \in {"conn", "rate"}) \in BOOLEAN
    BY DEF Probes
  <2> QED BY <1>4, <2>1, <2>2, <2>3 DEF OpenRecord
<1>6. ghost' \in GhostRecord
  BY <1>1, <1>4, NoteAppliedFields
<1> QED BY <1>2, <1>3, <1>4, <1>5, <1>6, HoppedFields DEF ServeOpen


Heard == win.heard # "nothing"

GhostLeft ==
  [ghost EXCEPT !.skipped = @ \/ Gone > 1,
                !.mapMoved = @ \/ (TakesEffect(Gone) /\ upd.kind = "map" /\ ~upd.told),
                !.reanchored = @ \/ (win.heard # "nothing" /\ Reanchors),
                !.unplaced = @ /\ win.heard = "nothing"]

LEMMA GhostLeftFields ==
  ASSUME Types
  PROVE  /\ GhostLeft \in GhostRecord
         /\ GhostLeft.skipped <=> ghost.skipped \/ Gone > 1
         /\ GhostLeft.mapMoved <=>
              ghost.mapMoved \/ (TakesEffect(Gone) /\ upd.kind = "map" /\ ~upd.told)
         /\ GhostLeft.reanchored <=> ghost.reanchored \/ (Heard /\ Reanchors)
         /\ GhostLeft.unplaced <=> ghost.unplaced /\ ~Heard
         /\ GhostLeft.anchorLost = ghost.anchorLost /\ GhostLeft.mapLost = ghost.mapLost
         /\ GhostLeft.phyLost = ghost.phyLost
<1> DEFINE a == ghost.skipped \/ Gone > 1
           b == ghost.mapMoved \/ (TakesEffect(Gone) /\ upd.kind = "map" /\ ~upd.told)
           c == ghost.reanchored \/ (win.heard # "nothing" /\ Reanchors)
           d == ghost.unplaced /\ win.heard = "nothing"
<1>1. a \in BOOLEAN /\ b \in BOOLEAN /\ c \in BOOLEAN /\ d \in BOOLEAN
  OBVIOUS
<1>2. ghost \in GhostRecord
  BY DEF Types
<1>3. GhostLeft = [ghost EXCEPT !.skipped = a, !.mapMoved = b, !.reanchored = c, !.unplaced = d]
  BY <1>2 DEF GhostLeft, GhostRecord
<1>4. /\ GhostLeft \in GhostRecord /\ GhostLeft.skipped = a /\ GhostLeft.mapMoved = b
      /\ GhostLeft.reanchored = c /\ GhostLeft.unplaced = d
      /\ GhostLeft.anchorLost = ghost.anchorLost /\ GhostLeft.mapLost = ghost.mapLost
      /\ GhostLeft.phyLost = ghost.phyLost
  <2> HIDE DEF a, b, c, d
  <2> QED BY <1>1, <1>2, <1>3 DEF GhostRecord
<1> QED BY <1>4 DEF Heard

Kept == ApplyPendingIfDue(Left)
DueAfter == slot.pending # NoUpdate /\ Pending.instant <= link.n + Gone

LEMMA LeftFields ==
  ASSUME Types, InStep, InstantsNear, win.open
  PROVE  /\ Left \in SlotRecord /\ Near(Left, link.n + Gone) /\ Left.cnt = (link.n + Gone) % W
         /\ Left.csa2 = slot.csa2 /\ Left.interval = slot.interval /\ Left.map = slot.map
         /\ Left.last = slot.last /\ Left.phy = slot.phy /\ Left.encrypted = slot.encrypted
         /\ Left.pending = slot.pending /\ Left.active = Accounted.active
         /\ Left.mts = (IF Heard THEN slot.interval ELSE slot.mts + slot.interval)
                         + (Gone - 1) * slot.interval
         /\ Left.firstWin = IF Heard THEN 0 ELSE slot.firstWin
         /\ Left.trusted = (slot.trusted
                              /\ ~(Heard /\ win.probing /\ win.channel \notin slot.map))
         /\ Left.active => Left.miss < Limit
         /\ IsDue(Left, link.n + Gone) <=> DueAfter
<1> DEFINE a == [Accounted EXCEPT !.cnt = (@ + 1) % W]
<1>1. Accounted \in SlotRecord
  BY AccountedFields
<1>2. Moved(a, Left, link.n + 1, Gone - 1) /\ Near(Left, link.n + Gone)
  BY CloseMoves
<1>3. /\ a.active = Accounted.active /\ a.csa2 = Accounted.csa2 /\ a.mts = Accounted.mts
      /\ a.interval = Accounted.interval /\ a.map = Accounted.map /\ a.last = Accounted.last
      /\ a.phy = Accounted.phy /\ a.firstWin = Accounted.firstWin /\ a.miss = Accounted.miss
      /\ a.encrypted = Accounted.encrypted /\ a.trusted = Accounted.trusted
      /\ a.pending = Accounted.pending
  BY <1>1 DEF SlotRecord
<1> HIDE DEF a
<1>4. Left \in SlotRecord /\ Left.mts = Accounted.mts + (Gone - 1) * slot.interval
  BY <1>2, <1>3, AccountedFields DEF Moved
<1>5. /\ Left.active = Accounted.active /\ Left.csa2 = Accounted.csa2
      /\ Left.interval = Accounted.interval /\ Left.map = Accounted.map
      /\ Left.last = Accounted.last /\ Left.phy = Accounted.phy
      /\ Left.firstWin = Accounted.firstWin /\ Left.miss = Accounted.miss
      /\ Left.encrypted = Accounted.encrypted /\ Left.trusted = Accounted.trusted
      /\ Left.pending = Accounted.pending
  BY <1>2, <1>3 DEF Moved
<1>6. Left.cnt = (link.n + Gone) % W
  BY <1>2 DEF Near
<1>7. IsDue(Left, link.n + Gone) <=> DueAfter
  BY <1>5, AccountedFields DEF IsDue, DueAfter, Pending
<1> QED BY <1>2, <1>4, <1>5, <1>6, <1>7, AccountedFields DEF Heard

LEMMA CloseStep ==
  ASSUME Types, InStep, InstantsNear, ServeClose
  PROVE  /\ win.open /\ win' = Closed /\ upd' = upd
         /\ ~Accounted.active => slot' = Accounted /\ link' = link /\ ghost' = ghost
         /\ Accounted.active =>
              /\ link' = LinkAfter(Gone) /\ ghost' = NoteApplied(Left, GhostLeft)
              /\ Kept \in SlotRecord /\ Distance(Gone) \in Int
              /\ slot' = [Kept EXCEPT !.mts = @ - Distance(Gone)]
              /\ slot' \in SlotRecord
              /\ ~DueAfter => Kept = Left
              /\ DueAfter => AppliedTo(Left, Kept, Pending, (link.n + Gone) - Pending.instant)
<1>1. win.open /\ win' = Closed /\ upd' = upd
  BY DEF ServeClose
<1>2. ~Accounted.active => slot' = Accounted /\ link' = link /\ ghost' = ghost
  BY DEF ServeClose, Accounted
<1>3. ASSUME Accounted.active
      PROVE  /\ link' = LinkAfter(Gone) /\ ghost' = NoteApplied(Left, GhostLeft)
             /\ slot' = [Kept EXCEPT !.mts = @ - Distance(Gone)]
  BY <1>3 DEF ServeClose, Accounted, Left, Gone, GhostLeft, Kept
<1>4. Left \in SlotRecord /\ Near(Left, link.n + Gone) /\ (IsDue(Left, link.n + Gone) <=> DueAfter)
      /\ Left.pending = slot.pending
  BY <1>1, LeftFields
<1>5. link.n + Gone \in Nat /\ Gone \in Nat
  BY <1>1, CloseMoves, ConstantTypes DEF Types, LinkRecord
<1>6. /\ ~DueAfter => Kept = Left
      /\ DueAfter => AppliedTo(Left, Kept, Pending, (link.n + Gone) - Pending.instant)
  <2> DEFINE m == link.n + Gone
  <2>1. m \in Nat /\ Near(Left, m) /\ (IsDue(Left, m) <=> DueAfter)
    BY <1>4, <1>5
  <2> HIDE DEF m
  <2>2. ~DueAfter => Kept = Left
    BY <1>4, <2>1, ApplyIs DEF Kept
  <2>3. DueAfter => AppliedTo(Left, Kept, Left.pending.update, m - Left.pending.update.instant)
    BY <1>4, <2>1, ApplyIs DEF Kept
  <2>4. Left.pending.update = Pending
    BY <1>4 DEF Pending
  <2>5. DueAfter => AppliedTo(Left, Kept, Pending, m - Pending.instant)
    BY <2>3, <2>4, Zenon
  <2>6. DueAfter => AppliedTo(Left, Kept, Pending, (link.n + Gone) - Pending.instant)
    BY <2>5 DEF m
  <2> QED BY <2>2, <2>6
<1>7. Kept \in SlotRecord /\ Distance(Gone) \in Int
  BY <1>4, <1>5, <1>6, DistanceType DEF AppliedTo
<1>8. Accounted.active => slot' \in SlotRecord
  <2>1. Kept.mts - Distance(Gone) \in Int
    BY <1>7, SlotNumbers
  <2> QED BY <1>3, <1>7, <2>1 DEF SlotRecord
<1> QED BY <1>1, <1>2, <1>3, <1>6, <1>7, <1>8


----------------------------------------------------------------------------
(* The slot is where the link is and knows what it was told.               *)

LEMMA NextSteps ==
  ASSUME Types, Next
  PROVE  AnnounceUnheard \/ Hint \/ ServeOpen \/ TeachesNothing \/ TeachesUpdate \/ ServeClose
BY HearStep DEF Next

LEMMA PendingFields ==
  ASSUME Types, slot.pending # NoUpdate
  PROVE  slot.pending \in PendingRecord /\ Pending \in UpdateRecord /\ Pending.instant \in Nat
BY UpdateFields DEF Types, SlotRecord, PendingRecord, Pending

\* What following starts from.
Started(start, k, csa2, map, i, p) ==
  /\ start > 0 => csa2 /\ k = 0
  /\ link = [n |-> start + k, last |-> start + MaxEvents, interval |-> i,
             map |-> map, phy |-> "1M", updates |-> 0]
  /\ upd = NoUpdate
  /\ slot = [active |-> TRUE, csa2 |-> csa2, cnt |-> (start + k) % W,
             mts |-> -p, head |-> Preamble["1M"], interval |-> i, map |-> map, last |-> 0, phy |-> "1M",
             firstWin |-> WinSize + 2 * Guard + Steady, miss |-> 0,
             encrypted |-> FALSE, trusted |-> TRUE, pending |-> NoUpdate,
             factor |-> 1, base |-> 0, cont |-> 0, contLeft |-> 0]
  /\ win = Closed
  /\ ghost = [anchorLost |-> FALSE, mapLost |-> FALSE, phyLost |-> FALSE,
              mapMoved |-> FALSE, reanchored |-> FALSE, unplaced |-> TRUE,
              skipped |-> k > 0]

LEMMA InitMeans ==
  Init => \E start \in Starts, k \in SkipsAtStart, csa2 \in BOOLEAN, map \in Maps,
             i \in ConnIntervals, p \in {0, WinSize} : Started(start, k, csa2, map, i, p)
BY Zenon DEF Init, Started

LEMMA TypesInit == Init => Types /\ InStep /\ InstantsNear /\ KnowsLast /\ GivenInForce
<1> SUFFICES ASSUME Init PROVE Types /\ InStep /\ InstantsNear /\ KnowsLast /\ GivenInForce
  OBVIOUS
<1>0. PICK start \in Starts, k \in SkipsAtStart, csa2 \in BOOLEAN, map \in Maps,
           i \in ConnIntervals, p \in {0, WinSize} : Started(start, k, csa2, map, i, p)
  BY InitMeans
<1>2. start \in Nat /\ k \in Nat /\ MaxEvents \in Nat
  BY InstantsAssumption
<1>3. link \in LinkRecord
  BY <1>0, <1>2, ConstantTypes DEF Started, LinkRecord, Phys
<1>4. slot \in SlotRecord
  <2>1. (start + k) % W \in 0..W-1
    <3>1. start + k \in Int /\ W \in Nat \ {0}
      BY <1>2, ConstantTypes
    <3> QED BY <3>1, Division
  <2>2. -p \in Int /\ WinSize + 2 * Guard + Steady \in Nat /\ Preamble["1M"] \in Nat
    BY ConstantTypes, WindowsAssumption DEF Phys
  <2>3. 0 \in 0..NChannels-1 /\ 0 \in 0..Limit /\ 0 \in 0..W-1 /\ 0 \in 0..Continuation
    BY ConstantTypes
  <2> QED BY <1>0, <2>1, <2>2, <2>3, ConstantTypes DEF Started, SlotRecord, Phys
<1>5. ghost \in GhostRecord
  BY <1>0 DEF Started, GhostRecord
<1>6. Types
  <2>1. slot.miss < Limit
    BY <1>0, ConstantTypes DEF Started
  <2> QED BY <1>0, <1>3, <1>4, <1>5, <2>1 DEF Started, Types, Closed
<1> QED BY <1>0, <1>6
    DEF Started, InStep, InstantsNear, KnowsLast, GivenInForce, InForce, PendingInForce

LEMMA TypesStep ==
  ASSUME Types, InStep, InstantsNear, [Next]_vars
  PROVE  Types'
<1>1. CASE TeachesNothing
  BY <1>1 DEF TeachesNothing, Hears, Types
<1>2. CASE TeachesUpdate
  <2>1. upd' \in UpdateRecord
    BY <1>2, TellFields DEF TeachesUpdate
  <2> QED BY <1>2, <2>1, ForgetFields DEF TeachesUpdate, Hears, Types
<1>3. CASE Hint
  <2>1. upd' \in UpdateRecord
    BY <1>3, HintStep, TellFields
  <2>2. slot'.active = slot.active /\ slot'.miss = slot.miss
    BY <1>3, HintStep DEF Types, SlotRecord
  <2> QED BY <1>3, <2>1, <2>2, HintStep DEF Types
<1>4. CASE AnnounceUnheard
  BY <1>4, AnnounceStep, ForgetFields DEF Types
<1>5. CASE ServeOpen
  <2>1. Opened.active = slot.active /\ Opened.miss = slot.miss /\ Opened \in SlotRecord
    BY <1>5, OpenStep DEF AppliedTo
  <2>2. slot'.active = slot.active /\ slot'.miss = slot.miss
    BY <1>5, <2>1, OpenStep DEF SlotRecord
  <2> QED BY <1>5, <2>2, OpenStep DEF Types
<1>6. CASE ServeClose
  <2>1. win.open /\ win' = Closed /\ upd' = upd
    BY <1>6, CloseStep
  <2>2. CASE ~Accounted.active
    BY <1>6, <2>1, <2>2, CloseStep, AccountedFields DEF Types, Closed
  <2>3. CASE Accounted.active
    <3>1. Left.active /\ Left.miss < Limit /\ Left \in SlotRecord /\ Near(Left, link.n + Gone)
      BY <2>1, <2>3, LeftFields
    <3>2. Kept.miss = Left.miss
      BY <1>6, <2>3, CloseStep DEF AppliedTo
    <3>3. slot'.miss = Kept.miss
      BY <1>6, <2>3, CloseStep DEF SlotRecord
    <3>4. Gone \in Nat /\ link.n + Gone \in Nat
      BY <2>1, CloseMoves, ConstantTypes DEF Types, LinkRecord
    <3>5. link' \in LinkRecord
      BY <1>6, <2>3, <3>4, CloseStep, LinkAfterFields
    <3>6. ghost' \in GhostRecord
      BY <1>6, <2>3, <3>1, <3>4, CloseStep, GhostLeftFields, NoteAppliedFields
    <3>7. slot' \in SlotRecord
      BY <1>6, <2>3, CloseStep
    <3>8. ~win'.open
      BY <2>1 DEF Closed
    <3> QED BY <2>1, <3>1, <3>2, <3>3, <3>5, <3>6, <3>7, <3>8 DEF Types
  <2> QED BY <2>2, <2>3
<1>7. CASE UNCHANGED vars
  BY <1>7 DEF vars, Types
<1> QED BY <1>1, <1>2, <1>3, <1>4, <1>5, <1>6, <1>7, NextSteps

\* Before the instant of what the slot has in hand, the central is busy.
LEMMA BusyBefore ==
  ASSUME Types, KnowsLast, CentralFree
  PROVE  slot.pending # NoUpdate => PendingInForce
<1> SUFFICES ASSUME slot.pending # NoUpdate, ~PendingInForce PROVE FALSE
  OBVIOUS
<1>1. upd # NoUpdate /\ upd = Tell(Pending)
  BY DEF KnowsLast
<1>2. upd.instant = Pending.instant /\ link.n \in Nat /\ Pending.instant \in Nat
  BY <1>1, PendingFields, TellFields DEF Types, LinkRecord
<1> QED BY <1>1, <1>2 DEF CentralFree, InForce, PendingInForce

\* The slot's fields after a step that keeps them.
LEMMA OpenedFields ==
  ASSUME Types, InStep, InstantsNear, ServeOpen
  PROVE  /\ slot'.pending = IF PendingInForce THEN NoUpdate ELSE slot.pending
         /\ slot'.encrypted = slot.encrypted /\ slot'.cnt = slot.cnt /\ slot'.csa2 = slot.csa2
         /\ slot'.active = slot.active /\ slot'.miss = slot.miss
         /\ slot'.map = Opened.map /\ slot'.phy = Opened.phy /\ slot'.trusted = Opened.trusted
         /\ slot'.mts = Opened.mts /\ slot'.interval = Opened.interval
         /\ slot'.firstWin = Opened.firstWin /\ slot'.last = Hopped(Opened).last
         /\ slot'.head = slot.head
         /\ Opened.cnt = slot.cnt /\ Opened.csa2 = slot.csa2 /\ Opened.last = slot.last
         /\ Opened.encrypted = slot.encrypted /\ Opened.miss = slot.miss
<1>1. slot' = [Opened EXCEPT !.last = Hopped(Opened).last] /\ Opened \in SlotRecord
  BY OpenStep
<1>2. /\ slot'.pending = Opened.pending /\ slot'.encrypted = Opened.encrypted
      /\ slot'.cnt = Opened.cnt /\ slot'.csa2 = Opened.csa2 /\ slot'.active = Opened.active
      /\ slot'.miss = Opened.miss
      /\ slot'.map = Opened.map /\ slot'.phy = Opened.phy /\ slot'.trusted = Opened.trusted
      /\ slot'.mts = Opened.mts /\ slot'.interval = Opened.interval
      /\ slot'.firstWin = Opened.firstWin /\ slot'.last = Hopped(Opened).last
      /\ slot'.head = Opened.head
  BY <1>1 DEF SlotRecord
<1>3. CASE PendingInForce
  BY <1>2, <1>3, OpenStep DEF AppliedTo
<1>4. CASE ~PendingInForce
  BY <1>2, <1>4, OpenStep
<1> QED BY <1>3, <1>4

LEMMA ClosedFields ==
  ASSUME Types, InStep, InstantsNear, ServeClose, Accounted.active
  PROVE  /\ slot'.pending = IF DueAfter THEN NoUpdate ELSE slot.pending
         /\ slot'.encrypted = slot.encrypted /\ slot'.cnt = (link.n + Gone) % W
         /\ slot'.csa2 = slot.csa2 /\ slot'.active /\ slot'.last = slot.last
         /\ slot'.map = Kept.map /\ slot'.phy = Kept.phy /\ slot'.trusted = Kept.trusted
         /\ slot'.mts = Kept.mts - Distance(Gone) /\ slot'.interval = Kept.interval
         /\ slot'.firstWin = Kept.firstWin
         /\ Gone \in Nat \ {0} /\ link.n \in Nat /\ link'.n = link.n + Gone
<1>1. win.open /\ slot' = [Kept EXCEPT !.mts = @ - Distance(Gone)] /\ Kept \in SlotRecord
  BY CloseStep
<1>2. /\ slot'.pending = Kept.pending /\ slot'.encrypted = Kept.encrypted
      /\ slot'.cnt = Kept.cnt /\ slot'.csa2 = Kept.csa2 /\ slot'.active = Kept.active
      /\ slot'.last = Kept.last
      /\ slot'.map = Kept.map /\ slot'.phy = Kept.phy /\ slot'.trusted = Kept.trusted
      /\ slot'.mts = Kept.mts - Distance(Gone) /\ slot'.interval = Kept.interval
      /\ slot'.firstWin = Kept.firstWin
  BY <1>1 DEF SlotRecord
<1>3. /\ Left.pending = slot.pending /\ Left.encrypted = slot.encrypted
      /\ Left.cnt = (link.n + Gone) % W /\ Left.csa2 = slot.csa2 /\ Left.active
      /\ Left.last = slot.last
  BY <1>1, LeftFields
<1>4. Gone \in Nat \ {0} /\ link.n \in Nat /\ link'.n = link.n + Gone
  <2>1. Gone \in Nat \ {0}
    BY <1>1, CloseMoves, ConstantTypes
  <2> QED BY <2>1, CloseStep, LinkAfterFields DEF Types, LinkRecord
<1>5. CASE DueAfter
  BY <1>2, <1>3, <1>4, <1>5, CloseStep DEF AppliedTo
<1>6. CASE ~DueAfter
  BY <1>2, <1>3, <1>4, <1>6, CloseStep
<1> QED BY <1>5, <1>6


LEMMA InStepStep ==
  ASSUME Types, InStep, InstantsNear, [Next]_vars
  PROVE  InStep'
<1>1. CASE TeachesNothing
  BY <1>1 DEF TeachesNothing, Hears, InStep
<1>2. CASE TeachesUpdate
  BY <1>2 DEF TeachesUpdate, Hears, InStep, Types, LinkRecord
<1>3. CASE Hint
  BY <1>3, HintStep DEF InStep, Types, SlotRecord
<1>4. CASE AnnounceUnheard
  BY <1>4, AnnounceStep DEF InStep, Types, LinkRecord
<1>5. CASE ServeOpen
  BY <1>5, OpenStep, OpenedFields DEF InStep
<1>6. CASE ServeClose
  <2>1. CASE Accounted.active
    BY <1>6, <2>1, ClosedFields DEF InStep
  <2>2. CASE ~Accounted.active
    BY <1>6, <2>2, CloseStep, AccountedFields DEF InStep
  <2> QED BY <2>1, <2>2
<1>7. CASE UNCHANGED vars
  BY <1>7 DEF vars, InStep
<1> QED BY <1>1, <1>2, <1>3, <1>4, <1>5, <1>6, <1>7, NextSteps

LEMMA InstantsNearStep ==
  ASSUME Types, InStep, InstantsNear, [Next]_vars
  PROVE  InstantsNear'
<1> USE DEF InstantsNear, Pending
<1>0. link.n \in Nat /\ MaxAhead \in Nat /\ MaxLate \in Nat
  BY Horizon DEF Types, LinkRecord
<1>1. CASE TeachesNothing
  BY <1>1 DEF TeachesNothing
<1>2. CASE TeachesUpdate
  <2>1. PICK u \in UpdateRecord :
          /\ u.instant > link.n /\ u.instant <= link.n + MaxAhead
          /\ upd' = Tell(u) /\ slot'.pending = InHand(u, FALSE)
    BY <1>2 DEF TeachesUpdate
  <2>2. link'.n = link.n
    BY <1>2 DEF TeachesUpdate, Types, LinkRecord
  <2>3. link.n <= u.instant + MaxLate
    BY <1>0, <2>1, UpdateFields
  <2>4. Tell(u).instant = u.instant
    BY TellFields
  <2>5. /\ InHand(u, FALSE).update = u /\ InHand(u, FALSE).kind = u.kind
        /\ InHand(u, FALSE).instant = u.instant % W
    BY InHandType
  <2> QED BY <2>1, <2>2, <2>3, <2>4, <2>5
<1>3. CASE Hint
  <2>1. upd \in UpdateRecord /\ link.n - upd.instant <= MaxLate /\ upd' = Tell(upd)
        /\ slot'.pending = InHand(upd, TRUE) /\ link' = link
    BY <1>3, HintStep
  <2>2. upd.instant \in Nat /\ upd # NoUpdate
    BY <2>1, UpdateFields
  <2>3. link.n <= upd.instant + MaxLate
    BY <1>0, <2>1, <2>2
  <2>4. Tell(upd).instant = upd.instant
    BY <2>1, TellFields
  <2>5. /\ InHand(upd, TRUE).update = upd /\ InHand(upd, TRUE).kind = upd.kind
        /\ InHand(upd, TRUE).instant = upd.instant % W
    BY <2>1, InHandType
  <2> QED BY <2>1, <2>2, <2>3, <2>4, <2>5
<1>4. CASE AnnounceUnheard
  BY <1>4, AnnounceStep DEF Types, LinkRecord
<1>5. CASE ServeOpen
  BY <1>5, OpenStep, OpenedFields
<1>6. CASE ServeClose
  <2>1. CASE ~Accounted.active
    BY <1>6, <2>1, CloseStep, AccountedFields
  <2>2. CASE Accounted.active
    <3>1. Gone \in Nat /\ link'.n = link.n + Gone /\ upd' = upd
          /\ slot'.pending = IF DueAfter THEN NoUpdate ELSE slot.pending
      BY <1>6, <2>2, CloseStep, ClosedFields
    <3>2. upd # NoUpdate => upd.instant \in Nat
      BY UpdateFields DEF Types
    <3>3. upd' # NoUpdate => upd'.instant <= link'.n + MaxAhead
      BY <1>0, <3>1, <3>2
    <3>4. slot.pending # NoUpdate /\ ~DueAfter =>
            Pending.instant <= link'.n + MaxAhead /\ link'.n <= Pending.instant + MaxLate
      BY <1>0, <3>1, PendingFields DEF DueAfter
    <3> QED BY <3>1, <3>3, <3>4
  <2> QED BY <2>1, <2>2
<1>7. CASE UNCHANGED vars
  BY <1>7 DEF vars
<1> QED BY <1>1, <1>2, <1>3, <1>4, <1>5, <1>6, <1>7, NextSteps

LEMMA KnowsLastStep ==
  ASSUME Types, InStep, InstantsNear, KnowsLast, [Next]_vars
  PROVE  KnowsLast'
<1> USE DEF KnowsLast, Pending, PendingInForce, InForce
<1>0. link.n \in Nat
  BY DEF Types, LinkRecord
<1>1. CASE TeachesNothing
  BY <1>1 DEF TeachesNothing, Hears
<1>2. CASE TeachesUpdate
  <2>1. PICK u \in UpdateRecord :
          /\ u.instant > link.n /\ u.instant <= link.n + MaxAhead
          /\ upd' = Tell(u) /\ slot'.pending = InHand(u, FALSE)
    BY <1>2 DEF TeachesUpdate
  <2>2. link'.n = link.n
    BY <1>2 DEF TeachesUpdate, Types, LinkRecord
  <2>3. ~(u.instant <= link.n)
    BY <1>0, <2>1, UpdateFields
  <2>4. slot'.pending # NoUpdate /\ slot'.pending.update = u
    BY <2>1, InHandType
  <2>5. upd' # NoUpdate /\ upd'.instant = u.instant
    BY <2>1, TellFields, UpdateFields
  <2> QED BY <2>1, <2>2, <2>3, <2>4, <2>5
<1>3. CASE Hint
  <2>1. upd \in UpdateRecord /\ slot.encrypted /\ upd' = Tell(upd)
        /\ slot'.pending = InHand(upd, TRUE) /\ link' = link
    BY <1>3, HintStep
  <2>2. slot'.encrypted = slot.encrypted
    BY <1>3, HintStep DEF Types, SlotRecord
  <2>3. slot'.pending # NoUpdate /\ slot'.pending.update = upd
    BY <2>1, InHandType
  <2>4. upd' # NoUpdate /\ upd'.instant = upd.instant
    BY <2>1, TellFields, UpdateFields
  <2> QED BY <2>1, <2>2, <2>3, <2>4
<1>4. CASE AnnounceUnheard
  <2>1. slot.pending # NoUpdate => PendingInForce
    BY <1>4, AnnounceStep, BusyBefore
  <2>2. upd' \in UpdateRecord /\ ~upd'.told /\ upd'.instant > link.n /\ slot' = slot
    BY <1>4, AnnounceStep
  <2>3. link'.n = link.n
    BY <1>4, AnnounceStep DEF Types, LinkRecord
  <2>4. upd' # NoUpdate /\ ~(upd'.instant <= link.n)
    BY <1>0, <2>2, UpdateFields
  <2> QED BY <2>1, <2>2, <2>3, <2>4
<1>5. CASE ServeOpen
  BY <1>5, OpenStep, OpenedFields
<1>6. CASE ServeClose
  <2>1. CASE ~Accounted.active
    BY <1>6, <2>1, CloseStep, AccountedFields
  <2>2. CASE Accounted.active
    <3>1. Gone \in Nat \ {0} /\ link'.n = link.n + Gone /\ upd' = upd
          /\ slot'.pending = IF DueAfter THEN NoUpdate ELSE slot.pending
      BY <1>6, <2>2, CloseStep, ClosedFields
    <3>2. upd # NoUpdate => upd.instant \in Nat
      BY UpdateFields DEF Types
    <3>3. slot.pending # NoUpdate => Pending.instant \in Nat /\ Tell(Pending).instant = Pending.instant
      BY PendingFields, TellFields
    <3>4. slot.pending # NoUpdate /\ ~DueAfter => ~(Pending.instant <= link.n)
      BY <1>0, <3>1, <3>3 DEF DueAfter
    <3>5. upd # NoUpdate /\ ~(upd.instant <= link'.n) => ~(upd.instant <= link.n)
      BY <1>0, <3>1, <3>2
    <3>6. slot'.pending # NoUpdate => ~PendingInForce'
      BY <3>1 DEF DueAfter
    <3>7. slot'.pending # NoUpdate => upd' # NoUpdate /\ upd' = Tell(Pending')
      BY <3>1, <3>4
    <3>8. upd' # NoUpdate /\ ~(upd'.instant <= link'.n) /\ upd'.told => slot'.pending # NoUpdate
      <4> HAVE upd' # NoUpdate /\ ~(upd'.instant <= link'.n) /\ upd'.told
      <4>1. slot.pending # NoUpdate /\ ~PendingInForce /\ upd = Tell(Pending)
        BY <3>1, <3>5
      <4>2. upd.instant = Pending.instant
        BY <3>3, <4>1
      <4>3. ~DueAfter
        BY <3>1, <4>2 DEF DueAfter
      <4> QED BY <3>1, <4>1, <4>3
    <3> QED BY <3>6, <3>7, <3>8
  <2> QED BY <2>1, <2>2
<1>7. CASE UNCHANGED vars
  BY <1>7 DEF vars
<1> QED BY <1>1, <1>2, <1>3, <1>4, <1>5, <1>6, <1>7, NextSteps

\* What the link was given stays given.
LEMMA GivenStep ==
  ASSUME Types, InStep, InstantsNear, KnowsLast, GivenInForce, [Next]_vars
  PROVE  GivenInForce'
<1> USE DEF GivenInForce, Given, Pending, PendingInForce, InForce
<1>0. link.n \in Nat
  BY DEF Types, LinkRecord
<1>1. CASE TeachesNothing
  BY <1>1 DEF TeachesNothing
<1>2. CASE TeachesUpdate
  <2>1. PICK u \in UpdateRecord :
          /\ u.instant > link.n /\ u.instant <= link.n + MaxAhead
          /\ upd' = Tell(u) /\ slot'.pending = InHand(u, FALSE)
    BY <1>2 DEF TeachesUpdate
  <2>2. link'.n = link.n
    BY <1>2 DEF TeachesUpdate, Types, LinkRecord
  <2>3. ~(u.instant <= link.n)
    BY <1>0, <2>1, UpdateFields
  <2> QED BY <2>1, <2>2, <2>3, InHandType, TellFields
<1>3. CASE Hint
  <2>1. upd \in UpdateRecord /\ upd' = Tell(upd) /\ slot'.pending = InHand(upd, TRUE) /\ link' = link
    BY <1>3, HintStep
  <2>2. slot'.pending.update = upd
    BY <2>1, InHandType
  <2>3. /\ Tell(upd).kind = upd.kind /\ Tell(upd).instant = upd.instant
        /\ upd.kind = "map" => Tell(upd).map = upd.map
        /\ upd.kind = "phy" => Tell(upd).phy = upd.phy
        /\ upd.kind \in {"conn", "rate"} => Tell(upd).interval = upd.interval
        /\ upd # NoUpdate
    BY <2>1, TellFields, UpdateFields
  <2>4. InForce(upd, link.n) => Given(upd)
    OBVIOUS
  <2>5. /\ upd'.kind = upd.kind /\ upd'.instant = upd.instant
        /\ upd.kind = "map" => upd'.map = upd.map
        /\ upd.kind = "phy" => upd'.phy = upd.phy
        /\ upd.kind \in {"conn", "rate"} => upd'.interval = upd.interval
    BY <2>1, <2>3
  <2> QED BY <2>1, <2>2, <2>3, <2>4, <2>5
<1>4. CASE AnnounceUnheard
  <2>1. upd' \in UpdateRecord /\ upd'.instant > link.n /\ slot' = slot
    BY <1>4, AnnounceStep
  <2>2. link'.n = link.n /\ link'.map = link.map /\ link'.phy = link.phy /\ link'.interval = link.interval
    BY <1>4, AnnounceStep DEF Types, LinkRecord
  <2>3. ~(upd'.instant <= link.n)
    BY <1>0, <2>1, UpdateFields
  <2> QED BY <2>1, <2>2, <2>3
<1>5. CASE ServeOpen
  BY <1>5, OpenStep, OpenedFields
<1>6. CASE ServeClose
  <2>1. CASE ~Accounted.active
    BY <1>6, <2>1, CloseStep, AccountedFields
  <2>2. CASE Accounted.active
    <3>1. Gone \in Nat /\ link'.n = link.n + Gone /\ upd' = upd /\ link' = LinkAfter(Gone)
          /\ slot'.pending = IF DueAfter THEN NoUpdate ELSE slot.pending
      BY <1>6, <2>2, CloseStep, ClosedFields
    <3>2. ~PendingInForce'
      BY <3>1 DEF DueAfter
    <3>3. TakesEffect(Gone) <=> InForce(upd, link'.n) /\ ~InForce(upd, link.n)
      BY <3>1 DEF TakesEffect
    <3>4. upd # NoUpdate => upd.kind \in Kinds
      BY UpdateFields DEF Types
    <3> QED BY <3>1, <3>2, <3>3, <3>4, LinkAfterFields DEF Kinds
  <2> QED BY <2>1, <2>2
<1>7. CASE UNCHANGED vars
  BY <1>7 DEF vars
<1> QED BY <1>1, <1>2, <1>3, <1>4, <1>5, <1>6, <1>7, NextSteps

LEMMA StaysInformedStep ==
  ASSUME Types, InStep, InstantsNear, KnowsLast, StaysInformed, [Next]_vars
  PROVE  StaysInformed'
<1> USE DEF StaysInformed, UntoldInForce, Pending, PendingInForce, InForce
<1>0. link.n \in Nat
  BY DEF Types, LinkRecord
<1>1. CASE TeachesNothing
  BY <1>1 DEF TeachesNothing, Hears
<1>2. CASE TeachesUpdate
  <2>1. PICK u \in UpdateRecord :
          /\ u.instant > link.n /\ u.instant <= link.n + MaxAhead
          /\ upd' = Tell(u) /\ slot'.pending = InHand(u, FALSE)
    BY <1>2 DEF TeachesUpdate
  <2>2. link'.n = link.n
    BY <1>2 DEF TeachesUpdate, Types, LinkRecord
  <2>3. ~(u.instant <= link.n)
    BY <1>0, <2>1, UpdateFields
  <2> QED BY <2>1, <2>2, <2>3, InHandType, TellFields
<1>3. CASE Hint
  <2>1. upd \in UpdateRecord /\ ~upd.told /\ upd' = Tell(upd)
        /\ slot'.pending = InHand(upd, TRUE) /\ link' = link /\ win' = win
    BY <1>3, HintStep
  <2>2. slot'.pending.update = upd /\ upd'.told /\ upd'.instant = upd.instant /\ upd # NoUpdate
    <3>1. InHand(upd, TRUE).update = upd
      BY <2>1, InHandType
    <3>2. Tell(upd).told /\ Tell(upd).instant = upd.instant /\ upd # NoUpdate
      BY <2>1, TellFields, UpdateFields
    <3> QED BY <2>1, <3>1, <3>2
  <2> QED BY <2>1, <2>2
<1>4. CASE AnnounceUnheard
  <2>1. upd' \in UpdateRecord /\ upd'.instant > link.n /\ slot' = slot /\ win' = win
    BY <1>4, AnnounceStep
  <2>2. link'.n = link.n
    BY <1>4, AnnounceStep DEF Types, LinkRecord
  <2>3. ~(upd'.instant <= link.n)
    BY <1>0, <2>1, UpdateFields
  <2> QED BY <2>1, <2>2, <2>3
<1>5. CASE ServeOpen
  <2>1. win'.informed = ~UntoldInForce /\ link' = link /\ upd' = upd
    BY <1>5, OpenStep
  <2> QED BY <1>5, <2>1, OpenedFields
<1>6. CASE ServeClose
  <2>1. ~win'.open
    BY <1>6, CloseStep DEF Closed
  <2> QED BY <2>1
<1>7. CASE UNCHANGED vars
  BY <1>7 DEF vars
<1> QED BY <1>1, <1>2, <1>3, <1>4, <1>5, <1>6, <1>7, NextSteps


----------------------------------------------------------------------------
(* PHY and channel map.                                                    *)

Follows == Types /\ InStep /\ InstantsNear /\ KnowsLast /\ GivenInForce

\* An update the slot was not told of leaves nothing else in hand, and the
\* last one in force is the one in hand.
LEMMA OneInHand ==
  ASSUME Types, KnowsLast
  PROVE  /\ UntoldInForce => slot.pending = NoUpdate
         /\ PendingInForce /\ InForce(upd, link.n) => upd = Tell(Pending) /\ upd.told
<1>1. slot.pending # NoUpdate => Tell(Pending).told
  BY PendingFields, TellFields
<1> QED BY <1>1 DEF KnowsLast, UntoldInForce, PendingInForce

\* Across a window: what takes effect and was told is applied, and what is
\* applied was in force or takes effect.
LEMMA CloseApplies ==
  ASSUME Follows, ServeClose, Accounted.active
  PROVE  /\ TakesEffect(Gone) /\ upd.told => DueAfter /\ ~PendingInForce
         /\ DueAfter /\ ~PendingInForce => TakesEffect(Gone) /\ upd = Tell(Pending) /\ upd.told
         /\ PendingInForce => DueAfter
         /\ ~PendingInForce'
         /\ UntoldInForce' <=> UntoldInForce \/ (TakesEffect(Gone) /\ ~upd.told)
<1> USE DEF Follows, KnowsLast, PendingInForce, Pending, InForce
<1>1. /\ Gone \in Nat \ {0} /\ link.n \in Nat /\ link'.n = link.n + Gone
      /\ slot'.pending = IF DueAfter THEN NoUpdate ELSE slot.pending
      /\ upd' = upd
  BY ClosedFields, CloseStep
<1>2. slot.pending # NoUpdate =>
        Pending.instant \in Nat /\ Tell(Pending).instant = Pending.instant /\ Tell(Pending).told
  BY PendingFields, TellFields
<1>3. upd # NoUpdate => upd.instant \in Nat
  BY UpdateFields DEF Types
<1>4. PendingInForce => DueAfter
  BY <1>1, <1>2 DEF DueAfter
<1>5. ~PendingInForce'
  BY <1>1 DEF DueAfter
<1>6. UntoldInForce' <=> UntoldInForce \/ (TakesEffect(Gone) /\ ~upd.told)
  BY <1>1, <1>3 DEF UntoldInForce, TakesEffect
<1>7. TakesEffect(Gone) /\ upd.told => DueAfter /\ ~PendingInForce
  BY <1>2 DEF TakesEffect, DueAfter
<1>8. DueAfter /\ ~PendingInForce => TakesEffect(Gone) /\ upd = Tell(Pending) /\ upd.told
  BY <1>2 DEF TakesEffect, DueAfter
<1> QED BY <1>4, <1>5, <1>6, <1>7, <1>8

LEMMA SameRelocking ==
  ASSUME NEW s, NEW r, s.miss = r.miss, s.csa2 = r.csa2, s.encrypted = r.encrypted,
         s.trusted = r.trusted
  PROVE  /\ Relocking(s) <=> Relocking(r)
         /\ UnmappedMode(s) <=> UnmappedMode(r)
BY DEF Relocking, RelockThreshold, UnmappedMode

LEMMA PhyStep ==
  ASSUME Follows, PhyInv, [Next]_vars
  PROVE  PhyInv'
<1> USE DEF Follows, PhyInv
<1>0. slot \in SlotRecord /\ ghost \in GhostRecord /\ link.n \in Nat
  BY DEF Types, LinkRecord
<1>1. CASE TeachesNothing
  <2>1. win.open /\ win'.phy = win.phy /\ slot'.phy = slot.phy
        /\ slot'.miss = slot.miss /\ slot'.csa2 = slot.csa2 /\ slot'.trusted = slot.trusted
        /\ (slot.encrypted => slot'.encrypted) /\ slot'.pending = slot.pending
        /\ link' = link /\ upd' = upd /\ ghost' = ghost
        /\ slot' \in SlotRecord
    BY <1>1 DEF TeachesNothing, Hears
  <2>2. slot.encrypted => slot'.encrypted = slot.encrypted
    BY <1>0, <2>1 DEF SlotRecord
  <2>3. slot.encrypted => (Relocking(slot)' <=> Relocking(slot))
    BY <2>1, <2>2, SameRelocking
  <2> QED BY <2>1, <2>3 DEF PendingInForce, Pending, UntoldInForce, InForce
<1>2. CASE TeachesUpdate
  <2>1. win.open /\ win'.phy = win.phy /\ slot'.phy = slot.phy
        /\ slot'.miss = slot.miss /\ slot'.csa2 = slot.csa2 /\ slot'.trusted = slot.trusted
        /\ ~slot.encrypted /\ ~slot'.encrypted /\ ghost' = Forget(ghost)
    BY <1>2 DEF TeachesUpdate, Hears
  <2>2. ~PendingInForce
    BY <2>1 DEF KnowsLast
  <2>3. link'.phy = link.phy
    BY <1>2 DEF TeachesUpdate, Types, LinkRecord
  <2>4. ghost'.phyLost <=> ghost.phyLost \/ (upd # NoUpdate /\ ~upd.told /\ upd.kind = "phy")
    BY <2>1, ForgetFields
  <2> QED BY <2>1, <2>2, <2>3, <2>4 DEF UntoldInForce, InForce
<1>3. CASE Hint
  <2>1. /\ upd \in UpdateRecord /\ ~upd.told /\ upd' = Tell(upd)
        /\ slot'.pending = InHand(upd, TRUE) /\ link' = link /\ win' = win
        /\ slot' = [slot EXCEPT !.pending = InHand(upd, TRUE)]
        /\ ghost' = IF slot.pending = NoUpdate THEN ghost ELSE Miss(ghost, Pending)
    BY <1>3, HintStep
  <2>2. slot'.pending.update = upd /\ slot'.pending # NoUpdate /\ upd # NoUpdate
    BY <2>1, InHandType, UpdateFields
  <2>3. slot'.phy = slot.phy /\ slot'.miss = slot.miss /\ slot'.csa2 = slot.csa2
        /\ slot'.trusted = slot.trusted /\ slot'.encrypted = slot.encrypted
    BY <1>0, <2>1 DEF SlotRecord
  <2>4. Relocking(slot)' <=> Relocking(slot)
    BY <2>3, SameRelocking
  <2>5. ghost'.phyLost <=> ghost.phyLost \/ (slot.pending # NoUpdate /\ Pending.kind = "phy")
    BY <1>0, <2>1, MissFields
  <2> QED BY <2>1, <2>2, <2>3, <2>4, <2>5 DEF PendingInForce, Pending, UntoldInForce, InForce
<1>4. CASE AnnounceUnheard
  <2>1. slot' = slot /\ win' = win /\ ghost' = Forget(ghost)
    BY <1>4, AnnounceStep
  <2>2. link'.phy = link.phy /\ link'.n = link.n
    BY <1>4, AnnounceStep DEF Types, LinkRecord
  <2>3. ghost'.phyLost <=> ghost.phyLost \/ (upd # NoUpdate /\ ~upd.told /\ upd.kind = "phy")
    BY <2>1, ForgetFields
  <2>4. Relocking(slot)' <=> Relocking(slot)
    BY <2>1, SameRelocking
  <2> QED BY <2>1, <2>2, <2>3, <2>4 DEF PendingInForce, Pending, UntoldInForce, InForce
<1>5. CASE ServeOpen
  <2>1. link' = link /\ upd' = upd /\ slot'.phy = Opened.phy /\ ghost' = NoteApplied(slot, ghost)
        /\ slot'.pending = (IF PendingInForce THEN NoUpdate ELSE slot.pending)
        /\ win'.phy = ListenPhy(Opened)
    BY <1>5, OpenStep, OpenedFields
  <2>2. Near(slot, link.n) /\ (IsDue(slot, link.n) <=> PendingInForce)
    BY NearNow
  <2>3. ASSUME PendingInForce PROVE ghost'.phyLost \/ slot'.phy = link'.phy \/ (UntoldInForce /\ upd.kind = "phy")'
    <3>1. Opened.phy = IF Pending.kind = "phy" THEN Pending.phy ELSE slot.phy
      BY <1>5, <2>3, OpenStep DEF AppliedTo
    <3>2. ghost'.phyLost <=> ghost.phyLost /\ Pending.kind # "phy"
      BY <1>0, <2>1, <2>2, <2>3, NoteAppliedFields DEF Pending
    <3>3. Pending.kind = "phy" => link.phy = Pending.phy
      BY <2>3 DEF GivenInForce, Given
    <3> QED BY <2>1, <2>3, <3>1, <3>2, <3>3 DEF UntoldInForce, InForce
  <2>4. ASSUME ~PendingInForce PROVE ghost'.phyLost \/ slot'.phy = link'.phy \/ (UntoldInForce /\ upd.kind = "phy")'
    <3>1. Opened = slot
      BY <1>5, <2>4, OpenStep
    <3>2. ghost' = ghost
      BY <1>0, <2>1, <2>2, <2>4, NoteAppliedFields
    <3> QED BY <2>1, <2>4, <3>1, <3>2 DEF UntoldInForce, InForce
  <2>5. Relocking(slot)' <=> Relocking(Opened)
    BY <1>5, OpenedFields, SameRelocking
  <2>6. slot'.encrypted = Opened.encrypted
    BY <1>5, OpenedFields
  <2>7. ~(slot'.encrypted /\ Relocking(slot)') => win'.phy = slot'.phy
    BY <2>1, <2>5, <2>6 DEF ListenPhy
  <2> QED BY <2>3, <2>4, <2>7
<1>6. CASE ServeClose
  <2>1. ~win'.open /\ win.open /\ upd' = upd
    BY <1>6, CloseStep DEF Closed
  <2>2. CASE ~Accounted.active
    BY <1>6, <2>1, <2>2, CloseStep, AccountedFields
       DEF PendingInForce, Pending, UntoldInForce, InForce
  <2>3. CASE Accounted.active
    <3>1. /\ TakesEffect(Gone) /\ upd.told => DueAfter /\ ~PendingInForce
          /\ DueAfter /\ ~PendingInForce => TakesEffect(Gone) /\ upd = Tell(Pending) /\ upd.told
          /\ PendingInForce => DueAfter
          /\ UntoldInForce' <=> UntoldInForce \/ (TakesEffect(Gone) /\ ~upd.told)
      BY <1>6, <2>3, CloseApplies
    <3>2. link'.phy = IF TakesEffect(Gone) /\ upd.kind = "phy" THEN upd.phy ELSE link.phy
      BY <1>6, <2>3, CloseStep, ClosedFields, LinkAfterFields
    <3>3. Left.phy = slot.phy /\ Left.pending = slot.pending
          /\ Left \in SlotRecord /\ Near(Left, link.n + Gone)
          /\ (IsDue(Left, link.n + Gone) <=> DueAfter)
      BY <2>1, LeftFields
    <3>4. GhostLeft \in GhostRecord /\ GhostLeft.phyLost = ghost.phyLost
          /\ ghost' = NoteApplied(Left, GhostLeft) /\ slot'.phy = Kept.phy
          /\ link.n + Gone \in Nat
      BY <1>6, <2>3, CloseStep, ClosedFields, GhostLeftFields
    <3>5. CASE ~DueAfter
      <4>1. Kept = Left /\ ghost' = GhostLeft
        BY <1>6, <2>3, <3>3, <3>4, <3>5, CloseStep, NoteAppliedFields
      <4> QED BY <2>1, <3>1, <3>2, <3>3, <3>4, <3>5, <4>1 DEF UntoldInForce
    <3>6. CASE DueAfter
      <4>1. Kept.phy = IF Pending.kind = "phy" THEN Pending.phy ELSE slot.phy
        BY <1>6, <2>3, <3>3, <3>6, CloseStep DEF AppliedTo
      <4>2. ghost'.phyLost <=> ghost.phyLost /\ Pending.kind # "phy"
        BY <3>3, <3>4, <3>6, NoteAppliedFields DEF Pending
      <4>3. Pending \in UpdateRecord
        BY <3>6, PendingFields DEF DueAfter
      <4>4. CASE PendingInForce
        <5>1. Pending.kind = "phy" => link.phy = Pending.phy
          BY <4>4 DEF GivenInForce, Given
        <5> QED BY <2>1, <3>1, <3>2, <3>4, <4>1, <4>2, <4>4, <5>1 DEF UntoldInForce
      <4>5. CASE ~PendingInForce
        <5>1. TakesEffect(Gone) /\ upd = Tell(Pending) /\ upd.told
          BY <3>1, <3>6, <4>5
        <5>2. upd.kind = Pending.kind /\ (upd.kind = "phy" => upd.phy = Pending.phy)
          BY <4>3, <5>1, TellFields
        <5> QED BY <2>1, <3>1, <3>2, <3>4, <4>1, <4>2, <5>1, <5>2 DEF UntoldInForce
      <4> QED BY <4>4, <4>5
    <3> QED BY <3>5, <3>6
  <2> QED BY <2>2, <2>3
<1>7. CASE UNCHANGED vars
  <2>1. Relocking(slot)' <=> Relocking(slot)
    BY <1>7, SameRelocking DEF vars
  <2> QED BY <1>7, <2>1 DEF vars, PendingInForce, Pending, UntoldInForce, InForce
<1> QED BY <1>1, <1>2, <1>3, <1>4, <1>5, <1>6, <1>7, NextSteps


LEMMA MapStep ==
  ASSUME Follows, MapInv, [Next]_vars
  PROVE  MapInv'
<1> USE DEF Follows, MapInv
<1>0. slot \in SlotRecord /\ ghost \in GhostRecord /\ link.n \in Nat
  BY DEF Types, LinkRecord
<1>1. CASE TeachesNothing
  <2>1. slot'.map = slot.map /\ slot'.pending = slot.pending
        /\ link' = link /\ upd' = upd /\ ghost' = ghost
    BY <1>1 DEF TeachesNothing, Hears
  <2> QED BY <2>1 DEF PendingInForce, Pending, UntoldInForce, InForce
<1>2. CASE TeachesUpdate
  <2>1. slot'.map = slot.map /\ ~slot.encrypted /\ ghost' = Forget(ghost)
    BY <1>2 DEF TeachesUpdate, Hears
  <2>2. ~PendingInForce
    BY <2>1 DEF KnowsLast
  <2>3. link'.map = link.map
    BY <1>2 DEF TeachesUpdate, Types, LinkRecord
  <2>4. /\ ghost'.mapLost <=> ghost.mapLost \/ (upd # NoUpdate /\ ~upd.told /\ upd.kind = "map")
        /\ ghost'.mapMoved = ghost.mapMoved
    BY <2>1, ForgetFields
  <2> QED BY <2>1, <2>2, <2>3, <2>4 DEF UntoldInForce, InForce
<1>3. CASE Hint
  <2>1. /\ upd \in UpdateRecord /\ ~upd.told /\ upd' = Tell(upd)
        /\ slot'.pending = InHand(upd, TRUE) /\ link' = link
        /\ slot' = [slot EXCEPT !.pending = InHand(upd, TRUE)]
        /\ ghost' = IF slot.pending = NoUpdate THEN ghost ELSE Miss(ghost, Pending)
    BY <1>3, HintStep
  <2>2. slot'.pending.update = upd /\ slot'.pending # NoUpdate /\ upd # NoUpdate
    BY <2>1, InHandType, UpdateFields
  <2>3. slot'.map = slot.map
    BY <1>0, <2>1 DEF SlotRecord
  <2>4. /\ ghost'.mapLost <=> ghost.mapLost \/ (slot.pending # NoUpdate /\ Pending.kind = "map")
        /\ ghost'.mapMoved = ghost.mapMoved
    BY <1>0, <2>1, MissFields
  <2> QED BY <2>1, <2>2, <2>3, <2>4 DEF PendingInForce, Pending, UntoldInForce, InForce
<1>4. CASE AnnounceUnheard
  <2>1. slot' = slot /\ ghost' = Forget(ghost)
    BY <1>4, AnnounceStep
  <2>2. link'.map = link.map /\ link'.n = link.n
    BY <1>4, AnnounceStep DEF Types, LinkRecord
  <2>3. /\ ghost'.mapLost <=> ghost.mapLost \/ (upd # NoUpdate /\ ~upd.told /\ upd.kind = "map")
        /\ ghost'.mapMoved = ghost.mapMoved
    BY <2>1, ForgetFields
  <2> QED BY <2>1, <2>2, <2>3 DEF PendingInForce, Pending, UntoldInForce, InForce
<1>5. CASE ServeOpen
  <2>1. link' = link /\ upd' = upd /\ slot'.map = Opened.map /\ ghost' = NoteApplied(slot, ghost)
        /\ slot'.pending = (IF PendingInForce THEN NoUpdate ELSE slot.pending)
    BY <1>5, OpenStep, OpenedFields
  <2>2. Near(slot, link.n) /\ (IsDue(slot, link.n) <=> PendingInForce)
    BY NearNow
  <2>3. CASE PendingInForce
    <3>1. Opened.map = IF Pending.kind = "map" THEN Pending.map ELSE slot.map
      BY <1>5, <2>3, OpenStep DEF AppliedTo
    <3>2. /\ ghost'.mapLost <=> ghost.mapLost /\ Pending.kind # "map"
          /\ ghost'.mapMoved = ghost.mapMoved
      BY <1>0, <2>1, <2>2, <2>3, NoteAppliedFields DEF Pending
    <3>3. Pending.kind = "map" => link.map = Pending.map
      BY <2>3 DEF GivenInForce, Given
    <3> QED BY <2>1, <2>3, <3>1, <3>2, <3>3 DEF UntoldInForce, InForce
  <2>4. CASE ~PendingInForce
    <3>1. Opened = slot
      BY <1>5, <2>4, OpenStep
    <3>2. ghost' = ghost
      BY <1>0, <2>1, <2>2, <2>4, NoteAppliedFields
    <3> QED BY <2>1, <2>4, <3>1, <3>2 DEF UntoldInForce, InForce
  <2> QED BY <2>3, <2>4
<1>6. CASE ServeClose
  <2>1. win.open /\ upd' = upd
    BY <1>6, CloseStep
  <2>2. CASE ~Accounted.active
    BY <1>6, <2>1, <2>2, CloseStep, AccountedFields
       DEF PendingInForce, Pending, UntoldInForce, InForce
  <2>3. CASE Accounted.active
    <3>1. /\ TakesEffect(Gone) /\ upd.told => DueAfter /\ ~PendingInForce
          /\ DueAfter /\ ~PendingInForce => TakesEffect(Gone) /\ upd = Tell(Pending) /\ upd.told
          /\ PendingInForce => DueAfter
          /\ UntoldInForce' <=> UntoldInForce \/ (TakesEffect(Gone) /\ ~upd.told)
      BY <1>6, <2>3, CloseApplies
    <3>2. link'.map = IF TakesEffect(Gone) /\ upd.kind = "map" THEN upd.map ELSE link.map
      BY <1>6, <2>3, CloseStep, ClosedFields, LinkAfterFields
    <3>3. Left.map = slot.map /\ Left.pending = slot.pending
          /\ Left \in SlotRecord /\ Near(Left, link.n + Gone)
          /\ (IsDue(Left, link.n + Gone) <=> DueAfter)
      BY <2>1, LeftFields
    <3>4. GhostLeft \in GhostRecord /\ GhostLeft.mapLost = ghost.mapLost
          /\ (GhostLeft.mapMoved <=>
                ghost.mapMoved \/ (TakesEffect(Gone) /\ upd.kind = "map" /\ ~upd.told))
          /\ ghost' = NoteApplied(Left, GhostLeft) /\ slot'.map = Kept.map
          /\ link.n + Gone \in Nat
      BY <1>6, <2>3, CloseStep, ClosedFields, GhostLeftFields
    <3>5. CASE ~DueAfter
      <4>1. Kept = Left /\ ghost' = GhostLeft
        BY <1>6, <2>3, <3>3, <3>4, <3>5, CloseStep, NoteAppliedFields
      <4> QED BY <2>1, <3>1, <3>2, <3>3, <3>4, <3>5, <4>1 DEF UntoldInForce
    <3>6. CASE DueAfter
      <4>1. Kept.map = IF Pending.kind = "map" THEN Pending.map ELSE slot.map
        BY <1>6, <2>3, <3>3, <3>6, CloseStep DEF AppliedTo
      <4>2. /\ ghost'.mapLost <=> ghost.mapLost /\ Pending.kind # "map"
            /\ ghost'.mapMoved = GhostLeft.mapMoved
        BY <3>3, <3>4, <3>6, NoteAppliedFields DEF Pending
      <4>3. Pending \in UpdateRecord
        BY <3>6, PendingFields DEF DueAfter
      <4>4. CASE PendingInForce
        <5>1. Pending.kind = "map" => link.map = Pending.map
          BY <4>4 DEF GivenInForce, Given
        <5> QED BY <2>1, <3>1, <3>2, <3>4, <4>1, <4>2, <4>4, <5>1 DEF UntoldInForce
      <4>5. CASE ~PendingInForce
        <5>1. TakesEffect(Gone) /\ upd = Tell(Pending) /\ upd.told
          BY <3>1, <3>6, <4>5
        <5>2. upd.kind = Pending.kind /\ (upd.kind = "map" => upd.map = Pending.map)
          BY <4>3, <5>1, TellFields
        <5> QED BY <2>1, <3>1, <3>2, <3>4, <4>1, <4>2, <5>1, <5>2 DEF UntoldInForce
      <4> QED BY <4>4, <4>5
    <3> QED BY <3>5, <3>6
  <2> QED BY <2>2, <2>3
<1>7. CASE UNCHANGED vars
  BY <1>7 DEF vars, PendingInForce, Pending, UntoldInForce, InForce
<1> QED BY <1>1, <1>2, <1>3, <1>4, <1>5, <1>6, <1>7, NextSteps

\* What the window is open on does not change until it is closed.
LEMMA DistrustStep ==
  ASSUME Follows, MapInv, HopInv, DistrustInv, [Next]_vars
  PROVE  DistrustInv'
<1> USE DEF Follows, DistrustInv
<1>0. slot \in SlotRecord /\ ghost \in GhostRecord /\ link \in LinkRecord /\ link.n \in Nat
  BY DEF Types, LinkRecord
<1>1. CASE TeachesNothing
  BY <1>1 DEF TeachesNothing, Hears
<1>2. CASE TeachesUpdate
  BY <1>2, ForgetFields DEF TeachesUpdate, Hears
<1>3. CASE Hint
  <2>1. /\ slot' = [slot EXCEPT !.pending = InHand(upd, TRUE)]
        /\ ghost' = IF slot.pending = NoUpdate THEN ghost ELSE Miss(ghost, Pending)
    BY <1>3, HintStep
  <2>2. slot'.trusted = slot.trusted
    BY <1>0, <2>1 DEF SlotRecord
  <2> QED BY <1>0, <2>1, <2>2, MissFields
<1>4. CASE AnnounceUnheard
  BY <1>4, AnnounceStep, ForgetFields
<1>5. CASE ServeOpen
  <2>1. slot'.trusted = Opened.trusted /\ ghost' = NoteApplied(slot, ghost)
    BY <1>5, OpenStep, OpenedFields
  <2>2. Near(slot, link.n)
    BY NearNow
  <2>3. ghost'.mapMoved = ghost.mapMoved
    BY <1>0, <2>1, <2>2, NoteAppliedFields
  <2>4. slot.trusted => Opened.trusted
    BY <1>5, OpenStep DEF AppliedTo
  <2> QED BY <2>1, <2>3, <2>4
<1>6. CASE ServeClose
  <2>1. win.open
    BY <1>6, CloseStep
  <2>2. Heard /\ win.channel \notin slot.map => ghost.mapMoved
    <3> SUFFICES ASSUME Heard, win.channel \notin slot.map, ~ghost.mapMoved PROVE FALSE
      OBVIOUS
    <3>1. win.channel = TrueChannel(link, slot.csa2)
      BY <2>1 DEF HopInv, Heard
    <3>2. slot.csa2 \in BOOLEAN
      BY <1>0 DEF SlotRecord
    <3>3. TrueChannel(link, slot.csa2) \in link.map
      BY <1>0, <3>2, TrueChannelInMap
    <3> QED BY <3>1, <3>3 DEF MapInv
  <2>3. Accounted.trusted = (slot.trusted
                               /\ ~(Heard /\ win.probing /\ win.channel \notin slot.map))
    BY <2>1, AccountedFields DEF Heard
  <2>4. CASE ~Accounted.active
    BY <1>6, <2>2, <2>3, <2>4, CloseStep
  <2>5. CASE Accounted.active
    <3>1. Left.trusted = (slot.trusted
                            /\ ~(Heard /\ win.probing /\ win.channel \notin slot.map))
          /\ Left \in SlotRecord /\ Near(Left, link.n + Gone)
      BY <2>1, LeftFields
    <3>2. slot'.trusted = Kept.trusted /\ ghost' = NoteApplied(Left, GhostLeft)
          /\ link.n + Gone \in Nat
      BY <1>6, <2>5, CloseStep, ClosedFields
    <3>3. Left.trusted => Kept.trusted
      BY <1>6, <2>5, CloseStep DEF AppliedTo
    <3>4. ghost.mapMoved => ghost'.mapMoved
      BY <3>1, <3>2, GhostLeftFields, NoteAppliedFields
    <3> QED BY <2>2, <3>1, <3>2, <3>3, <3>4
  <2> QED BY <2>4, <2>5
<1>7. CASE UNCHANGED vars
  BY <1>7 DEF vars
<1> QED BY <1>1, <1>2, <1>3, <1>4, <1>5, <1>6, <1>7, NextSteps


LEMMA SameChannel ==
  ASSUME NEW l, NEW r, l.n = r.n, l.map = r.map, NEW csa2
  PROVE  TrueChannel(l, csa2) = TrueChannel(r, csa2)
BY DEF TrueChannel

\* CSA#1 hops by the increment of the connection, once an event.
LEMMA HopAgain ==
  ASSUME NEW n \in Nat
  PROVE  (((n * Hop) % NChannels) + Hop) % NChannels = ((n + 1) * Hop) % NChannels
<1>1. Hop \in Nat /\ NChannels \in Nat \ {0}
  BY ConstantTypes
<1>2. n * Hop \in Nat
  BY <1>1
<1>3. (n + 1) * Hop = n * Hop + Hop
  BY <1>1
<1>4. ASSUME NEW x \in Int
      PROVE  ((x % NChannels) + Hop) % NChannels = (x + Hop) % NChannels
  <2>1. Hop \in Int
    BY <1>1
  <2> QED BY <1>1, <2>1, ModPlus, Zenon
<1>5. n * Hop \in Int
  BY <1>1
<1>6. (((n * Hop) % NChannels) + Hop) % NChannels = (n * Hop + Hop) % NChannels
  BY <1>4, <1>5, Zenon
<1> QED BY <1>3, <1>6

LEMMA HopStep ==
  ASSUME Follows, HopInv, [Next]_vars
  PROVE  HopInv'
<1> USE DEF Follows, HopInv
<1>0. slot \in SlotRecord /\ ghost \in GhostRecord /\ link \in LinkRecord /\ link.n \in Nat
  BY DEF Types, LinkRecord
<1>1. CASE TeachesNothing \/ TeachesUpdate
  <2>1. Hears
    BY <1>1 DEF TeachesNothing, TeachesUpdate
  <2>2. link'.n = link.n /\ link'.map = link.map /\ ghost'.skipped = ghost.skipped
    BY <1>0, <1>1, ForgetFields DEF TeachesNothing, TeachesUpdate, LinkRecord
  <2>3. TrueChannel(link, slot.csa2)' = TrueChannel(link, slot.csa2)
    BY <2>1, <2>2, SameChannel DEF Hears
  <2>4. UnmappedMode(slot) => UnmappedMode(slot)'
    BY <2>1 DEF UnmappedMode, Hears
  <2>5. Csa2Next(slot.cnt, slot.map)' = Csa2Next(slot.cnt, slot.map)
        /\ Csa1Channel(slot.last, slot.map)' = Csa1Channel(slot.last, slot.map)
    BY <2>1 DEF Hears
  <2> QED BY <2>1, <2>2, <2>3, <2>4, <2>5 DEF Hears
<1>2. CASE Hint
  <2>1. /\ slot' = [slot EXCEPT !.pending = InHand(upd, TRUE)]
        /\ ghost' = (IF slot.pending = NoUpdate THEN ghost ELSE Miss(ghost, Pending))
        /\ link' = link /\ win' = win
    BY <1>2, HintStep
  <2>2. slot'.csa2 = slot.csa2 /\ slot'.cnt = slot.cnt /\ slot'.map = slot.map
        /\ slot'.last = slot.last /\ slot'.active = slot.active
        /\ slot'.encrypted = slot.encrypted /\ slot'.trusted = slot.trusted
    BY <1>0, <2>1 DEF SlotRecord
  <2>3. ghost'.skipped = ghost.skipped
    BY <1>0, <2>1, MissFields
  <2>4. Csa2Next(slot.cnt, slot.map)' = Csa2Next(slot.cnt, slot.map)
        /\ Csa1Channel(slot.last, slot.map)' = Csa1Channel(slot.last, slot.map)
        /\ TrueChannel(link, slot.csa2)' = TrueChannel(link, slot.csa2)
        /\ (UnmappedMode(slot)' <=> UnmappedMode(slot))
    BY <2>1, <2>2 DEF UnmappedMode
  <2> QED BY <2>1, <2>2, <2>3, <2>4
<1>3. CASE AnnounceUnheard
  <2>1. slot' = slot /\ win' = win /\ ghost'.skipped = ghost.skipped
    BY <1>3, AnnounceStep, ForgetFields
  <2>2. link'.n = link.n /\ link'.map = link.map
    BY <1>0, <1>3, AnnounceStep DEF LinkRecord
  <2>3. TrueChannel(link, slot.csa2)' = TrueChannel(link, slot.csa2)
    BY <2>1, <2>2, SameChannel
  <2> QED BY <2>1, <2>2, <2>3
<1>4. CASE ServeOpen
  <2>1. /\ win'.open /\ win'.heard = "nothing" /\ win'.probing = Probes(Opened)
        /\ win'.channel = ChannelForEvent(Opened)
        /\ ~win.open /\ link' = link /\ slot.active
    BY <1>4, OpenStep
  <2>2. /\ slot'.encrypted = Opened.encrypted /\ slot'.cnt = Opened.cnt
        /\ slot'.csa2 = Opened.csa2 /\ slot'.map = Opened.map
        /\ slot'.trusted = Opened.trusted /\ slot'.last = Hopped(Opened).last
        /\ slot'.csa2 = slot.csa2 /\ Opened.last = slot.last
    BY <1>4, OpenedFields
  <2>3. UnmappedMode(slot)' <=> UnmappedMode(Opened)
    BY <2>2 DEF UnmappedMode
  <2>4. ~Opened.csa2 => ~Probes(Opened)
    BY DEF Probes, ProbeUnmapped
  <2>5. Opened.csa2 /\ ~Probes(Opened) /\ ~UnmappedMode(Opened) =>
          ChannelForEvent(Opened) = Csa2Next(Opened.cnt, Opened.map)
    BY DEF ChannelForEvent
  <2>6. ~Opened.csa2 => ChannelForEvent(Opened) = Csa1Channel(Hopped(Opened).last, Opened.map)
    BY DEF ChannelForEvent
  <2>7. Csa2Next(slot.cnt, slot.map)' = Csa2Next(Opened.cnt, Opened.map)
        /\ Csa1Channel(slot.last, slot.map)' = Csa1Channel(Hopped(Opened).last, Opened.map)
    BY <2>2
  <2>8. slot'.active /\ ~slot'.csa2 /\ ~ghost'.skipped =>
          slot'.last = ((link.n + 1) * Hop) % NChannels
    <3> SUFFICES ASSUME ~slot'.csa2, ~ghost'.skipped
                 PROVE  slot'.last = ((link.n + 1) * Hop) % NChannels
      OBVIOUS
    <3>1. Near(slot, link.n) /\ ghost' = NoteApplied(slot, ghost)
      BY <1>4, NearNow, OpenStep
    <3>2. ~ghost.skipped
      BY <1>0, <3>1, NoteAppliedFields
    <3>3. slot.last = ((link.n + 0) * Hop) % NChannels
      BY <2>1, <2>2, <3>2
    <3>4. slot'.last = (slot.last + Hop) % NChannels
      BY <1>4, <2>2, OpenStep, HoppedFields
    <3>5. link.n + 0 = link.n
      BY <1>0
    <3> QED BY <1>0, <3>3, <3>4, <3>5, HopAgain
  <2> QED BY <2>1, <2>2, <2>3, <2>4, <2>5, <2>6, <2>7, <2>8
<1>5. CASE ServeClose
  <2>1. ~win'.open /\ win.open
    BY <1>5, CloseStep DEF Closed
  <2>2. CASE ~Accounted.active
    BY <1>5, <2>1, <2>2, CloseStep
  <2>3. CASE Accounted.active
    <3>1. slot'.csa2 = slot.csa2 /\ slot'.last = slot.last /\ Gone \in Nat \ {0}
          /\ link'.n = link.n + Gone
      BY <1>5, <2>3, ClosedFields
    <3>2. ghost' = NoteApplied(Left, GhostLeft) /\ Left \in SlotRecord
          /\ Near(Left, link.n + Gone) /\ link.n + Gone \in Nat
      BY <1>0, <1>5, <2>1, <2>3, <3>1, CloseStep, LeftFields
    <3>3. ~ghost'.skipped => ~ghost.skipped /\ Gone = 1
      BY <3>1, <3>2, NoteAppliedFields, GhostLeftFields
    <3>4. slot.active
      BY <2>1 DEF Types
    <3>5. ~slot'.csa2 /\ ~ghost'.skipped => slot'.last = (link'.n * Hop) % NChannels
      BY <2>1, <3>1, <3>3, <3>4
    <3>6. link'.n + 0 = link'.n
      BY <1>0, <3>1
    <3> QED BY <2>1, <3>5, <3>6
  <2> QED BY <2>2, <2>3
<1>6. CASE UNCHANGED vars
  BY <1>6 DEF vars, UnmappedMode
<1> QED BY <1>1, <1>2, <1>3, <1>4, <1>5, <1>6, NextSteps


----------------------------------------------------------------------------
(* The anchor.                                                             *)

Reanchoring(u) == u.kind \in {"conn", "rate"}

LEMMA PlacedAnew ==
  /\ \A unplaced \in BOOLEAN : Placed(0, unplaced)
  /\ \A p \in {0, WinSize} : Placed(0 - p, TRUE)
BY ConstantTypes DEF Placed

\* What the slot may still owe to an update: the one it has in hand, or else
\* the last one if it was never told of it.
LEMMA ReanchorsMeans ==
  ASSUME Types, KnowsLast
  PROVE  /\ Reanchors <=> \/ PendingInForce /\ Reanchoring(Pending)
                          \/ UntoldInForce /\ Reanchoring(upd)
         /\ PendingInForce /\ Reanchoring(Pending) => Behind = Pending
         /\ UntoldInForce => slot.pending = NoUpdate /\ Behind = upd
<1>1. slot.pending # NoUpdate => Pending # NoUpdate /\ Pending \in UpdateRecord
  BY PendingFields, UpdateFields
<1>2. UntoldInForce => slot.pending = NoUpdate
  BY OneInHand
<1> QED BY <1>1, <1>2 DEF Reanchors, Overdue, Pending, PendingInForce, UntoldInForce, InForce,
          Behind, Reanchoring

\* The numbers of the anchor.
LEMMA AnchorTypes ==
  ASSUME Types
  PROVE  /\ link.n \in Nat /\ link.interval \in Nat
         /\ slot.mts \in Int /\ slot.interval \in Nat /\ slot.firstWin \in Nat
         /\ \A u \in UpdateRecord : Reanchoring(u) =>
              /\ u.instant \in Nat /\ u.interval \in Nat /\ u.offset \in Nat /\ u.place \in Nat
              /\ u.interval \in Intervals /\ u.place \in {0, WinSize}
              /\ (link.n - u.instant) * (u.interval - slot.interval) \in Int
              /\ Owed(u) \in Int
<1>1. link.n \in Nat /\ link.interval \in Nat
  BY ConstantTypes DEF Types, LinkRecord
<1>2. slot.mts \in Int /\ slot.interval \in Nat /\ slot.firstWin \in Nat
  BY SlotNumbers DEF Types
<1>3. ASSUME NEW u \in UpdateRecord, Reanchoring(u)
      PROVE  /\ u.instant \in Nat /\ u.interval \in Nat /\ u.offset \in Nat /\ u.place \in Nat
             /\ u.interval \in Intervals /\ u.place \in {0, WinSize}
  BY <1>3, UpdateFields, ConstantTypes DEF Reanchoring
<1>4. ASSUME NEW u \in UpdateRecord, Reanchoring(u)
      PROVE  (link.n - u.instant) * (u.interval - slot.interval) \in Int
  <2>1. link.n - u.instant \in Int /\ u.interval - slot.interval \in Int
    BY <1>1, <1>2, <1>3, <1>4
  <2> QED BY <2>1
<1>5. ASSUME NEW u \in UpdateRecord, Reanchoring(u)
      PROVE  Owed(u) \in Int
  <2>1. u.offset \in Int /\ u.place \in Int
        /\ (link.n - u.instant) * (u.interval - slot.interval) \in Int
    BY <1>3, <1>4, <1>5
  <2> QED BY <2>1 DEF Owed
<1> QED BY <1>1, <1>2, <1>3, <1>4, <1>5

LEMMA AnchorAnnounced ==
  ASSUME Follows, AnchorInv, AnnounceUnheard
  PROVE  AnchorInv'
<1> USE DEF Follows
<1>1. SUFFICES ASSUME slot'.active, ~ghost'.anchorLost
               PROVE  /\ ~Reanchors' => slot'.interval = link'.interval
                            /\ Placed(slot'.mts, ghost'.unplaced)
                      /\ Reanchors' =>
                           /\ link'.interval = Behind'.interval
                           /\ ~ghost'.reanchored =>
                                Placed(slot'.mts + Owed(Behind)', ghost'.unplaced)
  BY DEF AnchorInv
<1>2. /\ upd' \in UpdateRecord /\ upd'.instant > link.n /\ slot' = slot
      /\ ghost' = Forget(ghost) /\ ghost \in GhostRecord /\ link \in LinkRecord
      /\ link' = [link EXCEPT !.updates = @ + 1] /\ CentralFree
  BY AnnounceStep DEF Types
<1>3. link'.n = link.n /\ link'.interval = link.interval /\ link.n \in Nat
  BY <1>2 DEF LinkRecord
<1>4. /\ ghost'.anchorLost <=>
           ghost.anchorLost \/ (upd # NoUpdate /\ ~upd.told /\ upd.kind \in {"conn", "rate"})
      /\ ghost'.reanchored = ghost.reanchored /\ ghost'.unplaced = ghost.unplaced
  BY <1>2, ForgetFields
<1>5. ~Overdue(upd)'
  BY <1>2, <1>3, UpdateFields DEF Overdue
<1>6. slot.pending # NoUpdate => (Overdue(Pending)' <=> Overdue(Pending))
  BY <1>2, <1>3 DEF Overdue, Pending
<1>7. Reanchors' <=> slot.pending # NoUpdate /\ Overdue(Pending)
  BY <1>2, <1>5, <1>6 DEF Reanchors, Pending
<1>8. Reanchors <=> slot.pending # NoUpdate /\ Overdue(Pending)
  BY <1>1, <1>4 DEF Reanchors, Pending, Overdue
<1>9. Reanchors' => Behind' = Behind /\ Owed(Behind)' = Owed(Behind)
  BY <1>2, <1>3, <1>6, <1>7 DEF Behind, Pending, Owed
<1> QED BY <1>1, <1>2, <1>3, <1>4, <1>7, <1>8, <1>9 DEF AnchorInv

LEMMA AnchorHeard ==
  ASSUME Follows, AnchorInv, TeachesNothing \/ TeachesUpdate
  PROVE  AnchorInv'
<1> USE DEF Follows
<1>0. Hears /\ ghost \in GhostRecord /\ link \in LinkRecord /\ link.n \in Nat
  BY DEF TeachesNothing, TeachesUpdate, Types, LinkRecord
<1>1. CASE TeachesNothing
  <2>1. /\ slot'.active = slot.active /\ slot'.interval = slot.interval /\ slot'.mts = slot.mts
        /\ slot'.firstWin = slot.firstWin /\ slot'.pending = slot.pending
        /\ link' = link /\ upd' = upd /\ ghost' = ghost
    BY <1>0, <1>1 DEF TeachesNothing, Hears
  <2> QED BY <2>1 DEF AnchorInv, Reanchors, Overdue, Behind, Owed, Pending
<1>2. CASE TeachesUpdate
  <2>1. /\ slot'.active = slot.active /\ slot'.interval = slot.interval /\ slot'.mts = slot.mts
        /\ slot'.firstWin = slot.firstWin /\ ~slot.encrypted
        /\ link'.n = link.n /\ link'.interval = link.interval /\ ghost' = Forget(ghost)
    BY <1>0, <1>2 DEF TeachesUpdate, Hears, LinkRecord
  <2>2. PICK u \in UpdateRecord :
          /\ u.instant > link.n /\ upd' = Tell(u) /\ slot'.pending = InHand(u, FALSE)
    BY <1>2 DEF TeachesUpdate
  <2>3. ~Reanchors'
    <3>1. Tell(u).told /\ u.instant \in Nat
      BY TellFields, UpdateFields
    <3>2. slot'.pending.update = u
      BY <2>2, InHandType
    <3>3. ~(Overdue(upd)' /\ ~upd'.told)
      BY <2>2, <3>1
    <3>4. ~Overdue(slot.pending.update)'
      <4>1. ~(u.instant <= link'.n)
        BY <1>0, <2>1, <2>2, <3>1
      <4> QED BY <3>2, <4>1 DEF Overdue
    <3> QED BY <3>3, <3>4 DEF Reanchors
  <2>4. /\ ghost'.anchorLost <=>
             ghost.anchorLost \/ (upd # NoUpdate /\ ~upd.told /\ upd.kind \in {"conn", "rate"})
        /\ ghost'.unplaced = ghost.unplaced
    BY <2>1, ForgetFields
  <2>5. ~ghost'.anchorLost => ~Reanchors
    <3>1. ~PendingInForce
      BY <2>1 DEF KnowsLast
    <3> QED BY <2>4, <3>1, ReanchorsMeans DEF UntoldInForce, InForce, Reanchoring
  <2> QED BY <2>1, <2>3, <2>4, <2>5 DEF AnchorInv
<1> QED BY <1>1, <1>2

LEMMA AnchorHinted ==
  ASSUME Follows, AnchorInv, Hint
  PROVE  AnchorInv'
<1> USE DEF Follows
<1>0. slot \in SlotRecord /\ ghost \in GhostRecord
  BY DEF Types
<1>1. /\ upd \in UpdateRecord /\ ~upd.told /\ upd' = Tell(upd) /\ link' = link
      /\ slot'.pending = InHand(upd, TRUE)
      /\ slot' = [slot EXCEPT !.pending = InHand(upd, TRUE)]
      /\ ghost' = IF slot.pending = NoUpdate THEN ghost ELSE Miss(ghost, Pending)
  BY HintStep
<1>2. /\ slot'.active = slot.active /\ slot'.interval = slot.interval /\ slot'.mts = slot.mts
      /\ slot'.firstWin = slot.firstWin
  BY <1>0, <1>1 DEF SlotRecord
<1>3. slot'.pending.update = upd /\ slot'.pending # NoUpdate /\ upd # NoUpdate /\ Tell(upd).told
  <2>1. slot'.pending.update = upd /\ slot'.pending # NoUpdate /\ upd # NoUpdate
    BY <1>1, InHandType, UpdateFields
  <2>2. Tell(upd).told
    BY <1>1, TellFields
  <2> QED BY <2>1, <2>2
<1>4. /\ ghost'.anchorLost <=>
           ghost.anchorLost \/ (slot.pending # NoUpdate /\ Reanchoring(Pending))
      /\ ghost'.reanchored = ghost.reanchored /\ ghost'.unplaced = ghost.unplaced
  BY <1>0, <1>1, MissFields DEF Reanchoring
<1>5. Reanchors' <=> InForce(upd, link.n) /\ Reanchoring(upd)
  BY <1>1, <1>3 DEF Reanchors, Overdue, InForce, Reanchoring
<1>6. ~ghost'.anchorLost => (Reanchors <=> InForce(upd, link.n) /\ Reanchoring(upd))
  BY <1>1, <1>4, ReanchorsMeans DEF PendingInForce, UntoldInForce
<1>7. Reanchors' => Behind' = upd /\ Owed(Behind)' = Owed(upd)
  BY <1>1, <1>2, <1>3, <1>5 DEF Behind, Overdue, InForce, Reanchoring, Pending, Owed
<1>8. Reanchors' => Behind = upd
  BY <1>1, <1>5, ReanchorsMeans DEF UntoldInForce
<1> QED BY <1>1, <1>2, <1>4, <1>5, <1>6, <1>7, <1>8 DEF AnchorInv

LEMMA AnchorOpened ==
  ASSUME Follows, AnchorInv, ServeOpen
  PROVE  AnchorInv'
<1> USE DEF Follows
<1>0. slot \in SlotRecord /\ ghost \in GhostRecord /\ link.n \in Nat
  BY DEF Types, LinkRecord
<1>1. /\ link' = link /\ upd' = upd /\ ghost' = NoteApplied(slot, ghost)
      /\ slot'.pending = (IF PendingInForce THEN NoUpdate ELSE slot.pending)
      /\ slot'.active = slot.active /\ slot'.mts = Opened.mts
      /\ slot'.interval = Opened.interval /\ slot'.firstWin = Opened.firstWin
  BY OpenStep, OpenedFields
<1>2. Near(slot, link.n) /\ (IsDue(slot, link.n) <=> PendingInForce)
  BY NearNow
<1>3. CASE ~PendingInForce
  <2>1. Opened = slot /\ ghost' = ghost
    BY <1>0, <1>1, <1>2, <1>3, OpenStep, NoteAppliedFields
  <2> QED BY <1>1, <1>3, <2>1 DEF AnchorInv, Reanchors, Overdue, Behind, Owed, Pending
<1>4. CASE PendingInForce
  <2>1. AppliedTo(slot, Opened, Pending, link.n - Pending.instant)
    BY <1>4, OpenStep
  <2>2. /\ ghost'.anchorLost <=>
             \/ ghost.anchorLost
             \/ Pending.kind = "rate" /\ Pending.instant # link.n
             \/ Reanchoring(Pending) /\ (ghost.reanchored \/ ghost.unplaced)
             \/ Pending.kind = "phy" /\ ghost.unplaced
        /\ ghost'.unplaced <=> ghost.unplaced \/ Pending.kind = "conn"
        /\ ghost' \in GhostRecord
    BY <1>0, <1>1, <1>2, <1>4, NoteAppliedFields DEF Pending, Reanchoring
  <2>3. ~Reanchors'
    <3>1. ~UntoldInForce
      BY <1>4, OneInHand DEF PendingInForce
    <3> QED BY <1>1, <1>4, <3>1 DEF Reanchors, Overdue, UntoldInForce, InForce
  <2>4. Pending \in UpdateRecord /\ Pending.kind \in Kinds
    BY <1>4, PendingFields, UpdateFields DEF PendingInForce
  <2> SUFFICES ASSUME slot.active, ~ghost'.anchorLost
               PROVE  /\ slot'.interval = link.interval
                      /\ Placed(slot'.mts, ghost'.unplaced)
    BY <1>1, <2>3 DEF AnchorInv
  <2>5. CASE ~Reanchoring(Pending)
    <3>1. ~Reanchors
      BY <1>4, <2>5, ReanchorsMeans, OneInHand DEF PendingInForce
    <3>2. slot.interval = link.interval /\ Placed(slot.mts, ghost.unplaced)
      BY <2>2, <3>1 DEF AnchorInv
    <3>3. Opened.interval = slot.interval /\ Opened.mts = slot.mts
      BY <2>1, <2>4, <2>5 DEF AppliedTo, Reanchoring, Kinds
    <3>4. ghost'.unplaced = ghost.unplaced /\ ghost.unplaced \in BOOLEAN
      BY <1>0, <2>2, <2>5 DEF Reanchoring, GhostRecord
    <3> QED BY <1>1, <3>2, <3>3, <3>4
  <2>6. CASE Reanchoring(Pending)
    <3>1. Reanchors /\ Behind = Pending
      BY <1>4, <2>6, ReanchorsMeans
    <3>2. ~ghost.reanchored /\ ~ghost.unplaced /\ ~ghost.anchorLost
      BY <2>2, <2>6
    <3>3. link.interval = Pending.interval
          /\ Placed(slot.mts + Owed(Pending), ghost.unplaced)
      BY <3>1, <3>2 DEF AnchorInv
    <3>4. slot.mts + Owed(Pending) = 0
      BY <3>2, <3>3 DEF Placed
    <3>5. Opened.interval = link.interval
      BY <2>1, <2>6, <3>3 DEF AppliedTo, Reanchoring
    <3> DEFINE late == (link.n - Pending.instant) * (Pending.interval - slot.interval)
    <3>6. /\ late \in Int /\ slot.mts \in Int /\ Pending.offset \in Int /\ Pending.place \in Int
          /\ Pending.place \in {0, WinSize} /\ Pending.interval \in Intervals
      BY <2>4, <2>6, AnchorTypes
    <3>7. slot.mts + (Pending.offset + Pending.place + late) = 0
      BY <3>4 DEF Owed
    <3>8. CASE Pending.kind = "conn"
      <4>1. Opened.mts = slot.mts + Pending.offset + late
            /\ Opened.firstWin = WinSize + 2 * Guard + Steady
        BY <2>1, <3>8 DEF AppliedTo
      <4> HIDE DEF late
      <4>2. Opened.mts = 0 - Pending.place
        BY <3>6, <3>7, <4>1
      <4>3. ghost'.unplaced = TRUE
        BY <2>2, <3>8 DEF GhostRecord
      <4> QED BY <1>1, <3>5, <3>6, <4>1, <4>2, <4>3, PlacedAnew
    <3>9. CASE Pending.kind = "rate"
      <4>1. Opened.mts = slot.mts + Pending.offset
            /\ Opened.firstWin = Least(2 * Guard + Steady, Pending.interval)
        BY <2>1, <3>9 DEF AppliedTo
      <4>2. Pending.instant = link.n /\ Pending.place = 0
        BY <2>2, <2>4, <3>9, UpdateFields
      <4>3. late = 0
        <5>1. link.n - Pending.instant = 0 /\ Pending.interval - slot.interval \in Int
          BY <1>0, <4>2, <3>6, AnchorTypes, ConstantTypes
        <5> QED BY <5>1
      <4> HIDE DEF late
      <4>4. Opened.mts = 0
        BY <3>6, <3>7, <4>1, <4>2, <4>3
      <4>5. ghost'.unplaced \in BOOLEAN
        BY <2>2 DEF GhostRecord
      <4> QED BY <1>1, <3>5, <3>6, <4>1, <4>4, <4>5, PlacedAnew
    <3> QED BY <2>6, <3>8, <3>9 DEF Reanchoring
  <2> QED BY <2>5, <2>6
<1> QED BY <1>3, <1>4


\* d events of which the last L follow an instant: at the old interval i plus
\* the compensation is at the old one before it and at the new one after it,
\* and also what was owed before them plus all d at the new one.
LEMMA Compensation ==
  ASSUME NEW n \in Int, NEW d \in Int, NEW j \in Int, NEW i \in Int, NEW u \in Int
  PROVE  LET L == (n + d) - j
         IN  /\ L \in Int /\ d * i \in Int /\ d * u \in Int /\ (j - n) * i \in Int
             /\ L * u \in Int /\ L * (u - i) \in Int /\ (n - j) * (u - i) \in Int
             /\ d * i + L * (u - i) = (j - n) * i + L * u
             /\ d * i + L * (u - i) = (n - j) * (u - i) + d * u
<1> DEFINE L == (n + d) - j
<1>1. L \in Int /\ u - i \in Int /\ j - n \in Int /\ n - j \in Int
  OBVIOUS
<1>2. L * (u - i) = L * u - L * i
  BY <1>1
<1>3. L * i = d * i - (j - n) * i
  <2>1. L = d - (j - n)
    OBVIOUS
  <2>2. (d - (j - n)) * i = d * i - (j - n) * i
    BY <1>1, Distributes
  <2> QED BY <2>1, <2>2
<1>4. (n - j) * (u - i) = L * (u - i) - d * (u - i)
  <2>1. n - j = L - d
    OBVIOUS
  <2>2. (L - d) * (u - i) = L * (u - i) - d * (u - i)
    BY <1>1, Distributes
  <2> QED BY <2>1, <2>2
<1>5. d * (u - i) = d * u - d * i
  OBVIOUS
<1>6. d * i \in Int /\ d * u \in Int /\ (j - n) * i \in Int /\ L * u \in Int /\ L * i \in Int
      /\ L * (u - i) \in Int /\ (n - j) * (u - i) \in Int /\ d * (u - i) \in Int
  BY <1>1
<1> HIDE DEF L
<1>7. d * i + L * (u - i) = (j - n) * i + L * u
  BY <1>2, <1>3, <1>6
<1>8. d * i + L * (u - i) = (n - j) * (u - i) + d * u
  BY <1>4, <1>5, <1>6
<1> QED BY <1>1, <1>6, <1>7, <1>8 DEF L

\* Where the slot is left, from the anchor of the event that closes.
Base == IF Heard THEN 0 ELSE slot.mts

LEMMA LeftAnchor ==
  ASSUME Types, InStep, InstantsNear, ServeClose, Accounted.active
  PROVE  /\ Base \in Int /\ Gone \in Int /\ Gone >= 1 /\ Gone * slot.interval \in Int
         /\ Left.mts = Base + Gone * slot.interval
         /\ slot.interval \in Int /\ link.n \in Int /\ link.interval \in Int
<1>1. Gone \in Nat \ {0} /\ link.n \in Nat /\ win.open
  BY ClosedFields, CloseStep
<1>2. slot.interval \in Nat /\ slot.mts \in Int /\ link.interval \in Nat
  BY AnchorTypes
<1>3. Left.mts = (IF Heard THEN slot.interval ELSE slot.mts + slot.interval)
                   + (Gone - 1) * slot.interval
  BY <1>1, LeftFields
<1>4. (Gone - 1) * slot.interval = Gone * slot.interval - slot.interval
      /\ Gone * slot.interval \in Int
  <2>1. Gone \in Int /\ slot.interval \in Int
    BY <1>1, <1>2
  <2>2. (Gone - 1) * slot.interval = Gone * slot.interval - slot.interval
    BY <2>1
  <2> QED BY <2>1, <2>2
<1>5. Left.mts = Base + Gone * slot.interval
  BY <1>2, <1>3, <1>4 DEF Base
<1> QED BY <1>1, <1>2, <1>4, <1>5 DEF Base

\* Of the updates of the anchor, one that takes effect and was told is the one
\* applied; what is owed after the window is owed to one never told of.
LEMMA ClosedReanchors ==
  ASSUME Follows, ServeClose, Accounted.active
  PROVE  /\ Reanchors' <=> \/ UntoldInForce /\ Reanchoring(upd)
                           \/ TakesEffect(Gone) /\ ~upd.told /\ Reanchoring(upd)
         /\ Reanchors' => Behind' = upd /\ upd \in UpdateRecord
         /\ UntoldInForce => ~TakesEffect(Gone) /\ ~DueAfter
<1> USE DEF Follows
<1>1. /\ slot'.pending = IF DueAfter THEN NoUpdate ELSE slot.pending
      /\ upd' = upd /\ Gone \in Nat \ {0} /\ link.n \in Nat /\ link'.n = link.n + Gone
  BY ClosedFields, CloseStep
<1>2. ~PendingInForce' /\ (UntoldInForce' <=> UntoldInForce \/ (TakesEffect(Gone) /\ ~upd.told))
  BY CloseApplies
<1>3. ~(slot'.pending # NoUpdate /\ Overdue(slot.pending.update)')
  BY <1>2 DEF PendingInForce, Pending, Overdue
<1>4. Reanchors' <=> UntoldInForce' /\ Reanchoring(upd)
  BY <1>1, <1>3 DEF Reanchors, UntoldInForce, InForce, Overdue, Reanchoring
<1>5. Behind' = upd
  BY <1>1, <1>3 DEF Behind, Pending
<1>6. Reanchors' => upd \in UpdateRecord
  BY <1>1, <1>4 DEF Types, UntoldInForce, InForce
<1>7. UntoldInForce => ~TakesEffect(Gone) /\ ~DueAfter
  BY OneInHand DEF UntoldInForce, TakesEffect, DueAfter
<1> QED BY <1>2, <1>4, <1>5, <1>6, <1>7

\* Where the slot is once it is at its next event.
LEMMA ClosedAnchor ==
  ASSUME Follows, ServeClose, Accounted.active
  PROVE  /\ slot'.active /\ slot'.interval = Kept.interval /\ slot'.firstWin = Kept.firstWin
         /\ slot'.mts = Kept.mts - Distance(Gone) /\ Distance(Gone) \in Int
         /\ link'.n = link.n + Gone
         /\ link'.interval = IF TakesEffect(Gone) /\ Reanchoring(upd) THEN upd.interval
                             ELSE link.interval
         /\ ~(TakesEffect(Gone) /\ Reanchoring(upd)) => Distance(Gone) = Gone * link.interval
         /\ TakesEffect(Gone) /\ Reanchoring(upd) =>
              /\ upd \in UpdateRecord
              /\ Distance(Gone) =
                   (upd.instant - link.n) * link.interval + upd.offset + upd.place
                     + (link.n + Gone - upd.instant) * upd.interval
<1> USE DEF Follows
<1>1. /\ slot'.active /\ slot'.interval = Kept.interval /\ slot'.firstWin = Kept.firstWin
      /\ slot'.mts = Kept.mts - Distance(Gone) /\ Distance(Gone) \in Int
      /\ link'.n = link.n + Gone /\ Gone \in Nat /\ link' = LinkAfter(Gone)
  BY ClosedFields, CloseStep
<1>2. link'.interval = IF TakesEffect(Gone) /\ Reanchoring(upd) THEN upd.interval
                       ELSE link.interval
  BY <1>1, LinkAfterFields DEF Reanchoring
<1>3. TakesEffect(Gone) => upd \in UpdateRecord
  BY DEF TakesEffect, InForce, Types
<1> QED BY <1>1, <1>2, <1>3 DEF Distance, Reanchoring

\* What became of the ghosts.
LEMMA ClosedGhost ==
  ASSUME Follows, ServeClose, Accounted.active, ~ghost'.anchorLost
  PROVE  /\ ~ghost.anchorLost
         /\ ~DueAfter \/ ~Reanchoring(Pending) =>
              /\ ghost'.unplaced = (ghost.unplaced /\ ~Heard) /\ ghost'.unplaced \in BOOLEAN
         /\ ~DueAfter => (ghost'.reanchored <=> ghost.reanchored \/ (Heard /\ Reanchors))
         /\ DueAfter /\ Reanchoring(Pending) =>
              /\ ~ghost.reanchored /\ ~(Heard /\ Reanchors) /\ ~(ghost.unplaced /\ ~Heard)
              /\ Pending.kind = "rate" => Pending.instant = link.n + Gone
              /\ Pending.kind = "conn" => ghost'.unplaced = TRUE
              /\ ghost'.unplaced \in BOOLEAN
<1> USE DEF Follows
<1>1. ghost' = NoteApplied(Left, GhostLeft) /\ Left \in SlotRecord /\ Near(Left, link.n + Gone)
      /\ link.n + Gone \in Nat /\ (IsDue(Left, link.n + Gone) <=> DueAfter)
      /\ Left.pending = slot.pending /\ ghost \in GhostRecord
  <2>1. win.open /\ ghost \in GhostRecord /\ ghost' = NoteApplied(Left, GhostLeft)
    BY CloseStep DEF Types
  <2>2. link.n + Gone \in Nat
    BY ClosedFields
  <2>3. Left \in SlotRecord /\ Near(Left, link.n + Gone)
        /\ (IsDue(Left, link.n + Gone) <=> DueAfter) /\ Left.pending = slot.pending
    BY <2>1, LeftFields
  <2> QED BY <2>1, <2>2, <2>3
<1>2. /\ GhostLeft \in GhostRecord
      /\ GhostLeft.reanchored <=> ghost.reanchored \/ (Heard /\ Reanchors)
      /\ GhostLeft.unplaced <=> ghost.unplaced /\ ~Heard
      /\ GhostLeft.anchorLost = ghost.anchorLost
  BY GhostLeftFields
<1>3. GhostLeft.unplaced = (ghost.unplaced /\ ~Heard) /\ ghost' \in GhostRecord
  <2>1. GhostLeft.unplaced \in BOOLEAN
    BY <1>2 DEF GhostRecord
  <2>2. ghost' \in GhostRecord
    BY <1>1, <1>2, NoteAppliedFields
  <2> QED BY <1>2, <2>1, <2>2
<1>4. CASE ~DueAfter
  <2>1. ghost' = GhostLeft
    BY <1>1, <1>2, <1>4, NoteAppliedFields
  <2> QED BY <1>2, <1>3, <1>4, <2>1 DEF GhostRecord
<1>5. CASE DueAfter
  <2>1. /\ ghost'.anchorLost <=>
             \/ GhostLeft.anchorLost
             \/ Pending.kind = "rate" /\ Pending.instant # link.n + Gone
             \/ Reanchoring(Pending) /\ (GhostLeft.reanchored \/ GhostLeft.unplaced)
             \/ Pending.kind = "phy" /\ GhostLeft.unplaced
        /\ ghost'.unplaced <=> GhostLeft.unplaced \/ Pending.kind = "conn"
    BY <1>1, <1>2, <1>5, NoteAppliedFields DEF Pending, Reanchoring
  <2>2. ghost'.unplaced \in BOOLEAN
    BY <1>3 DEF GhostRecord
  <2> QED BY <1>2, <1>3, <1>5, <2>1, <2>2 DEF Reanchoring
<1> QED BY <1>4, <1>5

LEMMA AnchorClosed ==
  ASSUME Follows, AnchorInv, ServeClose
  PROVE  AnchorInv'
<1> USE DEF Follows
<1>1. CASE ~Accounted.active
  BY <1>1, CloseStep DEF AnchorInv
<1>2. CASE Accounted.active
  <2> DEFINE d == Gone
             i == slot.interval
             takes == TakesEffect(Gone) /\ Reanchoring(upd)
             applies == DueAfter /\ Reanchoring(Pending)
  <2> SUFFICES ASSUME ~ghost'.anchorLost
               PROVE  /\ ~Reanchors' => slot'.interval = link'.interval
                            /\ Placed(slot'.mts, ghost'.unplaced)
                      /\ Reanchors' =>
                           /\ link'.interval = Behind'.interval
                           /\ ~ghost'.reanchored =>
                                Placed(slot'.mts + Owed(Behind)', ghost'.unplaced)
    BY DEF AnchorInv
  <2>0. /\ d \in Int /\ i \in Int /\ link.n \in Int /\ link.interval \in Int
        /\ slot.mts \in Int /\ Base \in Int /\ Gone \in Int /\ slot.interval \in Int
    BY <1>2, LeftAnchor, AnchorTypes
  <2>1. /\ Base \in Int /\ d \in Int /\ d >= 1 /\ d * i \in Int
        /\ Left.mts = Base + d * i /\ i \in Int /\ link.n \in Int /\ link.interval \in Int
        /\ slot.mts \in Int /\ slot.firstWin \in Nat
    BY <1>2, LeftAnchor, AnchorTypes
  <2>2. win.open /\ slot.active
    BY CloseStep DEF Types
  <2>3. Left.firstWin = (IF Heard THEN 0 ELSE slot.firstWin) /\ Left.interval = i
        /\ Left.firstWin \in Nat
    BY <2>1, <2>2, LeftFields
  <2>4. ~ghost.anchorLost /\ ghost.unplaced \in BOOLEAN
    BY <1>2, ClosedGhost DEF Types, GhostRecord
  \* Nothing of the anchor is applied: the slot keeps its base.
  <2>5. ASSUME ~applies
        PROVE  /\ Kept.mts = Base + d * i /\ Kept.interval = i
               /\ ghost'.unplaced = (ghost.unplaced /\ ~Heard)
    <3>1. ghost'.unplaced = (ghost.unplaced /\ ~Heard) /\ ghost'.unplaced \in BOOLEAN
      BY <1>2, <2>5, ClosedGhost
    <3>2. CASE ~DueAfter
      BY <1>2, <2>1, <2>3, <3>1, <3>2, CloseStep
    <3>3. CASE DueAfter
      <4>1. AppliedTo(Left, Kept, Pending, (link.n + Gone) - Pending.instant)
        BY <1>2, <3>3, CloseStep
      <4>2. Pending.kind \in {"map", "phy"}
        BY <2>5, <3>3, PendingFields, UpdateFields DEF DueAfter, Kinds, Reanchoring
      <4>3. Kept.mts = Left.mts /\ Kept.interval = Left.interval
        BY <4>1, <4>2 DEF AppliedTo
      <4> QED BY <2>1, <2>3, <3>1, <4>3
    <3> QED BY <3>2, <3>3
  \* An update of the anchor is applied to a base that is exact.
  <2>6. ASSUME applies
        PROVE  /\ Pending \in UpdateRecord /\ Pending.instant \in Int /\ Pending.offset \in Int
               /\ Pending.place \in {0, WinSize} /\ Pending.place \in Int
               /\ Pending.interval \in Int
               /\ Kept.interval = Pending.interval
               /\ Kept.mts = Base + d * i + Pending.offset
                     + ((link.n + d) - Pending.instant) * (Pending.interval - i)
               /\ Placed(0 - Pending.place, ghost'.unplaced)
    <3>1. Pending \in UpdateRecord
      BY <2>6, PendingFields DEF DueAfter
    <3>2. /\ Pending.instant \in Int /\ Pending.offset \in Int
          /\ Pending.place \in {0, WinSize} /\ Pending.place \in Int /\ Pending.interval \in Int
          /\ Pending.interval \in Intervals
      BY <2>6, <3>1, AnchorTypes
    <3>3. AppliedTo(Left, Kept, Pending, (link.n + Gone) - Pending.instant)
      BY <1>2, <2>6, CloseStep
    <3>4. Kept.interval = Pending.interval
      BY <2>6, <3>3 DEF AppliedTo, Reanchoring
    <3>5. CASE Pending.kind = "conn"
      <4>1. Kept.mts = Left.mts + Pending.offset
                  + ((link.n + Gone) - Pending.instant) * (Pending.interval - Left.interval)
            /\ Kept.firstWin = WinSize + 2 * Guard + Steady
        BY <3>3, <3>5 DEF AppliedTo
      <4>2. ghost'.unplaced = TRUE
        BY <1>2, <2>6, <3>5, ClosedGhost
      <4> QED BY <2>1, <2>3, <3>1, <3>2, <3>4, <4>1, <4>2, PlacedAnew
    <3>6. CASE Pending.kind = "rate"
      <4>1. Kept.mts = Left.mts + Pending.offset
            /\ Kept.firstWin = Least(2 * Guard + Steady, Pending.interval)
        BY <3>3, <3>6 DEF AppliedTo
      <4>2. Pending.instant = link.n + Gone /\ ghost'.unplaced \in BOOLEAN
        BY <1>2, <2>6, <3>6, ClosedGhost
      <4>3. Pending.place = 0
        BY <3>1, <3>6, UpdateFields
      <4>4. ((link.n + d) - Pending.instant) * (Pending.interval - i) = 0
        <5>1. (link.n + d) - Pending.instant = 0 /\ Pending.interval - i \in Int
          BY <2>1, <3>2, <4>2
        <5> QED BY <5>1
      <4>5. Kept.mts = Base + d * i + Pending.offset
                     + ((link.n + d) - Pending.instant) * (Pending.interval - i)
        BY <2>1, <3>2, <4>1, <4>4
      <4>6. 0 - Pending.place = 0
        BY <4>3
      <4> QED BY <3>1, <3>2, <3>4, <4>1, <4>2, <4>5, <4>6, PlacedAnew
    <3> QED BY <2>6, <3>5, <3>6 DEF Reanchoring
  \* A slot that owes nothing.
  <2>7. ASSUME ~Reanchors
        PROVE  i = link.interval /\ Placed(Base, ghost.unplaced /\ ~Heard)
    <3>1. i = link.interval /\ Placed(slot.mts, ghost.unplaced)
      BY <2>2, <2>4, <2>7 DEF AnchorInv
    <3>2. CASE Heard
      BY <2>3, <3>1, <3>2, PlacedAnew DEF Base
    <3>3. CASE ~Heard
      <4>1. (ghost.unplaced /\ ~Heard) = ghost.unplaced
        BY <2>4, <3>3
      <4> QED BY <2>3, <3>1, <3>3, <4>1 DEF Base
    <3> QED BY <3>2, <3>3
  <2>8. /\ slot'.active /\ slot'.interval = Kept.interval /\ slot'.firstWin = Kept.firstWin
        /\ slot'.mts = Kept.mts - Distance(Gone) /\ Distance(Gone) \in Int
        /\ link'.n = link.n + Gone
        /\ link'.interval = IF takes THEN upd.interval ELSE link.interval
        /\ ~takes => Distance(Gone) = d * link.interval
        /\ takes => upd \in UpdateRecord
    BY <1>2, ClosedAnchor
  <2>9. takes =>
          /\ upd.instant \in Int /\ upd.interval \in Int /\ upd.offset \in Int
          /\ upd.place \in Int
          /\ Distance(Gone) = (upd.instant - link.n) * link.interval + upd.offset + upd.place
                               + ((link.n + d) - upd.instant) * upd.interval
    <3> SUFFICES ASSUME takes
                 PROVE  /\ upd.instant \in Int /\ upd.interval \in Int /\ upd.offset \in Int
                        /\ upd.place \in Int
                        /\ Distance(Gone) =
                             (upd.instant - link.n) * link.interval + upd.offset + upd.place
                               + ((link.n + d) - upd.instant) * upd.interval
      OBVIOUS
    <3>1. /\ upd.instant \in Int /\ upd.interval \in Int /\ upd.offset \in Int
          /\ upd.place \in Int
      BY <2>8, AnchorTypes
    <3>2. Distance(Gone) = (upd.instant - link.n) * link.interval + upd.offset + upd.place
                             + (link.n + Gone - upd.instant) * upd.interval
      BY <1>2, ClosedAnchor
    <3>3. link.n + Gone - upd.instant = (link.n + d) - upd.instant
      BY <2>1, <3>1
    <3> QED BY <3>1, <3>2, <3>3
  <2>10. /\ Reanchors' <=> \/ UntoldInForce /\ Reanchoring(upd)
                           \/ takes /\ ~upd.told
         /\ Reanchors' => Behind' = upd /\ upd \in UpdateRecord
         /\ UntoldInForce => ~TakesEffect(Gone) /\ ~DueAfter
    BY <1>2, ClosedReanchors
  <2>11. /\ TakesEffect(Gone) /\ upd.told => DueAfter /\ ~PendingInForce
         /\ DueAfter /\ ~PendingInForce => TakesEffect(Gone) /\ upd = Tell(Pending) /\ upd.told
         /\ PendingInForce => DueAfter
    BY <1>2, CloseApplies
  <2>12. /\ Reanchors <=> \/ PendingInForce /\ Reanchoring(Pending)
                          \/ UntoldInForce /\ Reanchoring(upd)
         /\ PendingInForce /\ Reanchoring(Pending) => Behind = Pending
         /\ UntoldInForce => slot.pending = NoUpdate /\ Behind = upd
    BY ReanchorsMeans
  <2>13. DueAfter /\ ~PendingInForce =>
           /\ Reanchoring(upd) <=> Reanchoring(Pending)
           /\ Reanchoring(upd) =>
                /\ upd.instant = Pending.instant /\ upd.interval = Pending.interval
                /\ upd.offset = Pending.offset /\ upd.place = Pending.place
    BY <2>11, PendingFields, TellFields DEF DueAfter, Reanchoring
  <2>14. CASE ~Reanchors /\ ~takes
    <3>1. ~applies /\ ~Reanchors'
      BY <2>10, <2>11, <2>12, <2>13, <2>14
    <3>2. slot'.mts = Base
      BY <2>1, <2>5, <2>7, <2>8, <2>14, <3>1
    <3> QED BY <2>5, <2>7, <2>8, <2>14, <3>1, <3>2
  <2>15. CASE ~Reanchors /\ takes /\ upd.told
    <3>1. applies /\ ~Reanchors'
      BY <2>10, <2>11, <2>13, <2>15
    <3>2. upd.instant = Pending.instant /\ upd.interval = Pending.interval
          /\ upd.offset = Pending.offset /\ upd.place = Pending.place
      BY <2>11, <2>13, <2>15
    <3>3. Base = 0
      <4>1. ~(ghost.unplaced /\ ~Heard)
        BY <1>2, <3>1, ClosedGhost
      <4> QED BY <2>7, <2>15, <4>1 DEF Placed
    <3>4. upd.instant \in Int /\ upd.interval \in Int /\ upd.offset \in Int /\ upd.place \in Int
      BY <2>9, <2>15
    <3> DEFINE L == (link.n + d) - upd.instant
               before == (upd.instant - link.n) * i
               after == L * upd.interval
               extra == L * (upd.interval - i)
               usual == d * i
    <3>5. after \in Int /\ extra \in Int /\ before \in Int /\ usual \in Int
          /\ usual + extra = before + after
      <4>1. after \in Int /\ extra \in Int
        BY <2>0, <3>4, Compensation
      <4>2. before \in Int /\ usual \in Int
        BY <2>0, <3>4, Compensation
      <4>3. usual + extra = before + after
        BY <2>0, <3>4, Compensation
      <4> QED BY <4>1, <4>2, <4>3
    <3>6. Kept.mts = Base + usual + upd.offset + extra
      BY <2>6, <3>1, <3>2
    <3>7. Distance(Gone) = before + upd.offset + upd.place + after
      BY <2>7, <2>9, <2>15
    <3> HIDE DEF before, after, extra, usual
    <3>8. slot'.mts = 0 - upd.place
      BY <2>1, <2>8, <3>3, <3>4, <3>5, <3>6, <3>7
    <3> QED BY <2>6, <2>8, <2>15, <3>1, <3>2, <3>8
  <2>16. CASE ~Reanchors /\ takes /\ ~upd.told
    <3>1. ~applies /\ Reanchors' /\ Behind' = upd
      BY <2>10, <2>11, <2>12, <2>13, <2>16
    <3>2. upd.instant \in Int /\ upd.interval \in Int /\ upd.offset \in Int /\ upd.place \in Int
      BY <2>9, <2>16
    <3> DEFINE L == (link.n + d) - upd.instant
               before == (upd.instant - link.n) * i
               after == L * upd.interval
               extra == L * (upd.interval - i)
               usual == d * i
    <3>3. after \in Int /\ extra \in Int /\ before \in Int /\ usual \in Int
          /\ usual + extra = before + after
      <4>1. after \in Int /\ extra \in Int
        BY <2>0, <3>2, Compensation
      <4>2. before \in Int /\ usual \in Int
        BY <2>0, <3>2, Compensation
      <4>3. usual + extra = before + after
        BY <2>0, <3>2, Compensation
      <4> QED BY <4>1, <4>2, <4>3
    <3>4. Distance(Gone) = before + upd.offset + upd.place + after
      BY <2>7, <2>9, <2>16
    <3>5. Owed(Behind)' = upd.offset + upd.place + extra
      BY <2>5, <2>8, <3>1 DEF Owed
    <3>6. Kept.mts = Base + usual
      BY <2>5, <3>1
    <3> HIDE DEF before, after, extra, usual
    <3>7. slot'.mts + Owed(Behind)' = Base
      <4>1. slot'.mts = Kept.mts - Distance(Gone)
        BY <2>8
      <4>2. slot'.mts = (Base + usual) - (before + upd.offset + upd.place + after)
        BY <3>4, <3>6, <4>1
      <4>3. slot'.mts + (upd.offset + upd.place + extra) = Base
        <5>1. ((Base + usual) - (before + upd.offset + upd.place + after))
                + (upd.offset + upd.place + extra) = Base
          BY <2>0, <3>2, <3>3
        <5> QED BY <4>2, <5>1
      <4> QED BY <3>5, <4>3
    <3> QED BY <2>5, <2>7, <2>8, <2>16, <3>1, <3>7
  <2>17. CASE PendingInForce /\ Reanchoring(Pending)
    <3>1. applies /\ Reanchors /\ Behind = Pending /\ ~UntoldInForce
      BY <2>10, <2>11, <2>12, <2>17
    <3>2. ~ghost.reanchored /\ ~Heard /\ ~ghost.unplaced
      BY <1>2, <3>1, ClosedGhost
    <3>3. link.interval = Pending.interval /\ slot.mts + Owed(Pending) = 0
      BY <2>2, <2>4, <3>1, <3>2 DEF AnchorInv, Placed
    <3>4. Base = slot.mts
      BY <3>2 DEF Base
    <3>5. Pending.instant \in Int /\ Pending.interval \in Int /\ Pending.offset \in Int
          /\ Pending.place \in Int
      BY <2>6, <3>1
    <3> DEFINE L == (link.n + d) - Pending.instant
               owed == (link.n - Pending.instant) * (Pending.interval - i)
               extra == L * (Pending.interval - i)
               usual == d * i
               anew == d * Pending.interval
    <3>6. extra \in Int /\ owed \in Int /\ anew \in Int /\ usual \in Int
          /\ usual + extra = owed + anew
      BY <2>0, <3>5, Compensation
    <3>7. slot.mts + (Pending.offset + Pending.place + owed) = 0
      BY <3>3 DEF Owed
    <3>8. Kept.mts = Base + usual + Pending.offset + extra
      BY <2>6, <3>1
    <3> HIDE DEF owed, extra, usual
    <3>9. Kept.mts = anew - Pending.place
      <4> HIDE DEF anew
      <4> QED BY <2>0, <3>4, <3>5, <3>6, <3>7, <3>8
    <3>10. CASE ~takes
      <4>1. ~Reanchors'
        BY <2>10, <3>1, <3>10
      <4>2. Distance(Gone) = anew
        BY <2>8, <3>3, <3>10
      <4> HIDE DEF anew
      <4>3. slot'.mts = 0 - Pending.place
        BY <2>8, <3>5, <3>6, <3>9, <4>2
      <4> QED BY <2>6, <2>8, <3>1, <3>3, <3>10, <4>1, <4>3
    <3>11. CASE takes
      <4>1. ~upd.told /\ Reanchors' /\ Behind' = upd
        BY <2>10, <2>11, <2>17, <3>11
      <4>2. upd.instant \in Int /\ upd.interval \in Int /\ upd.offset \in Int
            /\ upd.place \in Int
        BY <2>9, <3>11
      <4> DEFINE M == (link.n + d) - upd.instant
                 before == (upd.instant - link.n) * Pending.interval
                 after == M * upd.interval
                 more == M * (upd.interval - Pending.interval)
      <4>3. after \in Int /\ more \in Int /\ before \in Int /\ anew + more = before + after
        BY <2>0, <3>5, <4>2, Compensation
      <4>4. Distance(Gone) = before + upd.offset + upd.place + after
        BY <2>9, <3>3, <3>11
      <4>5. Owed(Behind)' = upd.offset + upd.place + more
        BY <2>6, <2>8, <3>1, <4>1 DEF Owed
      <4> HIDE DEF before, after, more, anew
      <4>6. slot'.mts + Owed(Behind)' = 0 - Pending.place
        BY <2>8, <3>5, <3>6, <3>9, <4>2, <4>3, <4>4, <4>5
      <4> QED BY <2>6, <2>8, <3>1, <3>11, <4>1, <4>6
    <3> QED BY <3>10, <3>11
  <2>18. CASE UntoldInForce /\ Reanchoring(upd)
    <3>1. ~applies /\ ~DueAfter /\ ~takes /\ Reanchors /\ Behind = upd
          /\ Reanchors' /\ Behind' = upd /\ upd \in UpdateRecord
      BY <2>10, <2>12, <2>18
    <3>2. link.interval = upd.interval
      BY <2>2, <2>4, <3>1 DEF AnchorInv
    <3>3. ghost'.reanchored <=> ghost.reanchored \/ Heard
      BY <1>2, <3>1, ClosedGhost
    <3>4. Kept.firstWin = Left.firstWin
      BY <1>2, <3>1, CloseStep
    <3> SUFFICES ASSUME ~ghost'.reanchored
                 PROVE  Placed(slot'.mts + Owed(Behind)', ghost'.unplaced)
      BY <2>8, <3>1, <3>2
    <3>5. Placed(slot.mts + Owed(upd), ghost.unplaced) /\ ~Heard
      BY <2>2, <2>4, <3>1, <3>3 DEF AnchorInv
    <3>6. /\ upd.instant \in Int /\ upd.interval \in Int /\ upd.offset \in Int
          /\ upd.place \in Int
      BY <2>18, <3>1, AnchorTypes
    <3> DEFINE L == (link.n + d) - upd.instant
               owed == (link.n - upd.instant) * (upd.interval - i)
    <3>7. /\ L * (upd.interval - i) \in Int /\ owed \in Int /\ d * upd.interval \in Int
          /\ d * i + L * (upd.interval - i) = owed + d * upd.interval
      BY <2>0, <3>6, Compensation
    <3>8. Owed(Behind)' = upd.offset + upd.place + L * (upd.interval - i)
      BY <2>5, <2>8, <3>1 DEF Owed
    <3>9. Owed(upd) = upd.offset + upd.place + owed
      BY DEF Owed
    <3>10. Base = slot.mts /\ slot'.mts = slot.mts + d * i - d * upd.interval
      BY <2>1, <2>5, <2>8, <3>1, <3>2, <3>5 DEF Base
    <3> HIDE DEF L, owed
    <3>11. slot'.mts + Owed(Behind)' = slot.mts + Owed(upd)
      BY <2>1, <3>6, <3>7, <3>8, <3>9, <3>10
    <3>12. ghost'.unplaced = ghost.unplaced
      BY <2>4, <2>5, <3>1, <3>5
    <3>13. slot'.firstWin = slot.firstWin
      BY <2>3, <2>8, <3>4, <3>5
    <3> QED BY <3>5, <3>11, <3>12, <3>13
  <2> QED BY <2>12, <2>14, <2>15, <2>16, <2>17, <2>18
<1> QED BY <1>1, <1>2


LEMMA AnchorStep ==
  ASSUME Follows, AnchorInv, [Next]_vars
  PROVE  AnchorInv'
<1>1. CASE UNCHANGED vars
  BY <1>1 DEF vars, AnchorInv, Reanchors, Overdue, Behind, Owed, Pending
<1>2. CASE Next
  BY <1>2, NextSteps, AnchorAnnounced, AnchorHeard, AnchorHinted, AnchorOpened, AnchorClosed
     DEF Follows
<1> QED BY <1>1, <1>2

\* An update leaves a first window that is wide enough.
LEMMA FirstApplied ==
  ASSUME NEW s \in SlotRecord, NEW r, NEW u \in UpdateRecord, NEW late,
         AppliedTo(s, r, u, late),
         s.firstWin # 0 => s.firstWin >= Least(2 * Guard + Steady, s.interval)
  PROVE  /\ r.firstWin # 0 => r.firstWin >= Least(2 * Guard + Steady, r.interval)
         /\ u.kind = "map" => r.firstWin = s.firstWin /\ r.interval = s.interval
         /\ u.kind = "phy" => r.firstWin # 0
         /\ u.kind = "conn" =>
              r.firstWin = WinSize + 2 * Guard + Steady /\ r.interval \in ConnIntervals
<1>1. /\ Guard \in Nat /\ Steady \in Nat /\ Coded \in Nat /\ WinSize \in Nat
      /\ 0 < Coded /\ Steady <= 2 * Guard + Coded
  BY WindowsAssumption
<1>2. s.interval \in Nat /\ s.firstWin \in Nat
  BY SlotNumbers
<1>3. CASE u.kind = "map"
  BY <1>3 DEF AppliedTo
<1>4. CASE u.kind = "phy"
  BY <1>1, <1>2, <1>4 DEF AppliedTo, Least
<1>5. CASE u.kind = "conn"
  <2>1. u.interval \in ConnIntervals /\ u.interval \in Nat
    BY <1>5, UpdateFields, ConstantTypes
  <2> QED BY <1>1, <1>5, <2>1 DEF AppliedTo, Least
<1>6. CASE u.kind = "rate"
  <2>1. u.interval \in Nat
    BY <1>6, UpdateFields, ConstantTypes
  <2> QED BY <1>1, <1>6, <2>1 DEF AppliedTo, Least
<1> QED BY <1>3, <1>4, <1>5, <1>6, UpdateFields DEF Kinds

LEMMA FirstStep ==
  ASSUME Follows, FirstInv, [Next]_vars
  PROVE  FirstInv'
<1> USE DEF Follows
<1>0. ghost \in GhostRecord /\ slot \in SlotRecord /\ link.n \in Nat
  BY DEF Types, LinkRecord
<1>1. CASE TeachesNothing \/ TeachesUpdate
  <2>1. /\ slot'.active = slot.active /\ slot'.firstWin = slot.firstWin
        /\ slot'.interval = slot.interval
    BY <1>1 DEF TeachesNothing, TeachesUpdate, Hears
  <2>2. (ghost.anchorLost => ghost'.anchorLost) /\ ghost'.unplaced = ghost.unplaced
    BY <1>1, ForgetFields DEF TeachesNothing, TeachesUpdate
  <2> QED BY <2>1, <2>2 DEF FirstInv
<1>2. CASE Hint
  <2>1. /\ slot' = [slot EXCEPT !.pending = InHand(upd, TRUE)]
        /\ ghost' = IF slot.pending = NoUpdate THEN ghost ELSE Miss(ghost, Pending)
    BY <1>2, HintStep
  <2>2. (ghost.anchorLost => ghost'.anchorLost) /\ ghost'.unplaced = ghost.unplaced
    BY <1>0, <2>1, MissFields
  <2>3. /\ slot'.active = slot.active /\ slot'.firstWin = slot.firstWin
        /\ slot'.interval = slot.interval
    BY <1>0, <2>1 DEF SlotRecord
  <2> QED BY <2>2, <2>3 DEF FirstInv
<1>3. CASE AnnounceUnheard
  BY <1>3, AnnounceStep, ForgetFields DEF FirstInv
<1>4. CASE ServeOpen
  <2>1. /\ slot'.active = slot.active /\ slot'.firstWin = Opened.firstWin
        /\ slot'.interval = Opened.interval /\ ghost' = NoteApplied(slot, ghost)
    BY <1>4, OpenStep, OpenedFields
  <2>2. Near(slot, link.n) /\ (IsDue(slot, link.n) <=> PendingInForce)
    BY <1>4, NearNow DEF ServeOpen
  <2>3. CASE ~PendingInForce
    BY <1>0, <1>4, <2>1, <2>2, <2>3, OpenStep, NoteAppliedFields DEF FirstInv
  <2>4. CASE PendingInForce
    <3>1. AppliedTo(slot, Opened, Pending, link.n - Pending.instant) /\ Pending \in UpdateRecord
      BY <1>4, <2>4, OpenStep, PendingFields DEF PendingInForce
    <3>2. /\ ghost'.anchorLost <=>
               \/ ghost.anchorLost
               \/ Pending.kind = "rate" /\ Pending.instant # link.n
               \/ Pending.kind \in {"conn", "rate"} /\ (ghost.reanchored \/ ghost.unplaced)
               \/ Pending.kind = "phy" /\ ghost.unplaced
          /\ ghost'.unplaced <=> ghost.unplaced \/ Pending.kind = "conn"
      BY <1>0, <2>1, <2>2, <2>4, NoteAppliedFields DEF Pending
    <3>3. Pending.kind \in Kinds
      BY <3>1, UpdateFields
    <3> QED BY <1>0, <2>1, <3>1, <3>2, <3>3, FirstApplied DEF FirstInv, Kinds
  <2> QED BY <2>3, <2>4
<1>5. CASE ServeClose
  <2>1. win.open
    BY <1>5, CloseStep
  <2>2. CASE ~Accounted.active
    BY <1>5, <2>1, <2>2, CloseStep, AccountedFields DEF FirstInv
  <2>3. CASE Accounted.active
    <3>1. /\ Left \in SlotRecord /\ Near(Left, link.n + Gone)
          /\ (IsDue(Left, link.n + Gone) <=> DueAfter) /\ Left.pending = slot.pending
          /\ Left.interval = slot.interval
          /\ Left.firstWin = IF Heard THEN 0 ELSE slot.firstWin
      BY <2>1, LeftFields
    <3>2. link.n + Gone \in Nat
      BY <1>5, <2>3, ClosedFields
    <3>3. /\ slot'.firstWin = Kept.firstWin /\ slot'.interval = Kept.interval
          /\ ghost' = NoteApplied(Left, GhostLeft)
      BY <1>5, <2>3, ClosedFields, CloseStep
    <3>4. GhostLeft \in GhostRecord /\ (GhostLeft.unplaced <=> ghost.unplaced /\ ~Heard)
          /\ GhostLeft.anchorLost = ghost.anchorLost
      BY GhostLeftFields
    <3>5. /\ Left.firstWin # 0 => Left.firstWin >= Least(2 * Guard + Steady, Left.interval)
          /\ GhostLeft.unplaced /\ ~GhostLeft.anchorLost =>
               /\ Left.firstWin = WinSize + 2 * Guard + Steady
               /\ Left.interval \in ConnIntervals
      BY <2>1, <3>1, <3>4, OpenFields DEF FirstInv
    <3>6. CASE ~DueAfter
      <4>1. Kept = Left /\ ghost' = GhostLeft
        BY <1>5, <2>3, <3>1, <3>2, <3>3, <3>4, <3>6, CloseStep, NoteAppliedFields
      <4> QED BY <3>3, <3>5, <4>1 DEF FirstInv
    <3>7. CASE DueAfter
      <4>1. /\ AppliedTo(Left, Kept, Pending, (link.n + Gone) - Pending.instant)
            /\ Pending \in UpdateRecord
        BY <1>5, <2>3, <3>7, CloseStep, PendingFields DEF DueAfter
      <4>2. /\ ghost'.anchorLost <=>
                 \/ GhostLeft.anchorLost
                 \/ Pending.kind = "rate" /\ Pending.instant # link.n + Gone
                 \/ Pending.kind \in {"conn", "rate"}
                      /\ (GhostLeft.reanchored \/ GhostLeft.unplaced)
                 \/ Pending.kind = "phy" /\ GhostLeft.unplaced
            /\ ghost'.unplaced <=> GhostLeft.unplaced \/ Pending.kind = "conn"
        BY <3>1, <3>2, <3>3, <3>4, <3>7, NoteAppliedFields DEF Pending
      <4>3. Pending.kind \in Kinds
        BY <4>1, UpdateFields
      <4> QED BY <3>1, <3>3, <3>5, <4>1, <4>2, <4>3, FirstApplied DEF FirstInv, Kinds
    <3> QED BY <3>6, <3>7
  <2> QED BY <2>2, <2>3
<1>6. CASE UNCHANGED vars
  BY <1>6 DEF vars, FirstInv
<1> QED BY <1>1, <1>2, <1>3, <1>4, <1>5, <1>6, NextSteps

\* A window is opened a lead ahead of the anchor the slot kept to, and is as
\* wide as what the slot has just been told asks for.
LEMMA WindowStep ==
  ASSUME Follows, AnchorInv, FirstInv, WindowInv, [Next]_vars
  PROVE  WindowInv'
<1> USE DEF Follows
<1>0. ghost \in GhostRecord /\ slot \in SlotRecord
  BY DEF Types
<1>1. CASE TeachesNothing \/ TeachesUpdate
  <2>1. /\ win.open /\ win'.from = win.from /\ win'.to = win.to /\ win'.informed = win.informed
        /\ win'.armed = win.armed /\ win'.moved = win.moved /\ slot'.head = slot.head
        /\ slot'.firstWin = slot.firstWin /\ slot'.interval = slot.interval
    BY <1>1 DEF TeachesNothing, TeachesUpdate, Hears
  <2>2. ghost.anchorLost => ghost'.anchorLost
    BY <1>1, ForgetFields DEF TeachesNothing, TeachesUpdate
  <2> QED BY <2>1, <2>2 DEF WindowInv, Fits
<1>2. CASE Hint
  <2>1. /\ win' = win /\ slot' = [slot EXCEPT !.pending = InHand(upd, TRUE)]
        /\ ghost' = IF slot.pending = NoUpdate THEN ghost ELSE Miss(ghost, Pending)
    BY <1>2, HintStep
  <2>2. ghost.anchorLost => ghost'.anchorLost
    BY <1>0, <2>1, MissFields
  <2>3. /\ slot'.head = slot.head /\ slot'.firstWin = slot.firstWin
        /\ slot'.interval = slot.interval
    BY <1>0, <2>1 DEF SlotRecord
  <2> QED BY <2>1, <2>2, <2>3 DEF WindowInv, Fits
<1>3. CASE AnnounceUnheard
  <2>1. slot' = slot /\ win' = win
    BY <1>3, AnnounceStep
  <2>2. ghost' = Forget(ghost)
    BY <1>3, AnnounceStep
  <2>3. ghost.anchorLost => ghost'.anchorLost
    BY <1>0, <2>2, ForgetFields
  <2> QED BY <2>1, <2>3 DEF WindowInv, Fits
<1>4. CASE ServeOpen
  <2>1. /\ win'.from = From /\ win'.to = From + Window(Opened) /\ win'.armed = slot.phy
        /\ win'.informed = ~UntoldInForce /\ link' = link /\ upd' = upd
        /\ win'.moved = (PendingInForce /\ Pending.kind \in {"conn", "rate"})
        /\ Opened \in SlotRecord /\ slot.active
    BY <1>4, OpenStep
  <2>2. /\ slot'.pending = (IF PendingInForce THEN NoUpdate ELSE slot.pending)
        /\ slot'.active = slot.active /\ slot'.mts = Opened.mts /\ slot'.head = slot.head
        /\ slot'.firstWin = Opened.firstWin /\ slot'.interval = Opened.interval
    BY <1>4, OpenedFields
  <2> SUFFICES ASSUME Fits' PROVE win'.from <= 0 /\ \A y \in Phys : Preamble[y] <= win'.to
    BY DEF WindowInv
  <2> SUFFICES ASSUME NEW y \in Phys PROVE win'.from <= 0 /\ Preamble[y] <= win'.to
    BY DEF Phys
  <2>3. ~Reanchors'
    BY <2>1, <2>2 DEF Reanchors, Overdue, PendingInForce, Pending, UntoldInForce, InForce, Fits
  <2>4. Placed(Opened.mts, ghost'.unplaced)
    BY <1>4, <2>1, <2>2, <2>3, AnchorOpened DEF AnchorInv, Fits
  <2>5. /\ Opened.mts = slot.mts /\ Opened.interval = slot.interval
        /\ Opened.firstWin = 0 => Opened.phy = slot.phy
    <3>1. CASE ~PendingInForce
      BY <1>4, <3>1, OpenStep
    <3>2. CASE PendingInForce
      <4>1. AppliedTo(slot, Opened, Pending, link.n - Pending.instant) /\ Pending \in UpdateRecord
        BY <1>4, <3>2, OpenStep, PendingFields DEF PendingInForce
      <4>2. Pending.kind \in {"map", "phy"}
        BY <2>1, <3>2, <4>1, UpdateFields DEF Fits, Kinds
      <4>3. Pending.kind = "phy" => Opened.firstWin # 0
        BY <1>0, <4>1, FirstApplied DEF FirstInv
      <4> QED BY <4>1, <4>2, <4>3 DEF AppliedTo
    <3> QED BY <3>1, <3>2
  <2> DEFINE g == OpenLead(slot.phy, slot.interval)
             p == Preamble[y]
             i == slot.interval
             first == Opened.firstWin
  <2>6. /\ slot.phy \in Phys /\ i \in Intervals /\ i \in Nat /\ slot.mts \in Int
        /\ slot.head \in Nat /\ first \in Nat
    BY <1>0, <2>1, SlotNumbers DEF SlotRecord
  <2>7. /\ g \in Nat /\ p \in Nat /\ Preamble[slot.phy] \in Nat /\ Preamble[slot.phy] <= g
        /\ p <= Steady /\ p <= Coded /\ LateLead + g + p <= i
        /\ i \in ConnIntervals => LateLead + g + p + WinSize <= i
        /\ i <= LongestFirst => g + p <= 2 * Guard + Steady
    BY <2>6, LeadIs
  <2>8. /\ Guard \in Nat /\ Steady \in Nat /\ Coded \in Nat /\ WinSize \in Nat /\ LateLead \in Nat
        /\ 0 < Steady
    BY WindowsAssumption
  <2>9. /\ -WinSize <= slot.mts /\ slot.mts <= 0
        /\ ~ghost'.unplaced => slot.mts = 0
    BY <2>4, <2>5 DEF Placed
  <2>10. /\ first # 0 => first >= Least(2 * Guard + Steady, i)
         /\ ghost'.unplaced => first = WinSize + 2 * Guard + Steady /\ i \in ConnIntervals
    BY <1>4, <2>1, <2>2, <2>5, FirstStep DEF FirstInv, Fits
  <2>11. slot.head <= Preamble[slot.phy] /\ (first = 0 \/ i <= LongestFirst)
    BY <2>1, <2>2, <2>5 DEF Fits
  <2>12. From = slot.mts + slot.head - g
    BY DEF From, OpenGuard
  <2>13. /\ Window(Opened) \in Int
         /\ Window(Opened) >= Usual(Opened) \/ Window(Opened) = i - LateLead
    BY <2>1, <2>5, WindowIs
  <2>14. Usual(Opened) = IF first # 0 THEN first
                         ELSE 2 * g + (IF slot.phy = "Coded" THEN Coded ELSE Steady)
    BY <2>5 DEF Usual, OpenGuard
  <2> HIDE DEF g, p, i, first
  <2>15. win'.from <= 0
    BY <2>1, <2>6, <2>7, <2>8, <2>9, <2>11, <2>12
  <2>16. CASE Window(Opened) = i - LateLead
    BY <2>1, <2>6, <2>7, <2>8, <2>9, <2>10, <2>12, <2>15, <2>16 DEF p
  <2>17. CASE Window(Opened) >= Usual(Opened)
    <3>1. slot.mts - g + Usual(Opened) >= p
      <4>1. CASE first = 0
        BY <2>6, <2>7, <2>8, <2>9, <2>10, <2>14, <4>1
      <4>2. CASE first # 0 /\ ghost'.unplaced
        BY <2>6, <2>7, <2>8, <2>9, <2>10, <2>11, <2>14, <4>2
      <4>3. CASE first # 0 /\ ~ghost'.unplaced
        <5>1. first >= 2 * Guard + Steady \/ first >= i
          BY <2>6, <2>8, <2>10, <4>3 DEF Least
        <5> QED BY <2>6, <2>7, <2>8, <2>9, <2>11, <2>14, <4>3, <5>1
      <4> QED BY <4>1, <4>2, <4>3
    <3>2. Usual(Opened) \in Int
      BY <2>6, <2>7, <2>8, <2>14
    <3>3. p <= win'.to
      BY <2>1, <2>6, <2>7, <2>12, <2>13, <2>17, <3>1, <3>2
    <3> QED BY <2>15, <3>3 DEF p
  <2> QED BY <2>13, <2>15, <2>16, <2>17 DEF p
<1>5. CASE ServeClose
  BY <1>5, CloseStep DEF WindowInv, Closed
<1>6. CASE UNCHANGED vars
  BY <1>6 DEF vars, WindowInv, Fits
<1> QED BY <1>1, <1>2, <1>3, <1>4, <1>5, <1>6, NextSteps

----------------------------------------------------------------------------
(* The theorems.                                                           *)

Inv ==
  /\ Follows /\ StaysInformed /\ PhyInv /\ MapInv /\ HopInv /\ DistrustInv
  /\ AnchorInv /\ FirstInv /\ WindowInv

LEMMA InvInit == Init => Inv
<1> SUFFICES ASSUME Init PROVE Inv
  OBVIOUS
<1>1. Follows
  BY TypesInit DEF Follows
<1>2. PICK start \in Starts, k \in SkipsAtStart, csa2 \in BOOLEAN, map \in Maps,
           i \in ConnIntervals, p \in {0, WinSize} : Started(start, k, csa2, map, i, p)
  BY InitMeans
<1> USE DEF Started
<1>3. win.open = FALSE
  BY <1>2 DEF Closed
<1>4. StaysInformed /\ PhyInv /\ MapInv /\ DistrustInv /\ WindowInv
  BY <1>2, <1>3 DEF StaysInformed, PhyInv, MapInv, DistrustInv, WindowInv
<1>5. HopInv
  <2>1. ~slot.csa2 /\ ~ghost.skipped => link.n = 0
    <3>1. start \in Nat /\ k \in Nat
      BY InstantsAssumption
    <3>2. ~ghost.skipped => k = 0
      <4>1. ghost.skipped = (k > 0)
        BY <1>2, Zenon
      <4>2. ~ghost.skipped => ~(k > 0)
        BY <4>1, Zenon
      <4> QED BY <3>1, <4>2
    <3>3. ~slot.csa2 => start = 0
      BY <1>2, <3>1
    <3> QED BY <1>2, <3>2, <3>3
  <2>2. (0 * Hop) % NChannels = 0
    BY ConstantTypes
  <2> QED BY <1>2, <1>3, <2>1, <2>2 DEF HopInv
<1>6. AnchorInv
  <2>1. ~Reanchors
    BY <1>2 DEF Reanchors, Overdue
  <2>2. Placed(-p, TRUE)
    BY <1>2, ConstantTypes DEF Placed
  <2>3. slot.mts = -p /\ slot.firstWin = WinSize + 2 * Guard + Steady /\ ghost.unplaced = TRUE
        /\ slot.interval = link.interval
    BY <1>2
  <2>4. Placed(slot.mts, ghost.unplaced)
    BY <2>2, <2>3, Zenon
  <2> QED BY <2>1, <2>3, <2>4 DEF AnchorInv
<1>7. FirstInv
  <2>1. i \in Nat /\ WinSize + 2 * Guard + Steady >= Least(2 * Guard + Steady, i)
    <3>1. i \in Nat
      BY ConstantTypes
    <3>2. WinSize \in Nat /\ Guard \in Nat /\ Steady \in Nat
      BY WindowsAssumption
    <3> QED BY <3>1, <3>2 DEF Least
  <2> QED BY <1>2, <2>1 DEF FirstInv
<1> QED BY <1>1, <1>4, <1>5, <1>6, <1>7 DEF Inv

LEMMA InvStep ==
  ASSUME Inv, [Next]_vars
  PROVE  Inv'
<1> USE DEF Inv, Follows
<1>1. Follows'
  BY TypesStep, InStepStep, InstantsNearStep, KnowsLastStep, GivenStep
<1>2. StaysInformed'
  BY StaysInformedStep
<1>3. PhyInv' /\ MapInv' /\ HopInv' /\ DistrustInv'
  BY PhyStep, MapStep, HopStep, DistrustStep
<1>4. AnchorInv' /\ FirstInv' /\ WindowInv'
  BY AnchorStep, FirstStep, WindowStep
<1> QED BY <1>1, <1>2, <1>3, <1>4

LEMMA Invariance == Spec => []Inv
BY InvInit, InvStep, PTL DEF Spec

\* TypeOK: the slot's counters, anchor, windows and channels keep their ranges
\* through every hop, update, skip and loss.
THEOREM TypesHold == Spec => []TypeOK
<1>1. Inv => TypeOK
  <2> SUFFICES ASSUME Types PROVE TypeOK
    BY DEF Inv, Follows
  <2>1. /\ link.n \in Nat /\ link.interval \in Intervals
        /\ link.map \in Maps /\ link.phy \in Phys
    BY DEF Types, LinkRecord
  <2>2. /\ slot.cnt \in 0..W-1 /\ slot.mts \in Int /\ slot.head \in Nat /\ slot.interval \in Intervals
        /\ slot.map \in Maps /\ slot.last \in 0..NChannels-1 /\ slot.phy \in Phys
        /\ slot.miss \in 0..Limit /\ slot.base \in 0..W-1
        /\ slot.factor \in Factors \cup {1}
        /\ slot.contLeft \in 0..Continuation
        /\ slot.active \in BOOLEAN /\ slot.encrypted \in BOOLEAN /\ slot.trusted \in BOOLEAN
    BY DEF Types, SlotRecord
  <2>3. win.open \in BOOLEAN
    <3>1. CASE win = Closed
      BY <3>1 DEF Closed
    <3>2. CASE win \in OpenRecord
      BY <3>2 DEF OpenRecord
    <3> QED BY <3>1, <3>2 DEF Types
  <2> QED BY <2>1, <2>2, <2>3 DEF TypeOK
<1> QED BY <1>1, Invariance, PTL

\* A slot told of every update in force listens on the link's PHY, unless it
\* searches for a PHY it may not know (listen_phy): through updates heard in
\* the clear, relayed late by the host, or followed by others.
THEOREM OnLinkPhy == Spec => []ListensOnLinkPhy
<1>1. Inv => ListensOnLinkPhy
  BY DEF Inv, PhyInv, StaysInformed, ListensOnLinkPhy
<1> QED BY <1>1, Invariance, PTL

\* It is on the link's channel as well (channel_for_event): however events
\* are skipped and at any event number, with CSA#2; for CSA#1 as long as none
\* was skipped; unless it probes for a changed map.
THEOREM OnLinkChannel == Spec => []HopsWithLink
<1>1. Inv => HopsWithLink
  <2> SUFFICES ASSUME Inv, win.open, win.informed, ~win.probing, ~UnmappedMode(slot),
                      ~ghost.mapLost, slot.csa2 \/ ~ghost.skipped
               PROVE  win.channel = TrueChannel(link, slot.csa2)
    BY DEF HopsWithLink
  <2>1. slot.map = link.map
    BY DEF Inv, MapInv, StaysInformed
  <2>2. slot.active /\ slot.cnt = link.n % W
    BY DEF Inv, Follows, Types, InStep
  <2>3. CASE slot.csa2
    BY <2>1, <2>2, <2>3 DEF Inv, HopInv, TrueChannel
  <2>4. CASE ~slot.csa2
    <3>1. slot.last = ((link.n + 1) * Hop) % NChannels
      BY <2>2, <2>4 DEF Inv, HopInv
    <3> QED BY <2>1, <2>4, <3>1 DEF Inv, HopInv, TrueChannel
  <2> QED BY <2>3, <2>4
<1> QED BY <1>1, Invariance, PTL

\* serve_close withdraws its trust in the channel map only from a map that did
\* change unheard: a packet on a channel outside it comes from no other.
THEOREM DistrustJustified == Spec => []DistrustIsJustified
<1>1. Inv => DistrustIsJustified
  BY DEF Inv, DistrustInv, DistrustIsJustified
<1> QED BY <1>1, Invariance, PTL

\* The packet of every event the slot listens to lies in the window that
\* serve_open gives it: subrating, yields, misses, updates of interval and
\* offset applied in time or late keep the anchor, or widen the window enough
\* at intervals up to LongestFirst.  An update applied as the window opens, and
\* an anchor measured with a longer preamble, are set aside.
THEOREM PacketInWindow == Spec => []AnchorInWindow
<1>1. Inv => AnchorInWindow
  <2>1. link.phy \in Phys \/ ~Inv
    BY DEF Inv, Follows, Types, LinkRecord
  <2> QED BY <2>1 DEF Inv, WindowInv, Fits, AnchorInWindow, InWindow
<1> QED BY <1>1, Invariance, PTL

\* Neither subrate_skip nor the yield of a relock (yield_event) passes over a
\* subscribed event or the instant of an update in hand, but for the one event
\* that the yield leaves to the guard channel.
THEOREM NothingDueSkipped == Spec => SkipsNothingDue
<1>1. ASSUME Inv, [Next]_vars, win.open, ~win'.open, slot'.active
      PROVE  Cardinality({m \in (link.n + 1)..(link'.n - 1) : MustAttend(slot, m)})
               <= IF YieldsToScan(Account(slot)) THEN 1 ELSE 0
  <2> DEFINE S == {m \in (link.n + 1)..(link'.n - 1) : MustAttend(slot, m)}
  <2>1. Types /\ InStep /\ InstantsNear
    BY <1>1 DEF Inv, Follows
  <2>2. ServeClose
    BY <1>1, <2>1, NextSteps, HintStep, AnnounceStep, OpenStep
       DEF TeachesNothing, TeachesUpdate, Hears, vars
  <2>3. Accounted.active
    BY <1>1, <2>1, <2>2, CloseStep
  <2>4. link'.n = link.n + Gone /\ link.n \in Nat /\ Gone \in Nat
    BY <2>1, <2>2, <2>3, ClosedFields
  <2>5. (link.n + 1)..(link'.n - 1) = link.n + 1 .. link.n + Gone - 1
    BY <2>4
  <2>6. \/ \A j \in (link.n + 1)..(link'.n - 1) : ~MustAttend(slot, j)
        \/ /\ YieldsToScan(Account(slot))
           /\ \E y \in Int : \A j \in ((link.n + 1)..(link'.n - 1)) \ {y} : ~MustAttend(slot, j)
    BY <1>1, <2>1, <2>5, CloseMoves
  <2>7. CASE S = {}
    BY <2>7, FS_EmptySet
  <2>8. CASE S # {}
    <3>1. YieldsToScan(Account(slot))
      BY <2>6, <2>8
    <3>2. PICK y \in Int : S \subseteq {y}
      BY <2>6, <2>8
    <3>3. IsFiniteSet({y}) /\ Cardinality({y}) = 1
      BY FS_Singleton
    <3>4. Cardinality(S) <= 1
      BY <3>2, <3>3, FS_Subset
    <3> QED BY <3>1, <3>4
  <2> QED BY <2>7, <2>8
<1>2. Inv /\ [Next]_vars =>
        [win.open /\ ~win'.open /\ slot'.active =>
           LET due(m) == \/ (m - slot.base) % slot.factor = 0
                         \/ /\ slot.pending # NoUpdate
                            /\ slot.pending.update.instant = m
           IN  Cardinality({m \in (link.n + 1)..(link'.n - 1) : due(m)})
                 <= IF YieldsToScan(Account(slot)) THEN 1 ELSE 0]_vars
  BY <1>1 DEF MustAttend
<1> QED BY <1>2, Invariance, PTL DEF Spec, SkipsNothingDue
=============================================================================
