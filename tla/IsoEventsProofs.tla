---------------------------- MODULE IsoEventsProofs ----------------------------
(***************************************************************************)
(* Proofs about IsoEvents: whatever is lost, served late or skipped, a     *)
(* slot's anchor is the time of an event of its stream and its counter the *)
(* number of that event; the walk through the channels is in step with it; *)
(* and the windows of locked streams leave each other room.                *)
(*                                                                         *)
(* A time is named by a number when it differs from the start of the event *)
(* of that number by no more than clocks and rounding explain.  Naming is  *)
(* kept when time passes, when events are counted on, and when a packet is *)
(* heard: the layout of the events leaves only one packet that a window on *)
(* the subevent's channel can take for the one it was opened for, unless   *)
(* the window is so long that it reaches a later packet (overran).         *)
(***************************************************************************)
EXTENDS IsoEvents, Numbers

----------------------------------------------------------------------------
(* Channels and their numbers.                                             *)

\* The powers of two are positive.
LEMMA PowerIsPositive ==
  \A i \in 0..Bits : 2^i \in Nat /\ 2^i > 0
BY WidthAssumption, PowersAssumption, PowersOfTwo DEF Doubling

LEMMA WIsPositive == W \in Nat \ {0} /\ W % 2 = 0
<1>1. Bits \in Nat \ {0} /\ Bits \in 0..Bits /\ Bits - 1 \in 0..Bits-1
  BY WidthAssumption
<1>2. W \in Nat /\ W > 0
  BY <1>1, PowerIsPositive DEF W
<1>3. 2^(Bits - 1) \in Nat
  <2>1. Bits - 1 \in 0..Bits
    BY <1>1
  <2> QED BY <2>1, PowerIsPositive
<1>4. W = 2 * 2^(Bits - 1)
  <2>1. 2^((Bits - 1) + 1) = 2 * 2^(Bits - 1)
    BY <1>1, PowersAssumption
  <2>2. (Bits - 1) + 1 = Bits
    BY <1>1
  <2> QED BY <2>1, <2>2 DEF W
<1> HIDE DEF W
<1> DEFINE h == 2^(Bits - 1)
<1>5. h \in Nat /\ W = 2 * h
  BY <1>3, <1>4
<1> HIDE DEF h
<1>6. W % 2 = 0
  BY <1>5
<1> QED BY <1>2, <1>6

\* A number written with n bits is below 2^n.
LEMMA NumberBound ==
  ASSUME NEW n \in 0..Bits, NEW b \in [0..n-1 -> {0, 1}]
  PROVE  Number(b, n) \in 0 .. 2^n - 1
<1>1. Bits \in Nat /\ Doubling(Bits)
  BY WidthAssumption, PowersAssumption DEF Doubling
<1>2. (CHOOSE f : Digits(b, n, f))[n] \in 0 .. 2^n - 1
  BY <1>1, DigitsBound
<1> QED BY <1>2 DEF Number, Digits

LEMMA XorType == ASSUME NEW x, NEW y PROVE Xor(x, y) \in 0..W-1
<1> DEFINE b == [i \in 0..Bits-1 |-> IF Bit(x, i) = Bit(y, i) THEN 0 ELSE 1]
<1>1. b \in [0..Bits-1 -> {0, 1}] /\ Bits \in 0..Bits
  BY WidthAssumption
<1> HIDE DEF b
<1>2. Number(b, Bits) \in 0 .. 2^Bits - 1
  BY <1>1, NumberBound
<1> QED BY <1>2 DEF Xor, W, b

LEMMA RemapInMap ==
  ASSUME NEW map \in SUBSET Nat, IsFiniteSet(map), NEW k \in 0 .. Cardinality(map) - 1
  PROVE  Remap(map, k) \in map
BY RankChosen DEF Remap

LEMMA ScaleBound ==
  ASSUME NEW count \in Nat \ {0}, NEW prn \in 0..W-1
  PROVE  Scale(count, prn) \in 0..count-1
BY WIsPositive, ScaledBelow DEF Scale

----------------------------------------------------------------------------
(* The walk through the channels of an event's subevents.                  *)

HopRecord == [lu : 0..W-1, index : 0..Cardinality(Map)-1]

LEMMA MapFacts ==
  /\ W \in Nat \ {0} /\ NChannels \in Nat \ {0}
  /\ Map \in SUBSET Nat /\ IsFiniteSet(Map)
  /\ Cardinality(Map) \in Nat \ {0} /\ Cardinality(Map) > 1
<1>1. W \in Nat \ {0} /\ NChannels \in Nat \ {0}
  BY WIsPositive, WidthAssumption
<1>2. Map \in SUBSET Nat /\ IsFiniteSet(Map) /\ Cardinality(Map) > 1
  BY <1>1, StreamsAssumption
<1>3. Cardinality(Map) \in Nat
  BY <1>2, FS_CardinalityType
<1> QED BY <1>1, <1>2, <1>3

LEMMA BitType ==
  ASSUME NEW x \in Int, NEW i \in 0..Bits
  PROVE  Bit(x, i) \in {0, 1}
<1> DEFINE p == 2^i
<1>1. p \in Nat \ {0}
  BY PowerIsPositive
<1> HIDE DEF p
<1>2. x \div p \in Int
  BY <1>1
<1> DEFINE q == x \div p
<1> HIDE DEF q
<1>3. q % 2 \in {0, 1}
  BY <1>2 DEF q
<1> QED BY <1>3 DEF Bit, p, q

LEMMA PermuteType ==
  ASSUME NEW x \in Int
  PROVE  Permute(x) \in 0..W-1
<1> DEFINE h == Bits \div 2
           b == [i \in 0..Bits-1 |-> IF i < h THEN Bit(x, h - 1 - i) ELSE Bit(x, Bits + h - 1 - i)]
<1>1. Bits \in Nat \ {0} /\ h \in Nat /\ 2 * h <= Bits /\ Bits \in 0..Bits
  BY WidthAssumption
<1> HIDE DEF h
<1>2. \A i \in 0..Bits-1 :
        (i < h => h - 1 - i \in 0..Bits) /\ (~(i < h) => Bits + h - 1 - i \in 0..Bits)
  BY <1>1
<1>3. b \in [0..Bits-1 -> {0, 1}]
  BY <1>2, BitType
<1>4. Number(b, Bits) \in 0 .. 2^Bits - 1
  BY <1>1, <1>3, NumberBound
<1> QED BY <1>4 DEF Permute, W, h

LEMMA RoundType ==
  ASSUME NEW x \in Int, NEW c \in Int
  PROVE  Round(x, c) \in 0..W-1
<1> DEFINE y == Permute(x)
<1>1. y \in Int /\ W \in Nat \ {0}
  <2>1. W \in Nat \ {0}
    BY WIsPositive
  <2> QED BY <2>1, PermuteType
<1> HIDE DEF y
<1>2. y * 17 + c \in Int
  BY <1>1
<1>3. (y * 17 + c) % W \in 0..W-1
  BY <1>1, <1>2, Division
<1> QED BY <1>3 DEF Round, Mam, y

LEMMA PrnSType ==
  ASSUME NEW n \in Int, NEW c \in Int
  PROVE  PrnS(n, c) \in 0..W-1
<1>1. \A z \in 0..W-1 : z \in Int
  OBVIOUS
<1>2. Xor(n, c) \in Int
  BY <1>1, XorType
<1>3. Round(Xor(n, c), c) \in Int
  BY <1>1, <1>2, RoundType
<1>4. Round(Round(Xor(n, c), c), c) \in Int
  BY <1>1, <1>3, RoundType
<1> QED BY <1>4, RoundType DEF PrnS

\* Every channel in use has its own index.
LEMMA IndexOf ==
  ASSUME NEW c \in Map
  PROVE  RemapIndexOf(Map, c) \in 0 .. Cardinality(Map) - 1
<1> DEFINE B == {d \in Map : d < c}
<1>1. B \in SUBSET Map /\ c \in Map /\ c \notin B /\ B # Map
  BY MapFacts
<1>2. Cardinality(B) \in Nat /\ Cardinality(B) < Cardinality(Map)
  BY <1>1, MapFacts, FS_Subset, FS_CardinalityType
<1> QED BY <1>2, MapFacts DEF RemapIndexOf

LEMMA EventHopType ==
  ASSUME NEW n \in Int, NEW c \in Int
  PROVE  IsoEvent(n, c, Map) \in HopRecord
<1> DEFINE lu == PrnS(n, c)
           prn == Xor(lu, c)
           unmapped == prn % NChannels
<1>1. lu \in 0..W-1 /\ prn \in 0..W-1
  BY PrnSType, XorType
<1>2. unmapped \in Map => RemapIndexOf(Map, unmapped) \in 0 .. Cardinality(Map) - 1
  BY IndexOf
<1>3. Scale(Cardinality(Map), prn) \in 0 .. Cardinality(Map) - 1
  BY <1>1, MapFacts, ScaleBound
<1>4. IsoEvent(n, c, Map) = [lu |-> lu, index |-> IF unmapped \in Map THEN RemapIndexOf(Map, unmapped)
                                                  ELSE Scale(Cardinality(Map), prn)]
  BY DEF IsoEvent
<1> HIDE DEF lu, prn, unmapped
<1> QED BY <1>1, <1>2, <1>3, <1>4 DEF HopRecord

LEMMA StepDBound ==
  ASSUME NEW n \in Nat, n > 1
  PROVE  StepD(n) \in Nat /\ StepD(n) >= 1 /\ 2 * StepD(n) <= n
<1>1. (n - 10) \div 2 \in Int /\ 2 * ((n - 10) \div 2) <= n - 10 /\ (n > 10 => (n - 10) \div 2 >= 0)
  OBVIOUS
<1> DEFINE q == (n - 10) \div 2
<1> HIDE DEF q
<1> QED BY <1>1 DEF StepD, Greatest, Least, q

\* From one subevent to the next the index moves on, by less than a round.
LEMMA SubeventMoves ==
  ASSUME NEW hop \in HopRecord, NEW c \in Int
  PROVE  /\ IsoSubevent(hop, c, Map) \in HopRecord
         /\ IsoSubevent(hop, c, Map).index # hop.index
<1> DEFINE lu == Round(hop.lu, c)
           n == Cardinality(Map)
           d == StepD(n)
           x == IF n + 1 > 2 * d THEN n + 1 - 2 * d ELSE 0
           y == Scale(x, Xor(lu, c))
           i == hop.index
           j == (y + d + i) % n
<1>1. n \in Nat /\ n > 1 /\ i \in 0..n-1 /\ hop.lu \in Int
  BY MapFacts DEF HopRecord
<1>2. d \in Nat /\ d >= 1 /\ 2 * d <= n
  <2> HIDE DEF n
  <2> QED BY <1>1, StepDBound
<1>3. lu \in 0..W-1 /\ Xor(lu, c) \in 0..W-1
  BY <1>1, RoundType, XorType
<1>4. IsoSubevent(hop, c, Map) = [lu |-> lu, index |-> j]
  BY DEF IsoSubevent
<1> HIDE DEF lu, n, d, i
<1>5. x \in Nat \ {0} /\ x = n + 1 - 2 * d
  BY <1>1, <1>2
<1>6. y \in 0..x-1
  <2> HIDE DEF x
  <2> QED BY <1>3, <1>5, ScaleBound
<1> HIDE DEF x, y
<1> DEFINE e == y + d
<1>7. e \in 1..n-1
  BY <1>1, <1>2, <1>5, <1>6
<1>8. j = IF e + i < n THEN e + i ELSE e + i - n
  <2>1. e + i = (IF e + i < n THEN 0 ELSE 1) * n + (IF e + i < n THEN e + i ELSE e + i - n)
    BY <1>1, <1>7
  <2>2. (IF e + i < n THEN e + i ELSE e + i - n) \in 0..n-1
    BY <1>1, <1>7
  <2>3. e + i \in Int /\ (IF e + i < n THEN 0 ELSE 1) \in Int /\ n \in Nat \ {0}
    BY <1>1, <1>7
  <2> QED BY <2>1, <2>2, <2>3, RemainderIs
<1>9. j \in 0..n-1 /\ j # i
  BY <1>1, <1>7, <1>8
<1> HIDE DEF j, e
<1> QED BY <1>3, <1>4, <1>9 DEF HopRecord, n, i

LEMMA ChannelsDiffer ==
  ASSUME NEW h \in HopRecord, NEW g \in HopRecord, h.index # g.index
  PROVE  IsoChannel(h, Map) # IsoChannel(g, Map)
<1>1. h.index \in 0..Cardinality(Map)-1 /\ g.index \in 0..Cardinality(Map)-1
  BY DEF HopRecord
<1>2. Cardinality({d \in Map : d < Remap(Map, h.index)}) = h.index
  BY <1>1, MapFacts, RankChosen DEF Remap
<1>3. Cardinality({d \in Map : d < Remap(Map, g.index)}) = g.index
  BY <1>1, MapFacts, RankChosen DEF Remap
<1> QED BY <1>2, <1>3 DEF IsoChannel

\* The walk: from the event's channel through its subevents.
Walk(b, n, last, h) ==
  h = [k \in 0..last |-> IF k = 0 THEN EventHop[b][n] ELSE SubeventHop[b][h[k - 1]]]

LEMMA WalkExists ==
  ASSUME NEW b, NEW n, NEW last \in Nat
  PROVE  \E h : Walk(b, n, last, h)
<1> DEFINE Bad == {k \in 0..last : ~ \E h : Walk(b, n, k, h)}
<1>1. SUFFICES ASSUME Bad # {} PROVE FALSE
  OBVIOUS
<1>2. PICK k \in Bad : \A j \in Bad : k <= j
  <2>1. Bad \in SUBSET Nat
    OBVIOUS
  <2> QED BY <1>1, <2>1, LeastNat
<1>3. k # 0
  <2> DEFINE h == [i \in 0..0 |-> EventHop[b][n]]
  <2>1. h = [i \in 0..0 |-> IF i = 0 THEN EventHop[b][n] ELSE SubeventHop[b][h[i - 1]]]
    OBVIOUS
  <2> HIDE DEF h
  <2>2. Walk(b, n, 0, h)
    BY <2>1 DEF Walk
  <2> QED BY <1>2, <2>2
<1>4. k \in 1..last /\ k - 1 \in 0..last /\ ~(k <= k - 1)
  BY <1>2, <1>3
<1>5. PICK h : Walk(b, n, k - 1, h)
  BY <1>2, <1>4
<1> DEFINE g == [i \in 0..k |-> IF i = k THEN SubeventHop[b][h[k - 1]] ELSE h[i]]
<1>6. ASSUME NEW i \in 0..k
      PROVE  g[i] = IF i = 0 THEN EventHop[b][n] ELSE SubeventHop[b][g[i - 1]]
  <2>1. CASE i = 0
    <3>1. h[0] = EventHop[b][n]
      <4>1. 0 \in 0..k-1
        BY <1>4
      <4> QED BY <1>5, <4>1 DEF Walk
    <3> QED BY <1>4, <2>1, <3>1
  <2>2. CASE i # 0
    <3>1. i - 1 \in 0..k-1 /\ i - 1 \in 0..k /\ i - 1 # k
      BY <1>4, <2>2
    <3>2. g[i - 1] = h[i - 1]
      BY <3>1
    <3>3. g[i] = SubeventHop[b][h[i - 1]]
      <4>1. CASE i = k
        BY <4>1
      <4>2. CASE i # k
        <5>1. i \in 0..k-1 /\ g[i] = h[i]
          BY <1>4, <4>2
        <5> QED BY <1>5, <2>2, <5>1 DEF Walk
      <4> QED BY <4>1, <4>2
    <3> QED BY <2>2, <3>2, <3>3
  <2> QED BY <2>1, <2>2
<1>7. g = [i \in 0..k |-> IF i = 0 THEN EventHop[b][n] ELSE SubeventHop[b][g[i - 1]]]
  <2>1. g = [i \in 0..k |-> g[i]]
    OBVIOUS
  <2> HIDE DEF g
  <2> QED BY <1>6, <2>1
<1> HIDE DEF g
<1>8. Walk(b, n, k, g)
  BY <1>7 DEF Walk
<1> QED BY <1>2, <1>8

HopsOf(b, n) == CHOOSE h : Walk(b, n, Nse - 1, h)

LEMMA EventHopIs ==
  ASSUME NEW b \in 1..NStreams, NEW n \in 0..W-1
  PROVE  EventHop[b][n] \in HopRecord
<1>1. ChanIds[b] \in Int /\ n \in Int /\ EventHop[b][n] = IsoEvent(n, ChanIds[b], Map)
  BY MapFacts, StreamsAssumption DEF EventHop
<1> QED BY <1>1, EventHopType

LEMMA SubeventHopIs ==
  ASSUME NEW b \in 1..NStreams, NEW hop \in HopRecord
  PROVE  SubeventHop[b][hop] \in HopRecord /\ SubeventHop[b][hop].index # hop.index
<1>1. ChanIds[b] \in Int /\ SubeventHop[b][hop] = IsoSubevent(hop, ChanIds[b], Map)
  BY MapFacts, StreamsAssumption DEF SubeventHop, HopRecord
<1> QED BY <1>1, SubeventMoves

LEMMA HopsAre ==
  ASSUME NEW b \in 1..NStreams, NEW n \in 0..W-1
  PROVE  /\ \A k \in 0..Nse-1 : HopsOf(b, n)[k] \in HopRecord
         /\ HopsOf(b, n)[0] = EventHop[b][n]
         /\ \A k \in 1..Nse-1 : HopsOf(b, n)[k] = SubeventHop[b][HopsOf(b, n)[k - 1]]
<1> DEFINE h == HopsOf(b, n)
<1>1. Nse \in Nat \ {0} /\ Nse - 1 \in Nat
  BY StreamsAssumption
<1>2. Walk(b, n, Nse - 1, h)
  BY <1>1, WalkExists DEF HopsOf
<1> HIDE DEF h
<1>3. \A k \in 0..Nse-1 : h[k] = IF k = 0 THEN EventHop[b][n] ELSE SubeventHop[b][h[k - 1]]
  BY <1>2 DEF Walk
<1>4. \A k \in 1..Nse-1 : k \in 0..Nse-1 /\ k - 1 \in 0..Nse-1 /\ k # 0 /\ 0 \in 0..Nse-1
  BY <1>1
<1>5. h[0] = EventHop[b][n] /\ \A k \in 1..Nse-1 : h[k] = SubeventHop[b][h[k - 1]]
  BY <1>1, <1>3, <1>4
<1> DEFINE Bad == {k \in 0..Nse-1 : h[k] \notin HopRecord}
<1>6. Bad = {}
  <2> SUFFICES ASSUME Bad # {} PROVE FALSE
    OBVIOUS
  <2>1. Bad \in SUBSET Nat
    BY <1>1
  <2>2. PICK k \in Bad : \A j \in Bad : k <= j
    BY <2>1, LeastNat
  <2>3. k # 0
    BY <1>5, <2>2, EventHopIs
  <2>4. k \in 1..Nse-1 /\ k - 1 \in 0..Nse-1 /\ ~(k <= k - 1)
    BY <1>1, <2>2, <2>3
  <2>5. h[k - 1] \in HopRecord
    BY <2>2, <2>4
  <2>6. h[k] \in HopRecord
    BY <1>5, <2>4, <2>5, SubeventHopIs
  <2> QED BY <2>2, <2>6
<1> QED BY <1>5, <1>6 DEF h

LEMMA TrueChannelsAre ==
  ASSUME NEW b \in 1..NStreams, NEW n \in 0..W-1, NEW k \in 0..Nse-1
  PROVE  TrueChannels[b][n][k] = IsoChannel(HopsOf(b, n)[k], Map)
BY DEF TrueChannels, HopsOf, Walk

\* Neighbouring subevents are on different channels.
LEMMA NeighboursDiffer ==
  ASSUME NEW b \in 1..NStreams, NEW n \in 0..W-1, NEW k \in 0..Nse-1, NEW l \in 0..Nse-1,
         l = k + 1 \/ k = l + 1
  PROVE  TrueChannels[b][n][k] # TrueChannels[b][n][l]
<1>1. ASSUME NEW i \in 0..Nse-1, NEW j \in 0..Nse-1, j = i + 1
      PROVE  TrueChannels[b][n][i] # TrueChannels[b][n][j]
  <2> DEFINE h == HopsOf(b, n)
  <2>1. j \in 1..Nse-1 /\ j - 1 = i
    BY <1>1, StreamsAssumption
  <2>2. h[i] \in HopRecord /\ h[j] \in HopRecord /\ h[j] = SubeventHop[b][h[i]]
    BY <2>1, HopsAre
  <2>3. h[j].index # h[i].index
    BY <2>2, SubeventHopIs
  <2>4. IsoChannel(h[i], Map) # IsoChannel(h[j], Map)
    BY <2>2, <2>3, ChannelsDiffer
  <2> QED BY <2>4, TrueChannelsAre
<1> QED BY <1>1

----------------------------------------------------------------------------
(* The invariant: what is known of the air, of a slot, of the open window. *)

AirRecord == [n : 0..W-1, at : Int, on : BOOLEAN, fading : BOOLEAN, upsets : Nat,
              drift : -MaxDrift..MaxDrift]

SlotRecord ==
  [active : {TRUE}, locked : BOOLEAN, cnt : 0..W-1, anchorCnt : 0..W-1, anchor : Int,
   event : Int, next : Int, se : 0..Nse-1, miss : Nat, hit : BOOLEAN, rsp : BOOLEAN,
   channel : 0..NChannels-1, hop : HopRecord, overran : BOOLEAN]

WindowRecord ==
  [open : {TRUE}, b : 1..NStreams, channel : 0..NChannels-1, aa : {"own", "rsp"},
   to : Int, packets : Nat, data : BOOLEAN, orderly : BOOLEAN]

GroupInv ==
  /\ group \in [kind : Kinds, sub : Nat \ {0}, spacing : Nat]
  /\ \E y \in Layouts : group.sub = y.sub /\ group.spacing = y.spacing
  /\ group.kind # "bis" => group.sub > 2 * PacketAir + Ifs + RspDelay

Types ==
  /\ GroupInv
  /\ air \in AirRecord
  /\ slots \in [IF group.kind = "bis" THEN 1..NStreams ELSE {1} -> SlotRecord \cup {Free}]
  /\ win \in WindowRecord \cup {Closed}
  /\ win.open => win.b \in DOMAIN slots /\ slots[win.b].active

Off(s) == IF s.rsp THEN RspDelay ELSE 0

\* An error that the clocks, and a rounding by up to r, explain: of the time of
\* the event, or of the packet heard instead of the event's first.
Small(a, r, x) == x = 0 \/ x + a.drift \in -r..0
Explained(a, r, x) ==
  \/ Small(a, r, x)
  \/ group.kind = "cis" /\ Small(a, 0, x - (PacketAir + Ifs))

\* The anchor of a locked slot is a packet's.
Rounded(s) == IF s.locked THEN 0 ELSE Rounding

\* When the j-th event from now of stream b starts.
Start(a, b, j) == a.at + j * Interval + (b - 1) * group.spacing

\* Time x is that of the event whose number is c.
Names(a, r, b, x, c) ==
  \E j \in Int : c = (a.n + j) % W /\ Explained(a, r, x - Start(a, b, j))

HopInv(b, s, serving) ==
  /\ group.kind # "pawr" /\ serving => s.hop = HopsOf(b, s.cnt)[s.se]
  /\ group.kind # "pawr" /\ ~serving /\ s.se # 0 => s.hop = HopsOf(b, s.cnt)[s.se - 1]
  /\ serving \/ s.rsp => s.channel = TrueChannel(b, s.cnt, s.se)

PlaceInv(a, b, s) ==
  ~s.overran =>
    /\ Names(a, Rounded(s), b, s.anchor, s.anchorCnt)
    /\ Names(a, Rounding, b, s.next - Off(s) - s.se * group.sub, s.cnt)

SlotInv(a, b, s, serving) ==
  /\ s \in SlotRecord
  /\ ~s.locked => s.se = 0 /\ ~s.rsp
  /\ s.rsp => group.kind = "pawr" /\ RspDelay < group.sub
  /\ \E m \in Int : s.event = s.anchor + m * Interval /\ s.cnt = (s.anchorCnt + m) % W
  /\ ~serving => s.next = s.event + s.se * group.sub + Off(s)
  /\ HopInv(b, s, serving)
  /\ PlaceInv(a, b, s)

Serving(b) == win.open /\ win.b = b

SlotsInv == \A b \in Active : SlotInv(air, b, slots[b], Serving(b))

WindowInv ==
  win.open =>
    LET s == slots[win.b]
    IN  /\ win.channel = s.channel
        /\ win.aa = IF s.rsp THEN "rsp" ELSE "own"
        /\ s.next <= WideGuard

\* An orderly window: every slot locked, room to the siblings' openings and to
\* the opening of the slot's own next subevent.
RoomOf(f, w) ==
  w.open /\ w.orderly =>
    LET s == f[w.b]
    IN  /\ s.locked /\ s.next <= Guard(s)
        /\ \A c \in DOMAIN f \ {w.b} : f[c].active => f[c].locked /\ w.to <= OpenAt(f[c])
        /\ s.se + 1 < Nse /\ ~s.rsp => w.to <= s.next + group.sub - Guard(s) - LateLead
        /\ s.se + 1 < Nse /\ ~s.overran => w.to <= s.event + (s.se + 1) * group.sub - Guard(s)

RoomInv == RoomOf(slots, win)

----------------------------------------------------------------------------
(* The constants, and what the layout gives.                               *)

LEMMA Times ==
  /\ PacketAir \in Nat /\ Ifs \in Nat /\ RspDelay \in Nat /\ WideGuard \in Nat
  /\ LockedGuard \in Nat /\ Tail \in Nat /\ LateLead \in Nat /\ RxReady \in Nat
  /\ Limit \in Nat /\ MaxUpsets \in Nat /\ MaxDrift \in Nat /\ Rounding \in Nat
  /\ Interval \in Nat \ {0} /\ Nse \in Nat \ {0} /\ NStreams \in Nat \ {0}
  /\ W \in Nat \ {0}
BY TimesAssumption, StreamsAssumption, WIsPositive

LEMMA GroupFacts ==
  ASSUME GroupInv
  PROVE  /\ group.kind \in {"bis", "cis", "pawr"}
         /\ group.sub \in Nat \ {0} /\ group.spacing \in Nat
         /\ (NStreams - 1) * group.spacing + (Nse - 1) * group.sub + PacketAir < Interval
         /\ (Nse - 1) * group.sub + Reach(group.kind) < Interval
         /\ Nse > 2 => Reach(group.kind) < 2 * group.sub
BY LayoutsAssumption, StreamsAssumption DEF GroupInv

LEMMA SlotFields ==
  ASSUME NEW s \in SlotRecord
  PROVE  /\ s.active /\ s.locked \in BOOLEAN /\ s.cnt \in 0..W-1 /\ s.anchorCnt \in 0..W-1
         /\ s.cnt \in Int /\ s.anchorCnt \in Int
         /\ s.anchor \in Int /\ s.event \in Int /\ s.next \in Int /\ s.se \in 0..Nse-1
         /\ s.se \in Nat /\ s.miss \in Nat /\ s.hit \in BOOLEAN /\ s.rsp \in BOOLEAN
         /\ s.channel \in 0..NChannels-1 /\ s.hop \in HopRecord /\ s.overran \in BOOLEAN
         /\ Off(s) \in Nat
<1>1. /\ s.active /\ s.locked \in BOOLEAN /\ s.cnt \in 0..W-1 /\ s.anchorCnt \in 0..W-1
      /\ s.anchor \in Int /\ s.event \in Int /\ s.next \in Int /\ s.se \in 0..Nse-1
      /\ s.miss \in Nat /\ s.hit \in BOOLEAN /\ s.rsp \in BOOLEAN
      /\ s.channel \in 0..NChannels-1 /\ s.hop \in HopRecord /\ s.overran \in BOOLEAN
  BY DEF SlotRecord
<1>2. W \in Nat /\ Nse \in Nat
  BY Times
<1>3. s.cnt \in Int /\ s.anchorCnt \in Int /\ s.se \in Nat
  BY <1>1, <1>2
<1>4. Off(s) \in Nat
  BY Times DEF Off
<1> QED BY <1>1, <1>3, <1>4

LEMMA AirFields ==
  ASSUME NEW a \in AirRecord
  PROVE  /\ a.n \in 0..W-1 /\ a.n \in Int /\ a.at \in Int /\ a.upsets \in Nat /\ a.drift \in Int
         /\ a.on \in BOOLEAN /\ a.fading \in BOOLEAN
BY Times DEF AirRecord

----------------------------------------------------------------------------
(* Time passes; an event later is named by a number more.                  *)

Passes(a, after, dt) ==
  \E k \in Int : /\ after.at = a.at - dt + k * Interval
                 /\ after.n = (a.n + k) % W
                 /\ after.drift = a.drift

LEMMA StartType ==
  ASSUME GroupInv, NEW a \in AirRecord, NEW b \in 1..NStreams, NEW j \in Int
  PROVE  Start(a, b, j) \in Int /\ (b - 1) * group.spacing \in Int /\ j * Interval \in Int
<1>1. b - 1 \in Int /\ group.spacing \in Int /\ Interval \in Int /\ a.at \in Int
  BY GroupFacts, Times, AirFields
<1>2. (b - 1) * group.spacing \in Int /\ j * Interval \in Int
  BY <1>1
<1> QED BY <1>1, <1>2 DEF Start

LEMMA NamesLater ==
  ASSUME GroupInv, NEW a \in AirRecord, NEW b \in 1..NStreams, NEW x \in Int,
         NEW c \in 0..W-1, NEW m \in Int, NEW r, Names(a, r, b, x, c)
  PROVE  Names(a, r, b, x + m * Interval, (c + m) % W)
<1>1. PICK j \in Int : c = (a.n + j) % W /\ Explained(a, r, x - Start(a, b, j))
  BY DEF Names
<1>2. j + m \in Int /\ a.n \in Int /\ a.n + j \in Int /\ W \in Nat \ {0} /\ Interval \in Int
  BY AirFields, Times
<1>3. (c + m) % W = (a.n + (j + m)) % W
  <2>1. (((a.n + j) % W) + m) % W = ((a.n + j) + m) % W
    BY <1>2, ModPlus
  <2>2. (a.n + j) + m = a.n + (j + m)
    BY <1>2
  <2> QED BY <1>1, <2>1, <2>2
<1>4. (x + m * Interval) - Start(a, b, j + m) = x - Start(a, b, j)
  <2>1. (j + m) * Interval = j * Interval + m * Interval
    BY <1>2, Distributes
  <2>2. m * Interval \in Int /\ j * Interval \in Int /\ (b - 1) * group.spacing \in Int
        /\ a.at \in Int
    BY <1>2, StartType, AirFields
  <2> QED BY <2>1, <2>2 DEF Start
<1> QED BY <1>1, <1>2, <1>3, <1>4 DEF Names

LEMMA NamesAfter ==
  ASSUME GroupInv, NEW a \in AirRecord, NEW after \in AirRecord, NEW dt \in Int,
         NEW b \in 1..NStreams, NEW x \in Int, NEW c, NEW r, Names(a, r, b, x, c),
         Passes(a, after, dt)
  PROVE  Names(after, r, b, x - dt, c)
<1>1. PICK j \in Int : c = (a.n + j) % W /\ Explained(a, r, x - Start(a, b, j))
  BY DEF Names
<1>2. PICK k \in Int : /\ after.at = a.at - dt + k * Interval
                       /\ after.n = (a.n + k) % W
                       /\ after.drift = a.drift
  BY DEF Passes
<1>3. j - k \in Int /\ a.n \in Int /\ a.n + k \in Int /\ W \in Nat \ {0} /\ Interval \in Int
  BY AirFields, Times
<1>4. c = (after.n + (j - k)) % W
  <2>1. (((a.n + k) % W) + (j - k)) % W = ((a.n + k) + (j - k)) % W
    BY <1>3, ModPlus
  <2>2. (a.n + k) + (j - k) = a.n + j
    BY <1>3
  <2> QED BY <1>1, <1>2, <2>1, <2>2
<1>5. (x - dt) - Start(after, b, j - k) = x - Start(a, b, j)
  <2>1. (j - k) * Interval = j * Interval - k * Interval
    BY <1>3, Distributes
  <2>2. k * Interval \in Int /\ j * Interval \in Int /\ (b - 1) * group.spacing \in Int
        /\ a.at \in Int
    BY <1>3, StartType, AirFields
  <2> QED BY <1>2, <2>1, <2>2 DEF Start
<1>6. Explained(after, r, (x - dt) - Start(after, b, j - k))
  BY <1>1, <1>2, <1>5 DEF Explained, Small
<1> QED BY <1>3, <1>4, <1>6 DEF Names

\* What a smaller rounding explains, a larger one does.
LEMMA NamesWider ==
  ASSUME GroupInv, NEW a \in AirRecord, NEW b \in 1..NStreams, NEW x \in Int, NEW c,
         NEW r \in Nat, NEW q \in Nat, r <= q, Names(a, r, b, x, c)
  PROVE  Names(a, q, b, x, c)
<1>1. PICK j \in Int : c = (a.n + j) % W /\ Explained(a, r, x - Start(a, b, j))
  BY DEF Names
<1> DEFINE e == x - Start(a, b, j)
<1>2. e \in Int /\ a.drift \in Int
  <2>1. a.drift \in -MaxDrift..MaxDrift /\ MaxDrift \in Nat
    BY Times DEF AirRecord
  <2> QED BY <2>1, StartType
<1> HIDE DEF e
<1>3. Small(a, r, e) => Small(a, q, e)
  BY <1>2 DEF Small
<1>4. Explained(a, q, e)
  BY <1>1, <1>3 DEF Explained, e
<1> QED BY <1>1, <1>4 DEF Names, e

LEMMA RoundedType ==
  ASSUME NEW s
  PROVE  Rounded(s) \in Nat /\ Rounded(s) <= Rounding
BY Times DEF Rounded

LEMMA AirPasses ==
  ASSUME Types, NEW dt \in Int
  PROVE  AirAfter(dt) \in AirRecord /\ Passes(air, AirAfter(dt), dt)
<1> DEFINE at == air.at - dt
           k == IF at < 0 THEN (-at) \div Interval ELSE 0
<1>1. air \in AirRecord /\ at \in Int /\ air.n \in Int /\ Interval \in Nat \ {0} /\ W \in Nat \ {0}
  BY AirFields, Times DEF Types
<1>2. k \in Int
  <2>1. -at \in Int
    BY <1>1
  <2> HIDE DEF at
  <2>2. (-at) \div Interval \in Int
    BY <1>1, <2>1, Division
  <2> QED BY <2>2
<1>3. AirAfter(dt) = [air EXCEPT !.n = (@ + k) % W, !.at = at + k * Interval]
  BY DEF AirAfter
<1> HIDE DEF k
<1>4. air.n + k \in Int /\ k * Interval \in Int
  BY <1>1, <1>2
<1>5. (air.n + k) % W \in 0..W-1
  BY <1>1, <1>4, Division
<1>6. AirAfter(dt) \in AirRecord
  <2>1. at + k * Interval \in Int
    BY <1>1, <1>4
  <2> HIDE DEF at
  <2> QED BY <1>1, <1>3, <1>5, <2>1 DEF AirRecord
<1>7. AirAfter(dt).at = air.at - dt + k * Interval /\ AirAfter(dt).n = (air.n + k) % W
      /\ AirAfter(dt).drift = air.drift
  BY <1>1, <1>3 DEF AirRecord
<1> QED BY <1>2, <1>6, <1>7 DEF Passes

----------------------------------------------------------------------------
(* A slot's facts are kept when time passes, when its window opens, when a *)
(* packet is heard and when the window closes.                             *)

LEMMA Places ==
  ASSUME GroupInv, NEW s \in SlotRecord
  PROVE  /\ s.se * group.sub \in Nat /\ (s.se + 1) * group.sub \in Nat
         /\ (s.se + 1) * group.sub = s.se * group.sub + group.sub
         /\ s.next - Off(s) - s.se * group.sub \in Int
<1>1. s.se \in Nat /\ group.sub \in Nat /\ s.next \in Int /\ Off(s) \in Nat
  BY SlotFields, GroupFacts
<1>2. s.se * group.sub \in Nat /\ (s.se + 1) * group.sub = s.se * group.sub + group.sub
  BY <1>1
<1> QED BY <1>1, <1>2

LEMMA SlotPasses ==
  ASSUME NEW s \in SlotRecord, NEW dt \in Int
  PROVE  LET t == SlotAfter(s, dt)
         IN  /\ t \in SlotRecord
             /\ t.anchor = s.anchor - dt /\ t.event = s.event - dt /\ t.next = s.next - dt
             /\ t.locked = s.locked /\ t.se = s.se /\ t.rsp = s.rsp /\ t.cnt = s.cnt
             /\ t.anchorCnt = s.anchorCnt /\ t.channel = s.channel /\ t.hop = s.hop
             /\ t.overran = s.overran /\ t.active /\ t.miss = s.miss /\ t.hit = s.hit
             /\ Off(t) = Off(s)
<1>1. SlotAfter(s, dt) = [s EXCEPT !.anchor = @ - dt, !.event = @ - dt, !.next = @ - dt]
  BY SlotFields DEF SlotAfter
<1>2. s.anchor - dt \in Int /\ s.event - dt \in Int /\ s.next - dt \in Int
  BY SlotFields
<1> QED BY <1>1, <1>2 DEF SlotRecord, Off

LEMMA ShiftKeeps ==
  ASSUME GroupInv, NEW a \in AirRecord, NEW after \in AirRecord, NEW dt \in Int,
         NEW b \in 1..NStreams, NEW s, NEW serving \in BOOLEAN,
         SlotInv(a, b, s, serving), Passes(a, after, dt)
  PROVE  SlotInv(after, b, SlotAfter(s, dt), serving)
<1> DEFINE t == SlotAfter(s, dt)
<1>1. s \in SlotRecord
  BY DEF SlotInv
<1>2. /\ t \in SlotRecord
      /\ t.anchor = s.anchor - dt /\ t.event = s.event - dt /\ t.next = s.next - dt
      /\ t.locked = s.locked /\ t.se = s.se /\ t.rsp = s.rsp /\ t.cnt = s.cnt
      /\ t.anchorCnt = s.anchorCnt /\ t.channel = s.channel /\ t.hop = s.hop
      /\ t.overran = s.overran /\ Off(t) = Off(s)
  BY <1>1, SlotPasses
<1> HIDE DEF t
<1>3. /\ s.anchor \in Int /\ s.event \in Int /\ s.next \in Int /\ Off(s) \in Nat
      /\ s.se * group.sub \in Nat
  BY <1>1, SlotFields, Places
<1>4. \E m \in Int : t.event = t.anchor + m * Interval /\ t.cnt = (t.anchorCnt + m) % W
  <2>1. PICK m \in Int : s.event = s.anchor + m * Interval /\ s.cnt = (s.anchorCnt + m) % W
    BY DEF SlotInv
  <2>2. m * Interval \in Int
    BY Times
  <2>3. t.event = t.anchor + m * Interval
    BY <1>2, <1>3, <2>1, <2>2
  <2> QED BY <1>2, <2>1, <2>3
<1>5. ~serving => t.next = t.event + t.se * group.sub + Off(t)
  <2>1. ~serving => s.next = s.event + s.se * group.sub + Off(s)
    BY DEF SlotInv
  <2> QED BY <1>2, <1>3, <2>1
<1>6. HopInv(b, t, serving)
  BY <1>2 DEF SlotInv, HopInv
<1>7. PlaceInv(after, b, t)
  <2>1. SUFFICES ASSUME ~t.overran
                 PROVE  /\ Names(after, Rounded(t), b, t.anchor, t.anchorCnt)
                        /\ Names(after, Rounding, b, t.next - Off(t) - t.se * group.sub, t.cnt)
    BY DEF PlaceInv
  <2> DEFINE x == s.next - Off(s) - s.se * group.sub
  <2>2. Names(a, Rounded(s), b, s.anchor, s.anchorCnt) /\ Names(a, Rounding, b, x, s.cnt)
    BY <1>2, <2>1 DEF SlotInv, PlaceInv
  <2>3. x \in Int /\ t.next - Off(t) - t.se * group.sub = x - dt
    BY <1>2, <1>3
  <2> HIDE DEF x
  <2>4. /\ Names(after, Rounded(s), b, s.anchor - dt, s.anchorCnt)
        /\ Names(after, Rounding, b, x - dt, s.cnt)
    BY <1>3, <2>2, <2>3, NamesAfter
  <2>5. Rounded(t) = Rounded(s)
    BY <1>2 DEF Rounded
  <2> QED BY <1>2, <2>3, <2>4, <2>5
<1> QED BY <1>2, <1>4, <1>5, <1>6, <1>7 DEF SlotInv, t

\* The air changes, but no time in it.
LEMMA SameAirKeeps ==
  ASSUME NEW a, NEW after, NEW b, NEW s, NEW serving,
         after.n = a.n, after.at = a.at, after.drift = a.drift, SlotInv(a, b, s, serving)
  PROVE  SlotInv(after, b, s, serving)
BY DEF SlotInv, PlaceInv, Names, Explained, Small, Start

\* The clocks drift apart, once.
LEMMA DriftNames ==
  ASSUME GroupInv, NEW a \in AirRecord, NEW after \in AirRecord, NEW d \in -MaxDrift..MaxDrift,
         a.drift = 0, after.n = a.n, after.at = a.at + d, after.drift = d,
         NEW b \in 1..NStreams, NEW x \in Int, NEW c, NEW r \in Nat, Names(a, r, b, x, c)
  PROVE  Names(after, r, b, x, c)
<1>1. PICK j \in Int : c = (a.n + j) % W /\ Explained(a, r, x - Start(a, b, j))
  BY DEF Names
<1>2. Start(a, b, j) \in Int /\ d \in Int /\ MaxDrift \in Nat /\ PacketAir \in Nat /\ Ifs \in Nat
  BY StartType, Times
<1>3. Start(after, b, j) = Start(a, b, j) + d
  <2>1. (b - 1) * group.spacing \in Int /\ j * Interval \in Int /\ a.at \in Int
    BY StartType, AirFields
  <2> QED BY <1>2, <2>1 DEF Start
<1>4. ASSUME NEW y \in Int, NEW q \in Nat, Small(a, q, y) PROVE Small(after, q, y - d)
  BY <1>2, <1>4 DEF Small
<1> DEFINE e == x - Start(a, b, j)
           air2 == PacketAir + Ifs
<1>5. e \in Int /\ x - Start(after, b, j) = e - d /\ air2 \in Int
      /\ e - air2 \in Int /\ (e - air2) - d = (e - d) - air2
  BY <1>2, <1>3
<1>6. Explained(after, r, x - Start(after, b, j))
  <2>1. CASE Small(a, r, e)
    BY <1>4, <1>5, <2>1 DEF Explained
  <2>2. CASE group.kind = "cis" /\ Small(a, 0, e - air2)
    BY <1>4, <1>5, <2>2 DEF Explained
  <2> QED BY <1>1, <2>1, <2>2 DEF Explained
<1> QED BY <1>1, <1>6 DEF Names

LEMMA DriftKeeps ==
  ASSUME GroupInv, NEW a \in AirRecord, NEW after \in AirRecord, NEW d \in -MaxDrift..MaxDrift,
         a.drift = 0, after.n = a.n, after.at = a.at + d, after.drift = d,
         NEW b \in 1..NStreams, NEW s, NEW serving, SlotInv(a, b, s, serving)
  PROVE  SlotInv(after, b, s, serving)
<1>1. s \in SlotRecord
  BY DEF SlotInv
<1>2. s.anchor \in Int /\ s.next - Off(s) - s.se * group.sub \in Int
  BY <1>1, SlotFields, Places
<1>3. PlaceInv(after, b, s)
  <2>1. Rounded(s) \in Nat /\ Rounding \in Nat
    BY RoundedType, Times
  <2> QED BY <1>2, <2>1, DriftNames DEF SlotInv, PlaceInv
<1> QED BY <1>3 DEF SlotInv

LEMMA Csa2InMap ==
  ASSUME NEW prn \in 0..W-1
  PROVE  Csa2Channel(prn, Map) \in Map
<1>1. Scale(Cardinality(Map), prn) \in 0 .. Cardinality(Map) - 1
  BY MapFacts, ScaleBound
<1>2. Remap(Map, Scale(Cardinality(Map), prn)) \in Map
  BY <1>1, MapFacts, RemapInMap
<1> QED BY <1>2 DEF Csa2Channel

LEMMA IsoChannelType ==
  ASSUME NEW h \in HopRecord
  PROVE  IsoChannel(h, Map) \in 0..NChannels-1
<1>1. h.index \in 0 .. Cardinality(Map) - 1
  BY DEF HopRecord
<1>2. IsoChannel(h, Map) \in Map
  BY <1>1, MapFacts, RemapInMap DEF IsoChannel
<1> QED BY <1>2, StreamsAssumption

LEMMA PawrChannelType ==
  ASSUME NEW n \in 0..W-1, NEW k \in 0..Nse-1
  PROVE  PawrChannels[n][k] \in 0..NChannels-1
<1>1. PawrChannels[n][k] = Csa2Channel(PrnE(Xor(n, k), ChanIds[1]), Map)
  BY DEF PawrChannels
<1>2. PrnE(Xor(n, k), ChanIds[1]) \in 0..W-1
  BY XorType DEF PrnE
<1>3. PawrChannels[n][k] \in Map
  BY <1>1, <1>2, Csa2InMap
<1> QED BY <1>3, StreamsAssumption

\* The walk goes on with each opening, and comes to the channel of the subevent.
LEMMA HoppedIs ==
  ASSUME GroupInv, NEW b \in 1..NStreams, NEW s \in SlotRecord, HopInv(b, s, FALSE)
  PROVE  /\ Hopped(b, s) \in HopRecord
         /\ group.kind # "pawr" /\ ~s.rsp => Hopped(b, s) = HopsOf(b, s.cnt)[s.se]
<1>1. s.cnt \in 0..W-1 /\ s.se \in 0..Nse-1 /\ s.hop \in HopRecord /\ Nse \in Nat \ {0}
  BY SlotFields, Times
<1>2. CASE s.rsp \/ group.kind = "pawr"
  BY <1>1, <1>2 DEF Hopped
<1>3. CASE ~(s.rsp \/ group.kind = "pawr") /\ s.se = 0
  <2>1. Hopped(b, s) = EventHop[b][s.cnt]
    BY <1>3 DEF Hopped
  <2>2. EventHop[b][s.cnt] = HopsOf(b, s.cnt)[0]
    BY <1>1, HopsAre
  <2>3. EventHop[b][s.cnt] \in HopRecord
    BY <1>1, EventHopIs
  <2> QED BY <1>3, <2>1, <2>2, <2>3
<1>4. CASE ~(s.rsp \/ group.kind = "pawr") /\ s.se # 0
  <2>1. Hopped(b, s) = SubeventHop[b][s.hop]
    BY <1>4 DEF Hopped
  <2>2. s.se \in 1..Nse-1 /\ s.hop = HopsOf(b, s.cnt)[s.se - 1]
    BY <1>1, <1>4 DEF HopInv
  <2>3. Hopped(b, s) = HopsOf(b, s.cnt)[s.se]
    BY <1>1, <2>1, <2>2, HopsAre
  <2>4. HopsOf(b, s.cnt)[s.se] \in HopRecord
    BY <1>1, HopsAre
  <2> QED BY <1>4, <2>3, <2>4
<1> QED BY <1>2, <1>3, <1>4

LEMMA ChannelForIs ==
  ASSUME GroupInv, NEW b \in 1..NStreams, NEW s \in SlotRecord, HopInv(b, s, FALSE),
         s.rsp => group.kind = "pawr"
  PROVE  /\ ChannelFor(b, s) = TrueChannel(b, s.cnt, s.se)
         /\ ChannelFor(b, s) \in 0..NChannels-1
<1>1. s.cnt \in 0..W-1 /\ s.se \in 0..Nse-1 /\ s.channel \in 0..NChannels-1
  BY SlotFields
<1>2. CASE s.rsp
  BY <1>1, <1>2 DEF ChannelFor, HopInv
<1>3. CASE ~s.rsp /\ group.kind = "pawr"
  BY <1>1, <1>3, PawrChannelType DEF ChannelFor, TrueChannel
<1>4. CASE ~s.rsp /\ group.kind # "pawr"
  <2>1. ChannelFor(b, s) = IsoChannel(Hopped(b, s), Map)
    BY <1>4 DEF ChannelFor
  <2>2. Hopped(b, s) \in HopRecord /\ Hopped(b, s) = HopsOf(b, s.cnt)[s.se]
    BY <1>4, HoppedIs
  <2>3. TrueChannel(b, s.cnt, s.se) = IsoChannel(HopsOf(b, s.cnt)[s.se], Map)
    BY <1>1, <1>4, TrueChannelsAre DEF TrueChannel
  <2> QED BY <2>1, <2>2, <2>3, IsoChannelType
<1> QED BY <1>2, <1>3, <1>4

LEMMA OpenKeeps ==
  ASSUME GroupInv, NEW a, NEW b \in 1..NStreams, NEW s, SlotInv(a, b, s, FALSE)
  PROVE  SlotInv(a, b, [s EXCEPT !.channel = ChannelFor(b, s), !.hop = Hopped(b, s)], TRUE)
<1> DEFINE channel == ChannelFor(b, s)
           hop == Hopped(b, s)
           t == [s EXCEPT !.channel = channel, !.hop = hop]
<1>1. s \in SlotRecord /\ HopInv(b, s, FALSE) /\ (s.rsp => group.kind = "pawr")
  BY DEF SlotInv
<1>2. /\ channel = TrueChannel(b, s.cnt, s.se) /\ channel \in 0..NChannels-1
      /\ hop \in HopRecord
      /\ group.kind # "pawr" => hop = HopsOf(b, s.cnt)[s.se]
  BY <1>1, ChannelForIs, HoppedIs
<1> HIDE DEF channel, hop
<1>3. /\ t \in SlotRecord
      /\ t.anchor = s.anchor /\ t.event = s.event /\ t.next = s.next
      /\ t.locked = s.locked /\ t.se = s.se /\ t.rsp = s.rsp /\ t.cnt = s.cnt
      /\ t.anchorCnt = s.anchorCnt /\ t.channel = channel /\ t.hop = hop
      /\ t.overran = s.overran
  BY <1>1, <1>2 DEF SlotRecord
<1> HIDE DEF t
<1>4. Off(t) = Off(s)
  BY <1>3 DEF Off
<1>5. HopInv(b, t, TRUE)
  BY <1>2, <1>3 DEF HopInv
<1>6. PlaceInv(a, b, t)
  <2>1. Rounded(t) = Rounded(s)
    BY <1>3 DEF Rounded
  <2> QED BY <1>3, <1>4, <2>1 DEF SlotInv, PlaceInv
<1>7. SlotInv(a, b, t, TRUE)
  BY <1>3, <1>5, <1>6 DEF SlotInv
<1> QED BY <1>7 DEF t, channel, hop

\* A packet of the subevent the window was opened for: the start counted back
\* from it is the event's.
LEMMA ReanchorKeeps ==
  ASSUME GroupInv, NEW a, NEW b \in 1..NStreams, NEW s, SlotInv(a, b, s, TRUE), ~s.rsp,
         NEW at \in Int, NEW overran \in BOOLEAN,
         s.overran => overran,
         ~overran => Names(a, 0, b, at - s.se * group.sub, s.cnt)
  PROVE  SlotInv(a, b, [Reanchor(s, at) EXCEPT !.overran = overran], TRUE)
<1> DEFINE t == [Reanchor(s, at) EXCEPT !.overran = overran]
           start == at - s.se * group.sub
<1>1. s \in SlotRecord /\ s.cnt \in 0..W-1 /\ W \in Nat \ {0} /\ start \in Int /\ Interval \in Int
  BY Places, SlotFields, Times DEF SlotInv
<1>2. Reanchor(s, at) = [s EXCEPT !.anchor = start, !.event = start, !.anchorCnt = s.cnt,
                                  !.locked = TRUE]
  BY DEF Reanchor
<1> HIDE DEF start
<1>3. /\ t \in SlotRecord
      /\ t.anchor = start /\ t.event = start /\ t.next = s.next
      /\ t.locked = TRUE /\ t.se = s.se /\ t.rsp = s.rsp /\ t.cnt = s.cnt
      /\ t.anchorCnt = s.cnt /\ t.channel = s.channel /\ t.hop = s.hop
      /\ t.overran = overran
  BY <1>1, <1>2 DEF SlotRecord
<1> HIDE DEF t
<1>4. Off(t) = Off(s)
  BY <1>3 DEF Off
<1>5. \E m \in Int : t.event = t.anchor + m * Interval /\ t.cnt = (t.anchorCnt + m) % W
  <2>1. 0 * Interval = 0 /\ (s.cnt + 0) % W = s.cnt /\ start = start + 0
    BY <1>1, ModSmall
  <2> QED BY <1>3, <2>1
<1>6. HopInv(b, t, TRUE)
  BY <1>3 DEF HopInv, SlotInv
<1>7. PlaceInv(a, b, t)
  <2>1. Rounded(t) = 0
    BY <1>3 DEF Rounded
  <2> QED BY <1>3, <1>4, <2>1 DEF SlotInv, PlaceInv, start
<1>8. SlotInv(a, b, t, TRUE)
  BY <1>3, <1>5, <1>6, <1>7 DEF SlotInv
<1> QED BY <1>8 DEF t

\* The event a slot is in, counted from its anchor.
EventCounted(s) ==
  \E m \in Int : s.event = s.anchor + m * Interval /\ s.cnt = (s.anchorCnt + m) % W

LEMMA EventNames ==
  ASSUME GroupInv, NEW a \in AirRecord, NEW b \in 1..NStreams, NEW s \in SlotRecord,
         EventCounted(s), Names(a, Rounded(s), b, s.anchor, s.anchorCnt)
  PROVE  Names(a, Rounding, b, s.event, s.cnt)
<1>1. PICK m \in Int : s.event = s.anchor + m * Interval /\ s.cnt = (s.anchorCnt + m) % W
  BY DEF EventCounted
<1>2. s.anchor \in Int /\ s.anchorCnt \in 0..W-1
  BY SlotFields
<1>3. Names(a, Rounding, b, s.anchor, s.anchorCnt)
  BY <1>2, RoundedType, NamesWider, Times
<1> QED BY <1>1, <1>2, <1>3, NamesLater

LEMMA NextEventKeeps ==
  ASSUME GroupInv, NEW a \in AirRecord, NEW b \in 1..NStreams, NEW u \in SlotRecord, ~u.rsp,
         ~u.overran => Names(a, Rounded(u), b, u.anchor, u.anchorCnt)
  PROVE  SlotInv(a, b, NextEvent(u), FALSE)
<1> DEFINE k == (IF u.anchor < 0 THEN (-u.anchor) \div Interval ELSE 0) + 1
           at == u.anchor + k * Interval
           cnt == (u.anchorCnt + k) % W
           t == NextEvent(u)
<1>1. /\ u.anchor \in Int /\ u.anchorCnt \in 0..W-1 /\ u.anchorCnt \in Int
      /\ Interval \in Nat \ {0} /\ W \in Nat \ {0} /\ Nse \in Nat \ {0}
      /\ group.sub \in Nat
  BY SlotFields, Times, GroupFacts
<1>2. k \in Int
  <2>1. -u.anchor \in Int
    BY <1>1
  <2>2. (-u.anchor) \div Interval \in Int
    BY <1>1, <2>1, Division
  <2> QED BY <2>2
<1>3. t = [u EXCEPT !.se = 0, !.hit = FALSE, !.event = at, !.next = at, !.cnt = cnt]
  BY DEF NextEvent
<1> HIDE DEF k
<1>4. k * Interval \in Int /\ u.anchorCnt + k \in Int
  BY <1>1, <1>2
<1>5. at \in Int /\ cnt \in 0..W-1 /\ 0 \in 0..Nse-1
  <2>1. at \in Int /\ 0 \in 0..Nse-1
    BY <1>1, <1>4
  <2>2. (u.anchorCnt + k) % W \in 0..W-1
    BY <1>1, <1>4, Division
  <2> QED BY <2>1, <2>2
<1>6. at = u.anchor + k * Interval /\ cnt = (u.anchorCnt + k) % W
  OBVIOUS
<1> HIDE DEF at, cnt, t
<1>7. /\ t \in SlotRecord
      /\ t.anchor = u.anchor /\ t.event = at /\ t.next = at
      /\ t.locked = u.locked /\ t.se = 0 /\ ~t.rsp /\ t.cnt = cnt
      /\ t.anchorCnt = u.anchorCnt /\ t.overran = u.overran
  BY <1>3, <1>5 DEF SlotRecord
<1>8. Off(t) = 0 /\ t.se * group.sub = 0 /\ at - 0 - 0 = at /\ at + 0 + 0 = at
  BY <1>1, <1>5, <1>7 DEF Off
<1>9. HopInv(b, t, FALSE)
  BY <1>7 DEF HopInv
<1>10. PlaceInv(a, b, t)
  <2>1. u.overran \/ Names(a, Rounding, b, u.anchor, u.anchorCnt)
    BY <1>1, RoundedType, NamesWider, Times
  <2>2. u.overran \/ Names(a, Rounding, b, at, cnt)
    BY <1>1, <1>2, <1>6, <2>1, NamesLater
  <2>3. Rounded(t) = Rounded(u)
    BY <1>7 DEF Rounded
  <2> QED BY <1>7, <1>8, <2>2, <2>3 DEF PlaceInv
<1>11. SlotInv(a, b, t, FALSE)
  BY <1>2, <1>6, <1>7, <1>8, <1>9, <1>10 DEF SlotInv
<1> QED BY <1>11 DEF t

LEMMA NextSubeventKeeps ==
  ASSUME GroupInv, NEW a \in AirRecord, NEW b \in 1..NStreams, NEW u \in SlotRecord,
         ~u.rsp, u.locked, u.se + 1 < Nse, EventCounted(u), HopInv(b, u, TRUE),
         ~u.overran => Names(a, Rounded(u), b, u.anchor, u.anchorCnt)
  PROVE  SlotInv(a, b, NextSubevent(u), FALSE)
<1> DEFINE t == NextSubevent(u)
           place == (u.se + 1) * group.sub
<1>1. /\ u.se \in Nat /\ u.se + 1 \in 0..Nse-1 /\ (u.se + 1) - 1 = u.se
      /\ u.event \in Int /\ place \in Nat
  BY SlotFields, Places, Times
<1>2. t = [u EXCEPT !.se = @ + 1, !.next = u.event + place]
  BY DEF NextSubevent
<1>3. (u.se + 1) * group.sub = place
  OBVIOUS
<1> HIDE DEF place, t
<1>4. u.event + place \in Int
  BY <1>1
<1>5. /\ t \in SlotRecord
      /\ t.anchor = u.anchor /\ t.event = u.event /\ t.next = u.event + place
      /\ t.locked /\ t.se = u.se + 1 /\ ~t.rsp /\ t.cnt = u.cnt
      /\ t.anchorCnt = u.anchorCnt /\ t.hop = u.hop /\ t.overran = u.overran
  BY <1>1, <1>2, <1>4 DEF SlotRecord
<1>6. Off(t) = 0 /\ t.se * group.sub = place
      /\ t.next - 0 - place = u.event /\ u.event + place + 0 = t.next
  BY <1>1, <1>3, <1>5 DEF Off
<1>7. HopInv(b, t, FALSE)
  BY <1>1, <1>5 DEF HopInv
<1>8. PlaceInv(a, b, t)
  <2>1. u.overran \/ Names(a, Rounding, b, u.event, u.cnt)
    BY EventNames
  <2>2. Rounded(t) = Rounded(u)
    BY <1>5 DEF Rounded
  <2> QED BY <1>5, <1>6, <2>1, <2>2 DEF PlaceInv
<1>9. \E m \in Int : t.event = t.anchor + m * Interval /\ t.cnt = (t.anchorCnt + m) % W
  BY <1>5 DEF EventCounted
<1>10. SlotInv(a, b, t, FALSE)
  BY <1>5, <1>6, <1>7, <1>8, <1>9 DEF SlotInv
<1> QED BY <1>10 DEF t

LEMMA ResponsesKeep ==
  ASSUME GroupInv, NEW a \in AirRecord, NEW b \in 1..NStreams, NEW s, NEW hit \in BOOLEAN,
         SlotInv(a, b, s, TRUE), ListensToResponses(s)
  PROVE  SlotInv(a, b, [s EXCEPT !.rsp = TRUE, !.hit = hit,
                                 !.next = s.event + s.se * group.sub + RspDelay], FALSE)
<1> DEFINE place == s.se * group.sub
           next == s.event + place + RspDelay
           t == [s EXCEPT !.rsp = TRUE, !.hit = hit, !.next = next]
<1>1. /\ s \in SlotRecord /\ s.event \in Int /\ place \in Nat /\ RspDelay \in Nat
      /\ next \in Int /\ s.se * group.sub = place
  <2>1. s \in SlotRecord
    BY DEF SlotInv
  <2> QED BY <2>1, SlotFields, Places, Times
<1>2. group.kind = "pawr" /\ ~s.rsp /\ s.locked /\ RspDelay < group.sub
  BY DEF ListensToResponses
<1>3. next = s.event + place + RspDelay
  OBVIOUS
<1> HIDE DEF place, next
<1>4. /\ t \in SlotRecord
      /\ t.anchor = s.anchor /\ t.event = s.event /\ t.next = next
      /\ t.locked = s.locked /\ t.se = s.se /\ t.rsp /\ t.cnt = s.cnt
      /\ t.anchorCnt = s.anchorCnt /\ t.channel = s.channel /\ t.overran = s.overran
  BY <1>1 DEF SlotRecord
<1> HIDE DEF t
<1>5. Off(t) = RspDelay /\ t.se * group.sub = place /\ next - RspDelay - place = s.event
  BY <1>1, <1>3, <1>4 DEF Off
<1>6. HopInv(b, t, FALSE)
  BY <1>2, <1>4 DEF HopInv, SlotInv
<1>7. PlaceInv(a, b, t)
  <2>1. EventCounted(s)
    BY DEF SlotInv, EventCounted
  <2>2. s.overran \/ Names(a, Rounded(s), b, s.anchor, s.anchorCnt)
    BY DEF SlotInv, PlaceInv
  <2>3. s.overran \/ Names(a, Rounding, b, s.event, s.cnt)
    BY <1>1, <2>1, <2>2, EventNames
  <2>4. Rounded(t) = Rounded(s)
    BY <1>4 DEF Rounded
  <2> QED BY <1>4, <1>5, <2>2, <2>3, <2>4 DEF PlaceInv
<1>8. \E m \in Int : t.event = t.anchor + m * Interval /\ t.cnt = (t.anchorCnt + m) % W
  BY <1>4 DEF SlotInv
<1>9. SlotInv(a, b, t, FALSE)
  BY <1>2, <1>3, <1>4, <1>5, <1>6, <1>7, <1>8 DEF SlotInv
<1> QED BY <1>9 DEF t, next, place

LEMMA CloseKeeps ==
  ASSUME GroupInv, NEW a \in AirRecord, NEW b \in 1..NStreams, NEW s, NEW data \in BOOLEAN,
         SlotInv(a, b, s, TRUE)
  PROVE  Close(s, data) = Free \/ SlotInv(a, b, Close(s, data), FALSE)
<1> DEFINE hit == s.hit \/ (data /\ ~s.rsp)
           t == [s EXCEPT !.rsp = FALSE, !.hit = hit]
           u == IF EventEnds(s) THEN Account(t) ELSE t
<1>1. s \in SlotRecord /\ s.rsp \in BOOLEAN /\ s.hit \in BOOLEAN /\ s.miss \in Nat /\ s.locked \in BOOLEAN
  <2>1. s \in SlotRecord
    BY DEF SlotInv
  <2> QED BY <2>1, SlotFields
<1>2. CASE ListensToResponses(s)
  <2> DEFINE heard == s.hit \/ data
  <2>1. Close(s, data) = [s EXCEPT !.rsp = TRUE, !.hit = heard,
                                   !.next = s.event + s.se * group.sub + RspDelay]
    BY <1>2 DEF Close
  <2>2. heard \in BOOLEAN
    OBVIOUS
  <2> HIDE DEF heard
  <2>3. SlotInv(a, b, [s EXCEPT !.rsp = TRUE, !.hit = heard,
                                !.next = s.event + s.se * group.sub + RspDelay], FALSE)
    BY <1>2, <2>2, ResponsesKeep
  <2> QED BY <2>1, <2>3, Zenon
<1>3. CASE ~ListensToResponses(s)
  <2>1. hit \in BOOLEAN
    OBVIOUS
  <2>2. Close(s, data) = IF ~u.active THEN Free
                         ELSE IF EventEnds(s) THEN NextEvent(u) ELSE NextSubevent(u)
    BY <1>3 DEF Close
  <2> HIDE DEF hit
  <2>3. /\ t \in SlotRecord /\ ~t.rsp /\ t.active
        /\ t.anchor = s.anchor /\ t.event = s.event
        /\ t.locked = s.locked /\ t.se = s.se /\ t.cnt = s.cnt /\ t.next = s.next
        /\ t.anchorCnt = s.anchorCnt /\ t.hop = s.hop /\ t.overran = s.overran /\ t.channel = s.channel
        /\ t.miss \in Nat /\ t.hit \in BOOLEAN
    BY <1>1, <2>1 DEF SlotRecord
  <2> HIDE DEF t
  <2>4. CASE EventEnds(s)
    <3>1. u = Account(t)
      BY <2>4
    <3>2. CASE ~u.active
      BY <2>2, <3>2
    <3>3. CASE u.active
      <4>1. u \in SlotRecord /\ ~u.rsp /\ u.anchor = t.anchor /\ u.anchorCnt = t.anchorCnt
            /\ u.overran = t.overran /\ (u.locked => t.locked)
        <5>1. CASE t.hit
          <6>1. u = [t EXCEPT !.miss = 0]
            BY <3>1, <5>1 DEF Account
          <6> DEFINE v == [t EXCEPT !.miss = 0]
          <6>2. v \in SlotRecord /\ v.rsp = t.rsp /\ v.anchor = t.anchor
                /\ v.anchorCnt = t.anchorCnt /\ v.overran = t.overran /\ (v.locked => t.locked)
            BY <2>3 DEF SlotRecord
          <6>3. u = v
            BY <6>1
          <6> HIDE DEF u, v
          <6> QED BY <2>3, <6>2, <6>3
        <5>2. CASE ~t.hit
          <6> DEFINE locked == t.locked /\ t.miss + 1 < RelockMiss
                     active == t.miss + 1 < Limit
          <6>1. u = [t EXCEPT !.miss = @ + 1, !.locked = locked, !.active = active]
            BY <3>1, <5>2 DEF Account
          <6>2. locked \in BOOLEAN /\ t.miss + 1 \in Nat
            BY <2>3
          <6>7. locked => t.locked
            BY DEF locked
          <6> HIDE DEF locked, active
          <6>3. u.active = active
            BY <2>3, <6>1 DEF SlotRecord
          <6>4. active = TRUE
            <7>1. active \in BOOLEAN
              BY DEF active
            <7> QED BY <3>3, <6>3, <7>1
          <6> DEFINE v == [t EXCEPT !.miss = @ + 1, !.locked = locked, !.active = TRUE]
          <6>5. v \in SlotRecord /\ v.rsp = t.rsp /\ v.anchor = t.anchor
                /\ v.anchorCnt = t.anchorCnt /\ v.overran = t.overran /\ (v.locked => t.locked)
            BY <2>3, <6>2, <6>7 DEF SlotRecord
          <6>6. u = v
            BY <6>1, <6>4
          <6> HIDE DEF u, v
          <6> QED BY <2>3, <6>5, <6>6
        <5> QED BY <5>1, <5>2
      <4>2. ~u.overran => Names(a, Rounded(u), b, u.anchor, u.anchorCnt)
        <5>1. ~u.overran => Names(a, Rounded(s), b, u.anchor, u.anchorCnt)
          BY <2>3, <4>1 DEF SlotInv, PlaceInv
        <5> HIDE DEF u
        <5>2. Rounded(s) \in Nat /\ Rounded(u) \in Nat /\ Rounded(s) <= Rounded(u)
          <6>1. u.locked => s.locked
            BY <2>3, <4>1
          <6>2. Rounded(s) \in Nat /\ Rounded(u) \in Nat /\ Rounded(s) <= Rounding
            BY RoundedType
          <6>3. CASE u.locked
            <7>1. Rounded(u) = 0 /\ Rounded(s) = 0
              BY <6>1, <6>3 DEF Rounded
            <7> QED BY <7>1
          <6>4. CASE ~u.locked
            <7>1. Rounded(u) = Rounding
              BY <6>4 DEF Rounded
            <7> QED BY <6>2, <7>1
          <6> QED BY <6>3, <6>4
        <5>3. u.anchor \in Int
          BY <4>1, SlotFields
        <5> QED BY <5>1, <5>2, <5>3, NamesWider
      <4>3. Close(s, data) = NextEvent(u)
        BY <2>2, <2>4, <3>3
      <4> HIDE DEF u
      <4> QED BY <4>1, <4>2, <4>3, NextEventKeeps
    <3> QED BY <3>2, <3>3
  <2>5. CASE ~EventEnds(s)
    <3>1. s.locked /\ s.se + 1 < Nse
      <4>1. s.se \in Nat /\ Nse \in Nat
        BY <1>1, SlotFields, Times
      <4> QED BY <2>5, <4>1 DEF EventEnds
    <3>2. u = t /\ Close(s, data) = NextSubevent(t)
      BY <2>2, <2>3, <2>5
    <3>3. HopInv(b, t, TRUE)
      BY <2>3 DEF SlotInv, HopInv
    <3>4. ~t.overran => Names(a, Rounded(t), b, t.anchor, t.anchorCnt)
      <4>1. Rounded(t) = Rounded(s)
        BY <2>3 DEF Rounded
      <4> QED BY <2>3, <4>1 DEF SlotInv, PlaceInv
    <3>5. EventCounted(t)
      BY <2>3 DEF SlotInv, EventCounted
    <3> QED BY <2>3, <3>1, <3>2, <3>3, <3>4, <3>5, NextSubeventKeeps
  <2> QED BY <2>4, <2>5
<1> QED BY <1>2, <1>3

----------------------------------------------------------------------------
(* Which packet a window can take for the one it was opened for.           *)

\* From a packet of a subevent to the last one.
Turn == IF group.kind = "cis" THEN PacketAir + Ifs ELSE 0

LEMMA ReachIs ==
  ASSUME GroupInv
  PROVE  /\ Reach(group.kind) \in Nat /\ Turn \in Nat
         /\ WideGuard + 2 * Turn + MaxDrift <= Reach(group.kind)
         /\ WideGuard + Turn + MaxDrift + Rounding <= Reach(group.kind)
         /\ Air - PacketAir = Turn
BY Times DEF Reach, Turn, Air, Greatest

LEMMA SmallBound ==
  ASSUME NEW a \in AirRecord, NEW r \in Nat, NEW x \in Int, Small(a, r, x)
  PROVE  x \in -(MaxDrift + r) .. MaxDrift
<1>1. a.drift \in -MaxDrift..MaxDrift /\ MaxDrift \in Nat
  BY Times DEF AirRecord
<1> QED BY <1>1 DEF Small

LEMMA ExplainedBound ==
  ASSUME NEW a \in AirRecord, NEW r \in Nat, NEW x \in Int, Explained(a, r, x)
  PROVE  -(MaxDrift + r) <= x /\ x <= MaxDrift + Turn
<1>1. MaxDrift \in Nat /\ Turn \in Nat
  BY Times DEF Turn
<1>2. CASE Small(a, r, x)
  BY <1>1, <1>2, SmallBound
<1>3. CASE group.kind = "cis" /\ Small(a, 0, x - (PacketAir + Ifs))
  <2>1. x - Turn \in Int /\ Turn = PacketAir + Ifs
    BY <1>1, <1>3 DEF Turn
  <2>2. x - Turn \in -(MaxDrift + 0) .. MaxDrift
    BY <1>3, <2>1, SmallBound
  <2> QED BY <1>1, <2>2
<1> QED BY <1>2, <1>3 DEF Explained

\* Less than an event away from each other: in the same event.
LEMMA SameEvent ==
  ASSUME NEW period \in Nat \ {0}, NEW step \in Nat \ {0}, NEW n \in Nat \ {0}, NEW r \in Nat,
         (n - 1) * step + r < period,
         NEW i \in Int, NEW k \in 0..n-1, NEW l \in 0..n-1,
         -r <= i * period + (k - l) * step, i * period + (k - l) * step <= r
  PROVE  i = 0
<1> DEFINE m == (n - 1) * step
           x == (k - l) * step
           y == i * period
<1>1. m \in Nat /\ x \in Int /\ y \in Int
  OBVIOUS
<1>2. -m <= x /\ x <= m
  <2>1. k - l <= n - 1 /\ -(n - 1) <= k - l /\ k - l \in Int /\ n - 1 \in Int
    OBVIOUS
  <2>2. (k - l) * step <= (n - 1) * step
    BY <2>1
  <2>3. (-(n - 1)) * step <= (k - l) * step
    BY <2>1
  <2>4. (-(n - 1)) * step = -((n - 1) * step)
    BY <2>1
  <2> QED BY <2>2, <2>3, <2>4
<1>3. i >= 1 => y >= period
  OBVIOUS
<1>4. i <= -1 => y <= -period
  OBVIOUS
<1>5. m + r < period /\ -r <= y + x /\ y + x <= r
  OBVIOUS
<1> HIDE DEF m, x, y
<1> QED BY <1>1, <1>2, <1>3, <1>4, <1>5

\* Less than two subevents apart: the same, or neighbours.
LEMMA Neighbours ==
  ASSUME NEW step \in Nat \ {0}, NEW n \in Nat \ {0}, NEW r \in Nat, n > 2 => r < 2 * step,
         NEW k \in 0..n-1, NEW l \in 0..n-1,
         -r <= (k - l) * step, (k - l) * step <= r
  PROVE  k = l \/ k = l + 1 \/ l = k + 1
<1>1. CASE n <= 2
  BY <1>1
<1>2. CASE n > 2
  <2>1. k - l >= 2 => (k - l) * step >= 2 * step
    OBVIOUS
  <2>2. k - l <= -2 => (k - l) * step <= -(2 * step)
    OBVIOUS
  <2>3. (k - l) * step \in Int
    OBVIOUS
  <2> QED BY <1>2, <2>1, <2>2, <2>3
<1> QED BY <1>1, <1>2

LEMMA PacketIs ==
  ASSUME Types, NEW b \in 1..NStreams, NEW p \in Packets(b)
  PROVE  \E j \in Int, k \in 0..Nse-1, dt \in Nat :
            /\ p.at = Start(air, b, j) + k * group.sub + dt
            /\ p.channel = TrueChannel(b, (air.n + j) % W, k)
            /\ p.aa = "own" => dt = 0 \/ (group.kind = "cis" /\ dt = Turn)
<1> DEFINE f(j, k, dt, aa) == [at |-> StartOf(b, j, k) + dt, aa |-> aa,
                               channel |-> TrueChannel(b, (air.n + j) % W, k)]
<1>1. \E x \in (-1..2) \X (0..Nse-1) :
         \/ p = f(x[1], x[2], 0, "own")
         \/ group.kind = "cis" /\ p = f(x[1], x[2], PacketAir + Ifs, "own")
         \/ p = f(x[1], x[2], RspDelay, "rsp")
  BY DEF Packets
<1>2. PICK j \in Int, k \in 0..Nse-1 :
         \/ p = f(j, k, 0, "own")
         \/ group.kind = "cis" /\ p = f(j, k, PacketAir + Ifs, "own")
         \/ p = f(j, k, RspDelay, "rsp")
  BY <1>1
<1>3. StartOf(b, j, k) = Start(air, b, j) + k * group.sub
  BY DEF StartOf, Start
<1>4. ASSUME NEW dt \in Nat, NEW aa, p = f(j, k, dt, aa),
             aa = "own" => dt = 0 \/ (group.kind = "cis" /\ dt = Turn)
      PROVE  \E d \in Nat :
               /\ p.at = Start(air, b, j) + k * group.sub + d
               /\ p.channel = TrueChannel(b, (air.n + j) % W, k)
               /\ p.aa = "own" => d = 0 \/ (group.kind = "cis" /\ d = Turn)
  BY <1>3, <1>4
<1> HIDE DEF f
<1>5. 0 \in Nat /\ Turn \in Nat /\ RspDelay \in Nat /\ "rsp" # "own"
  BY Times DEF Turn
<1>6. CASE p = f(j, k, 0, "own")
  BY <1>4, <1>5, <1>6
<1>7. CASE group.kind = "cis" /\ p = f(j, k, Turn, "own")
  BY <1>4, <1>5, <1>7
<1>8. CASE p = f(j, k, RspDelay, "rsp")
  BY <1>4, <1>5, <1>8
<1> QED BY <1>2, <1>6, <1>7, <1>8 DEF Turn

\* A window on the subevent's own channel: a packet that is not far off is the
\* subevent's, in either direction of a CIS.
LEMMA PacketIsTheSubevents ==
  ASSUME Types, NEW b \in 1..NStreams, NEW s \in SlotRecord, ~s.rsp, NEW j \in Int,
         s.cnt = (air.n + j) % W,
         Explained(air, Rounding, s.next - s.se * group.sub - Start(air, b, j)),
         s.channel = TrueChannel(b, s.cnt, s.se), s.next <= WideGuard,
         NEW p \in Packets(b), p.aa = "own", p.at >= 0, ~Strays(s, p), p.channel = s.channel
  PROVE  \E dt \in Nat : /\ dt = 0 \/ (group.kind = "cis" /\ dt = Turn)
                         /\ p.at = Start(air, b, j) + s.se * group.sub + dt
<1>1. PICK i \in Int, k \in 0..Nse-1, dt \in Nat :
            /\ p.at = Start(air, b, i) + k * group.sub + dt
            /\ p.channel = TrueChannel(b, (air.n + i) % W, k)
            /\ dt = 0 \/ (group.kind = "cis" /\ dt = Turn)
  BY PacketIs
<1> DEFINE e == s.next - s.se * group.sub - Start(air, b, j)
           d == (i - j) * Interval + (k - s.se) * group.sub
           r == Reach(group.kind)
<1>2. /\ GroupInv /\ air \in AirRecord
      /\ group.sub \in Nat \ {0} /\ Interval \in Nat \ {0} /\ Nse \in Nat \ {0}
      /\ s.se \in 0..Nse-1 /\ s.next \in Int /\ s.se * group.sub \in Nat /\ s.cnt \in 0..W-1
      /\ Start(air, b, j) \in Int /\ Start(air, b, i) \in Int
      /\ group.kind \in {"bis", "cis", "pawr"}
  BY GroupFacts, Times, SlotFields, Places, StartType DEF Types
<1>3. /\ WideGuard \in Nat /\ Turn \in Nat /\ MaxDrift \in Nat /\ RspDelay \in Nat
      /\ Rounding \in Nat /\ PacketAir \in Nat /\ Ifs \in Nat
  BY Times DEF Turn
<1>4. /\ r \in Nat /\ WideGuard + 2 * Turn + MaxDrift <= r
      /\ WideGuard + Turn + MaxDrift + Rounding <= r
      /\ Air - PacketAir = Turn
  BY <1>2, ReachIs
<1> HIDE DEF r
<1>5. e \in Int /\ -(MaxDrift + Rounding) <= e /\ e <= MaxDrift + Turn
      /\ (group.kind # "cis" => e <= MaxDrift)
  <2>1. e \in Int
    BY <1>2
  <2>2. group.kind # "cis" => Small(air, Rounding, e)
    BY DEF Explained
  <2>3. Explained(air, Rounding, e)
    OBVIOUS
  <2> HIDE DEF e
  <2>4. -(MaxDrift + Rounding) <= e /\ e <= MaxDrift + Turn
    BY <1>2, <1>3, <2>1, <2>3, ExplainedBound
  <2>5. group.kind # "cis" => e <= MaxDrift
    BY <1>2, <1>3, <2>1, <2>2, SmallBound
  <2> QED BY <2>1, <2>4, <2>5
<1>6. (i - j) * Interval \in Int /\ (k - s.se) * group.sub \in Int /\ k * group.sub \in Int
      /\ (k - s.se) * group.sub = k * group.sub - s.se * group.sub
  BY <1>2
<1>7. p.at - s.next = d + dt - e
  <2>1. (i - j) * Interval = i * Interval - j * Interval /\ i * Interval \in Int /\ j * Interval \in Int
    BY <1>2
  <2>2. (b - 1) * group.spacing \in Int /\ air.at \in Int
    BY <1>2, StartType, AirFields
  <2>3. Start(air, b, i) = Start(air, b, j) + (i - j) * Interval
    BY <2>1, <2>2 DEF Start
  <2> QED BY <1>1, <1>2, <1>6, <2>3
<1>8. d \in Int /\ dt \in 0..Turn /\ p.at \in Int /\ s.next \in Int
  <2>1. p.at \in Int
    BY <1>1, <1>2, <1>6
  <2> QED BY <1>1, <1>2, <1>3, <1>6, <2>1
<1>9. -WideGuard <= p.at - s.next /\ p.at - s.next <= WideGuard + Turn
  BY <1>3, <1>4, <1>8 DEF Strays
<1>10. -r <= d /\ d <= r
  <2> HIDE DEF d, e
  <2> QED BY <1>3, <1>4, <1>5, <1>7, <1>8, <1>9
<1>11. i = j
  <2>1. (Nse - 1) * group.sub + r < Interval
    BY <1>2, GroupFacts DEF r
  <2>2. i - j \in Int
    OBVIOUS
  <2>3. i - j = 0
    BY <1>2, <1>4, <1>10, <2>1, <2>2, SameEvent
  <2> QED BY <2>3
<1>12. d = (k - s.se) * group.sub
  <2>1. (i - j) * Interval = 0
    BY <1>2, <1>11
  <2> QED BY <1>6, <2>1
<1>13. k = s.se \/ k = s.se + 1 \/ s.se = k + 1
  <2>1. Nse > 2 => r < 2 * group.sub
    BY <1>2, GroupFacts DEF r
  <2>2. -r <= (k - s.se) * group.sub /\ (k - s.se) * group.sub <= r
    BY <1>10, <1>12
  <2> QED BY <1>2, <1>4, <2>1, <2>2, Neighbours
<1>14. k = s.se
  <2> SUFFICES ASSUME k # s.se PROVE FALSE
    OBVIOUS
  <2>1. TrueChannel(b, s.cnt, k) = TrueChannel(b, s.cnt, s.se)
    BY <1>1, <1>11
  <2>2. CASE group.kind # "pawr"
    <3>1. TrueChannels[b][s.cnt][k] = TrueChannels[b][s.cnt][s.se]
      BY <2>1, <2>2 DEF TrueChannel
    <3> QED BY <1>2, <1>13, <3>1, NeighboursDiffer
  <2>3. CASE group.kind = "pawr"
    <3>1. group.sub > WideGuard + MaxDrift + Rounding
      <4>1. group.sub > 2 * PacketAir + Ifs + RspDelay
        BY <1>2, <2>3 DEF GroupInv
      <4>2. WideGuard + MaxDrift + Rounding <= 2 * PacketAir + Ifs + RspDelay
        BY LayoutsAssumption
      <4> QED BY <1>2, <1>3, <4>1, <4>2
    <3>2. dt = 0 /\ e <= MaxDrift /\ Turn = 0
      BY <1>1, <1>5, <2>3 DEF Turn
    <3>3. d = group.sub \/ d = -group.sub
      <4>1. k - s.se = 1 \/ k - s.se = -1
        BY <1>2, <1>13
      <4>2. 1 * group.sub = group.sub /\ (-1) * group.sub = -group.sub
        BY <1>2
      <4> QED BY <1>12, <4>1, <4>2
    <3> HIDE DEF d, e
    <3> QED BY <1>2, <1>3, <1>5, <1>7, <1>8, <1>9, <3>1, <3>2, <3>3
  <2> QED BY <2>2, <2>3
<1> QED BY <1>1, <1>11, <1>14

----------------------------------------------------------------------------
(* From one state to the next.                                             *)

\* What is followed stays the same.
LEMMA GroupStays ==
  ASSUME group' = group, NEW a, NEW b, NEW s, NEW serving
  PROVE  SlotInv(a, b, s, serving)' <=> SlotInv(a, b, s, serving)
<1>1. HopInv(b, s, serving)' <=> HopInv(b, s, serving)
  BY DEF HopInv, TrueChannel
<1>2. PlaceInv(a, b, s)' <=> PlaceInv(a, b, s)
  BY DEF PlaceInv, Names, Explained, Small, Start
<1> QED BY <1>1, <1>2 DEF SlotInv

LEMMA SlotsNext ==
  ASSUME group' = group,
         \A c \in Active' : SlotInv(air', c, slots'[c], Serving(c)')
  PROVE  SlotsInv'
<1> SUFFICES ASSUME NEW c \in Active' PROVE SlotInv(air, c, slots[c], Serving(c))'
  BY DEF SlotsInv
<1>1. PICK a, s, serving : a = air' /\ s = slots'[c] /\ serving = Serving(c)'
  OBVIOUS
<1>2. SlotInv(a, c, s, serving)
  BY <1>1
<1>3. SlotInv(a, c, s, serving)'
  BY <1>2, GroupStays
<1> QED BY <1>1, <1>3
        DEF SlotInv, HopInv, PlaceInv, Names, Explained, Small, Start, TrueChannel, Off

LEMMA GroupNext ==
  ASSUME group' = group, GroupInv
  PROVE  GroupInv'
BY DEF GroupInv

LEMMA DomainIs ==
  ASSUME Types
  PROVE  /\ DOMAIN slots = IF group.kind = "bis" THEN 1..NStreams ELSE {1}
         /\ DOMAIN slots \subseteq 1..NStreams
         /\ \A b \in DOMAIN slots : slots[b] \in SlotRecord \cup {Free}
         /\ \A b \in Active : b \in DOMAIN slots /\ b \in 1..NStreams /\ slots[b] \in SlotRecord
<1>1. 1 \in 1..NStreams
  BY Times
<1>2. DOMAIN slots = IF group.kind = "bis" THEN 1..NStreams ELSE {1}
  BY DEF Types
<1>3. \A b \in DOMAIN slots : slots[b] \in SlotRecord \cup {Free}
  BY DEF Types
<1>4. DOMAIN slots \subseteq 1..NStreams
  BY <1>1, <1>2
<1>5. ~Free.active
  BY DEF Free
<1> QED BY <1>2, <1>3, <1>4, <1>5 DEF Active

\* Time passes for every slot; one of them is served.
LEMMA StepKeeps ==
  ASSUME Types, SlotsInv, NEW dt \in Int, group' = group,
         air' \in AirRecord, Passes(air, air', dt),
         NEW b \in Active, \A c \in Active \ {b} : ~Serving(c),
         NEW r, slots' = [SlotsAfter(dt) EXCEPT ![b] = r],
         win' \in WindowRecord \cup {Closed}, win'.open => win'.b = b /\ r.active,
         r = Free \/ SlotInv(air', b, r, win'.open)
  PROVE  Types' /\ SlotsInv'
<1>1. /\ b \in DOMAIN slots
      /\ slots' \in [DOMAIN slots -> SlotRecord \cup {Free}]
      /\ slots'[b] = r
      /\ \A c \in DOMAIN slots \ {b} : slots'[c] = SlotAfter(slots[c], dt)
  <2>1. \A c \in DOMAIN slots : SlotAfter(slots[c], dt) \in SlotRecord \cup {Free}
    <3> TAKE c \in DOMAIN slots
    <3>1. CASE slots[c] \in SlotRecord
      BY <3>1, SlotPasses
    <3>2. CASE slots[c] = Free
      BY <3>2 DEF SlotAfter, Free
    <3> QED BY <3>1, <3>2, DomainIs
  <2>2. r \in SlotRecord \cup {Free}
    BY DEF SlotInv
  <2>3. b \in DOMAIN slots
    BY DomainIs
  <2>4. SlotsAfter(dt) = [c \in DOMAIN slots |-> SlotAfter(slots[c], dt)]
    BY DEF SlotsAfter
  <2> QED BY <2>1, <2>2, <2>3, <2>4
<1>2. DOMAIN slots' = DOMAIN slots
  BY <1>1
<1>3. Types'
  <2>1. win'.open => win'.b \in DOMAIN slots' /\ slots'[win'.b].active
    BY <1>1, <1>2
  <2>2. slots' \in [IF group.kind = "bis" THEN 1..NStreams ELSE {1} -> SlotRecord \cup {Free}]
    BY <1>1, DomainIs
  <2> QED BY <2>1, <2>2, GroupNext DEF Types
<1>4. ASSUME NEW c \in Active'
      PROVE  SlotInv(air', c, slots'[c], Serving(c)')
  <2>1. c \in DOMAIN slots /\ slots'[c].active
    BY <1>2 DEF Active
  <2>2. CASE c = b
    <3>1. r.active /\ r # Free
      BY <1>1, <2>1, <2>2 DEF Free
    <3>2. Serving(c)' = win'.open
      <4>1. win'.open \in BOOLEAN
        <5>1. \A w \in WindowRecord : w.open = TRUE
          BY DEF WindowRecord
        <5>2. Closed.open = FALSE
          BY DEF Closed
        <5> QED BY <5>1, <5>2
      <4>2. Serving(c)' \in BOOLEAN /\ (Serving(c)' <=> win'.open)
        BY <2>2 DEF Serving
      <4> QED BY <4>1, <4>2
    <3> QED BY <1>1, <2>2, <3>1, <3>2
  <2>3. CASE c # b
    <3>1. slots'[c] = SlotAfter(slots[c], dt)
      BY <1>1, <2>1, <2>3
    <3>2. c \in Active
      <4>1. CASE ~slots[c].active
        BY <2>1, <3>1, <4>1 DEF SlotAfter
      <4> QED BY <2>1, <4>1 DEF Active
    <3>3. Serving(c) = FALSE /\ Serving(c)' = FALSE
      <4>1. ~Serving(c) /\ ~(Serving(c)')
        BY <2>3, <3>2 DEF Serving
      <4> QED BY <4>1 DEF Serving
    <3>4. SlotInv(air, c, slots[c], FALSE)
      BY <3>2, <3>3 DEF SlotsInv
    <3>5. GroupInv /\ air \in AirRecord /\ c \in 1..NStreams
      BY <3>2, DomainIs DEF Types
    <3>6. SlotInv(air', c, SlotAfter(slots[c], dt), FALSE)
      BY <3>4, <3>5, ShiftKeeps
    <3> QED BY <3>1, <3>3, <3>6
  <2> QED BY <2>2, <2>3
<1> QED BY <1>3, <1>4, SlotsNext

LEMMA Opening ==
  ASSUME GroupInv, NEW s \in SlotRecord
  PROVE  /\ Guard(s) \in Nat /\ Guard(s) <= WideGuard /\ (s.locked => Guard(s) <= LockedGuard)
         /\ OpenAt(s) \in Int /\ Due(s) \in Nat /\ OpenAt(s) <= Due(s)
<1>1. group.sub \in Nat /\ group.spacing \in Nat /\ s.next \in Int /\ s.locked \in BOOLEAN
  BY GroupFacts, SlotFields
<1>2. SlotSpacing \in Nat /\ Air \in Nat
  BY <1>1, Times DEF SlotSpacing, Least, Air
<1>3. Guard(s) \in Nat /\ Guard(s) <= WideGuard /\ (s.locked => Guard(s) <= LockedGuard)
  <2>1. LockedGuard <= WideGuard
    BY TimesAssumption
  <2> QED BY <1>1, <1>2, <2>1, Times DEF Guard, Least, Greatest
<1>4. OpenAt(s) \in Int
  BY <1>1, <1>3 DEF OpenAt
<1>5. Due(s) \in Nat /\ OpenAt(s) <= Due(s)
  BY <1>4, Times DEF Due
<1> QED BY <1>3, <1>4, <1>5

LEMMA WindowType ==
  ASSUME GroupInv, NEW s \in SlotRecord
  PROVE  Window(s) \in Int
<1>1. /\ group.sub \in Nat /\ group.spacing \in Nat /\ s.miss \in Nat
      /\ s.locked \in BOOLEAN /\ s.rsp \in BOOLEAN /\ Guard(s) \in Nat
  BY GroupFacts, SlotFields, Opening
<1>2. SlotSpacing \in Nat /\ Air \in Nat
  BY <1>1, Times DEF SlotSpacing, Least, Air
<1>3. Span \in Nat /\ SpanMargin \in Nat /\ WidenEvery \in Nat \ {0} /\ WidenMax \in Nat
      /\ \A w \in 0..WidenMax : 2^w \in Nat
  BY TimesAssumption
<1> DEFINE w == Least(s.miss \div WidenEvery, WidenMax)
           wide == 2^w
           search == Least(2 * Guard(s) + Air + Span * wide, Interval - SpanMargin)
<1>4. w \in 0..WidenMax
  <2>1. s.miss \div WidenEvery \in Nat
    BY <1>1, <1>3
  <2> QED BY <1>3, <2>1 DEF Least
<1>5. wide \in Nat
  <2> HIDE DEF w
  <2> QED BY <1>3, <1>4
<1>6. search \in Int
  <2> HIDE DEF wide
  <2>1. Span * wide \in Nat
    BY <1>3, <1>5
  <2> QED BY <1>1, <1>2, <1>3, <2>1, Times DEF Least
<1>7. \/ Window(s) = group.sub - RspDelay - RxReady
      \/ Window(s) = Least(Guard(s) + Air + Tail, SlotSpacing - LateLead)
      \/ Window(s) = Guard(s) + Air + Tail
      \/ Window(s) = search
  <2> DEFINE x == Least(Guard(s) + Air + Tail, SlotSpacing - LateLead)
  <2>1. Window(s) = CASE s.rsp -> group.sub - RspDelay - RxReady
        [] ~s.rsp /\ s.locked /\ SlotSpacing > LateLead -> x
        [] ~s.rsp /\ s.locked /\ SlotSpacing <= LateLead -> Guard(s) + Air + Tail
        [] OTHER -> search
    BY DEF Window
  <2> HIDE DEF x, search
  <2> QED BY <1>1, <1>2, <2>1, Times DEF x
<1> HIDE DEF search
<1> QED BY <1>1, <1>2, <1>6, <1>7, Times DEF Least

LEMMA AirUpsets ==
  ASSUME Types, NEW dt \in Int
  PROVE  AirAfter(dt).upsets = air.upsets /\ air.upsets \in Nat
<1>1. air \in AirRecord
  BY DEF Types
<1> QED BY <1>1 DEF AirAfter, AirRecord

LEMMA AirSteps ==
  ASSUME Types, NEW dt \in Int, NEW upsets \in Nat
  PROVE  /\ [AirAfter(dt) EXCEPT !.upsets = upsets] \in AirRecord
         /\ Passes(air, [AirAfter(dt) EXCEPT !.upsets = upsets], dt)
<1>1. AirAfter(dt) \in AirRecord /\ Passes(air, AirAfter(dt), dt)
  BY AirPasses
<1> DEFINE a == [AirAfter(dt) EXCEPT !.upsets = upsets]
<1>2. a \in AirRecord /\ a.n = AirAfter(dt).n /\ a.at = AirAfter(dt).at
      /\ a.drift = AirAfter(dt).drift
  BY <1>1 DEF AirRecord
<1> HIDE DEF a
<1>3. Passes(air, a, dt)
  BY <1>1, <1>2 DEF Passes
<1> QED BY <1>2, <1>3 DEF a

Inv == Types /\ SlotsInv /\ WindowInv

\* What the opening of a window does: time passes to it, the walk through the
\* channels goes on to the slot's subevent.
Opened(b, t, r) ==
  LET s == slots[b]
  IN  /\ IsEarliest(b) /\ OpenAt(s) <= t
      /\ air' \in AirRecord /\ Passes(air, air', t)
      /\ SlotInv(air', b, r, TRUE)
      /\ r.rsp = s.rsp /\ r.next = s.next - t /\ r.active /\ r.locked = s.locked
      /\ r.event = s.event - t /\ r.se = s.se /\ r.overran = s.overran
      /\ slots' = [SlotsAfter(t) EXCEPT ![b] = r]
      /\ win' \in WindowRecord /\ win'.open = TRUE /\ win'.b = b /\ win'.channel = r.channel
      /\ win'.aa = IF s.rsp THEN "rsp" ELSE "own"
      /\ win'.to = Window(s) /\ win'.orderly = (Orderly /\ t = OpenAt(s))

LEMMA OpenParts ==
  ASSUME Inv, ServeOpen
  PROVE  /\ ~win.open /\ group' = group
         /\ \E b \in Active, t \in Nat : \E r : Opened(b, t, r)
<1>1. PICK b \in Active, late \in Lates \cup {0} :
         /\ IsEarliest(b)
         /\ late > 0 => air.upsets > 0
         /\ \E t \in {Due(slots[b]) + late}, channel \in {ChannelFor(b, slots[b])} :
            /\ air' = [AirAfter(t) EXCEPT !.upsets = IF late > 0 THEN @ - 1 ELSE @]
            /\ win' = [open |-> TRUE, b |-> b, channel |-> channel,
                       aa |-> IF slots[b].rsp THEN "rsp" ELSE "own",
                       to |-> Window(slots[b]), packets |-> 0, data |-> FALSE,
                       orderly |-> Orderly /\ t = OpenAt(slots[b])]
            /\ slots' = [SlotsAfter(t) EXCEPT
                            ![b].channel = channel, ![b].hop = Hopped(b, slots[b])]
  BY DEF ServeOpen
<1> DEFINE s == slots[b]
           t == Due(s) + late
           channel == ChannelFor(b, s)
           hop == Hopped(b, s)
           u == SlotAfter(s, t)
           r == [u EXCEPT !.channel = channel, !.hop = hop]
           upsets == IF late > 0 THEN AirAfter(t).upsets - 1 ELSE AirAfter(t).upsets
           orderly == Orderly /\ t = OpenAt(s)
<1>2. /\ late > 0 => air.upsets > 0
      /\ air' = [AirAfter(t) EXCEPT !.upsets = upsets]
      /\ win' = [open |-> TRUE, b |-> b, channel |-> channel,
                 aa |-> IF s.rsp THEN "rsp" ELSE "own",
                 to |-> Window(s), packets |-> 0, data |-> FALSE, orderly |-> orderly]
      /\ slots' = [SlotsAfter(t) EXCEPT ![b].channel = channel, ![b].hop = hop]
  BY <1>1
<1>3. ~win.open /\ group' = group
  BY DEF ServeOpen
<1>4. /\ Types /\ SlotsInv /\ GroupInv /\ air \in AirRecord
      /\ s \in SlotRecord /\ b \in DOMAIN slots /\ b \in 1..NStreams
  BY DomainIs DEF Inv, Types
<1>5. t \in Nat /\ OpenAt(s) <= t /\ OpenAt(s) = s.next - Guard(s) /\ s.next \in Int /\ Guard(s) \in Nat
      /\ Guard(s) <= WideGuard
  <2>1. late \in Nat
    BY TimesAssumption
  <2> HIDE DEF s
  <2> QED BY <1>4, <2>1, Opening, SlotFields DEF OpenAt
<1>16. t \in Int
  BY <1>5
<1>6. slots' = [SlotsAfter(t) EXCEPT ![b] = r]
  <2>1. SlotsAfter(t) = [c \in DOMAIN slots |-> SlotAfter(slots[c], t)]
    BY DEF SlotsAfter
  <2>2. SlotsAfter(t)[b] = u
    BY <1>4, <2>1
  <2> HIDE DEF u
  <2> QED BY <1>2, <2>2
<1>7. air' \in AirRecord /\ Passes(air, air', t)
  <2>1. upsets \in Nat
    <3>1. late \in Nat
      BY TimesAssumption
    <3>2. AirAfter(t).upsets = air.upsets /\ air.upsets \in Nat
      <4> HIDE DEF t
      <4> QED BY <1>4, <1>16, AirUpsets
    <3> QED BY <1>2, <3>1, <3>2
  <2> HIDE DEF upsets, t
  <2> QED BY <1>2, <1>4, <1>16, <2>1, AirSteps
<1>8. SlotInv(air, b, s, FALSE)
  <2>1. Serving(b) = FALSE
    BY <1>3 DEF Serving, Types, Inv, Closed, WindowRecord
  <2> QED BY <1>4, <2>1 DEF SlotsInv
<1>9. SlotInv(air', b, u, FALSE)
  <2> HIDE DEF t
  <2> QED BY <1>4, <1>16, <1>7, <1>8, ShiftKeeps
<1>10. SlotInv(air', b, r, TRUE) /\ r.channel = channel /\ r.rsp = s.rsp /\ r.next = s.next - t
       /\ r.active /\ channel \in 0..NChannels-1 /\ r.locked = s.locked
       /\ r.event = s.event - t /\ r.se = s.se /\ r.overran = s.overran
  <2> DEFINE v == [u EXCEPT !.channel = ChannelFor(b, u), !.hop = Hopped(b, u)]
  <2> HIDE DEF t
  <2>1. u \in SlotRecord /\ u.rsp = s.rsp /\ u.next = s.next - t /\ u.hop = s.hop /\ u.cnt = s.cnt
        /\ u.se = s.se /\ u.channel = s.channel /\ u.locked = s.locked /\ u.event = s.event - t
        /\ u.overran = s.overran
    BY <1>4, <1>16, SlotPasses
  <2>2. ChannelFor(b, u) = channel /\ Hopped(b, u) = hop
    <3> HIDE DEF u, s
    <3>1. Hopped(b, u) = hop
      BY <2>1 DEF Hopped
    <3> QED BY <2>1, <3>1 DEF ChannelFor
  <2> HIDE DEF u
  <2>3. SlotInv(air', b, v, TRUE)
    BY <1>4, <1>9, OpenKeeps
  <2>4. v = r
    BY <2>2
  <2>5. r \in SlotRecord
    BY <2>3, <2>4 DEF SlotInv
  <2>6. r.channel = channel /\ r.rsp = u.rsp /\ r.next = u.next /\ r.active /\ r.locked = u.locked
        /\ r.event = u.event /\ r.se = u.se /\ r.overran = u.overran
    BY <2>1 DEF SlotRecord
  <2>7. channel \in 0..NChannels-1
    BY <2>5, <2>6, SlotFields
  <2> HIDE DEF r, v, channel, hop
  <2> QED BY <2>1, <2>3, <2>4, <2>6, <2>7
<1> HIDE DEF t, r, channel, hop, u, upsets, orderly
<1>11. win' \in WindowRecord
  <2>1. Window(s) \in Int /\ orderly \in BOOLEAN
    BY <1>4, WindowType DEF orderly, Orderly
  <2> QED BY <1>2, <1>4, <1>10, <2>1 DEF WindowRecord
<1>12. /\ win'.open = TRUE /\ win'.b = b /\ win'.channel = channel
       /\ win'.aa = IF s.rsp THEN "rsp" ELSE "own"
       /\ win'.to = Window(s) /\ win'.orderly = orderly
  BY <1>2
<1>13. Opened(b, t, r)
  <2>1. IsEarliest(b)
    BY <1>1
  <2>2. orderly = (Orderly /\ t = OpenAt(s))
    BY DEF orderly
  <2> QED BY <1>5, <1>6, <1>7, <1>10, <1>11, <1>12, <2>1, <2>2 DEF Opened
<1> QED BY <1>3, <1>5, <1>13

LEMMA OpenStep ==
  ASSUME Inv, ServeOpen
  PROVE  Inv'
<1>1. PICK b \in Active, t \in Nat : \E r : Opened(b, t, r)
  BY OpenParts
<1>2. PICK r : Opened(b, t, r)
  BY <1>1
<1> DEFINE s == slots[b]
<1>3. /\ OpenAt(s) <= t
      /\ air' \in AirRecord /\ Passes(air, air', t)
      /\ SlotInv(air', b, r, TRUE)
      /\ r.rsp = s.rsp /\ r.next = s.next - t /\ r.active
      /\ slots' = [SlotsAfter(t) EXCEPT ![b] = r]
      /\ win' \in WindowRecord /\ win'.open = TRUE /\ win'.b = b /\ win'.channel = r.channel
      /\ win'.aa = IF s.rsp THEN "rsp" ELSE "own"
  BY <1>2 DEF Opened
<1>4. ~win.open /\ group' = group
  BY OpenParts
<1>5. Types /\ SlotsInv /\ b \in DOMAIN slots /\ t \in Int /\ s \in SlotRecord /\ GroupInv
  BY DomainIs DEF Inv, Types
<1>6. Types' /\ SlotsInv'
  <2>1. \A c \in Active \ {b} : ~Serving(c)
    BY <1>4 DEF Serving
  <2>2. SlotInv(air', b, r, win'.open)
    BY <1>3
  <2> QED BY <1>3, <1>4, <1>5, <2>1, <2>2, StepKeeps
<1>7. slots'[b] = r
  BY <1>3, <1>5 DEF SlotsAfter
<1>8. WindowInv'
  <2>1. OpenAt(s) = s.next - Guard(s) /\ s.next \in Int /\ Guard(s) \in Nat /\ Guard(s) <= WideGuard
    <3> HIDE DEF s
    <3> QED BY <1>5, Opening, SlotFields DEF OpenAt
  <2>2. r.next <= WideGuard
    BY <1>3, <1>5, <2>1, Times
  <2> QED BY <1>3, <1>7, <2>2 DEF WindowInv
<1> QED BY <1>6, <1>8 DEF Inv

\* A good packet heard is the subevent's, if it does not stray.
LEMMA HeardIs ==
  ASSUME Inv, win.open, NEW p \in Packets(win.b), p.channel = win.channel, p.aa = win.aa,
         p.at >= 0, ~slots[win.b].rsp, ~slots[win.b].overran, ~Strays(slots[win.b], p)
  PROVE  \E j \in Int, dt \in Nat :
            LET s == slots[win.b]
            IN  /\ s.cnt = (air.n + j) % W
                /\ Explained(air, Rounding, s.next - s.se * group.sub - Start(air, win.b, j))
                /\ dt = 0 \/ (group.kind = "cis" /\ dt = Turn)
                /\ p.at = Start(air, win.b, j) + s.se * group.sub + dt
<1> DEFINE b == win.b
           s == slots[b]
           x == s.next - s.se * group.sub
<1>1. Types /\ s \in SlotRecord /\ b \in 1..NStreams /\ b \in Active /\ Serving(b) = TRUE
  BY DomainIs DEF Inv, Types, Active, Serving
<1>2. SlotInv(air, b, s, TRUE)
  BY <1>1 DEF Inv, SlotsInv
<1>3. s.channel = TrueChannel(b, s.cnt, s.se) /\ p.channel = s.channel /\ p.aa = "own"
      /\ s.next <= WideGuard
  BY <1>2 DEF SlotInv, HopInv, Inv, WindowInv
<1>4. Names(air, Rounding, b, x, s.cnt)
  <2>1. Off(s) = 0 /\ s.next \in Int /\ s.se * group.sub \in Nat
    BY <1>1, SlotFields, Places DEF Off, Types
  <2>2. s.next - Off(s) - s.se * group.sub = x
    BY <2>1
  <2>3. Names(air, Rounding, b, s.next - Off(s) - s.se * group.sub, s.cnt)
    BY <1>2 DEF SlotInv, PlaceInv
  <2> QED BY <2>2, <2>3
<1>5. PICK j \in Int : s.cnt = (air.n + j) % W /\ Explained(air, Rounding, x - Start(air, b, j))
  BY <1>4 DEF Names
<1>6. \E dt \in Nat : /\ dt = 0 \/ (group.kind = "cis" /\ dt = Turn)
                      /\ p.at = Start(air, b, j) + s.se * group.sub + dt
  BY <1>1, <1>3, <1>5, PacketIsTheSubevents
<1> QED BY <1>5, <1>6

LEMMA PacketTime ==
  ASSUME Types, NEW b \in 1..NStreams, NEW p \in Packets(b)
  PROVE  p.at \in Int
<1>1. PICK j \in Int, k \in 0..Nse-1, dt \in Nat : p.at = Start(air, b, j) + k * group.sub + dt
  BY PacketIs
<1>2. Start(air, b, j) \in Int /\ k * group.sub \in Int
  <2>1. GroupInv /\ air \in AirRecord
    BY DEF Types
  <2>2. group.sub \in Nat /\ Nse \in Nat
    BY <2>1, GroupFacts, Times
  <2>3. Start(air, b, j) \in Int
    BY <2>1, StartType
  <2> QED BY <2>2, <2>3
<1> QED BY <1>1, <1>2

\* What hearing a packet does: time passes to its end, the slot is shifted and,
\* if the packet is good, anchored on it; the window closes or waits on.
Heard(p, r, data, packets) ==
  LET t == p.at + PacketAir
      s == SlotAfter(slots[win.b], t)
  IN  /\ air' \in AirRecord /\ Passes(air, air', t)
      /\ \/ r = s
         \/ ~s.rsp /\ r = [Reanchor(s, -PacketAir) EXCEPT
                              !.overran = @ \/ Strays(slots[win.b], p)]
      /\ \/ win' = Closed
            /\ slots' = [SlotsAfter(t) EXCEPT ![win.b] = Close(r, data)]
         \/ win' = [win EXCEPT !.to = @ - t, !.packets = packets, !.data = data]
            /\ slots' = [SlotsAfter(t) EXCEPT ![win.b] = r]

LEMMA HearParts ==
  ASSUME Inv, Hear
  PROVE  /\ win.open /\ group' = group
         /\ \E p \in Packets(win.b), data \in BOOLEAN, packets \in Nat : \E r :
              /\ p.at \in Int /\ p.at >= 0 /\ p.channel = win.channel /\ p.aa = win.aa
              /\ SlotInv(air', win.b, r, TRUE)
              /\ Heard(p, r, data, packets)
<1> DEFINE b == win.b
<1>1. win.open /\ group' = group
  BY DEF Hear
<1>2. PICK p \in Coming, good \in BOOLEAN :
         /\ good \/ air.upsets > 0
         /\ \E t \in {p.at + PacketAir} :
            \E s \in {SlotAfter(slots[b], t)} :
            \E r \in {IF good /\ ~s.rsp
                   THEN [Reanchor(s, -PacketAir) EXCEPT
                           !.overran = @ \/ Strays(slots[b], p)]
                   ELSE s} :
            LET w == [win EXCEPT !.to = @ - t, !.packets = @ + 1, !.data = @ \/ good]
                done == r.locked /\ ~r.rsp /\ w.packets >= Want
            IN  /\ air' = [AirAfter(t) EXCEPT !.upsets = IF good THEN @ ELSE @ - 1]
                /\ slots' = [SlotsAfter(t) EXCEPT ![b] = IF done THEN Close(r, w.data) ELSE r]
                /\ win' = IF done THEN Closed ELSE w
  BY DEF Hear
<1>7. PICK t \in {p.at + PacketAir} :
            \E s \in {SlotAfter(slots[b], t)} :
            \E r \in {IF good /\ ~s.rsp
                   THEN [Reanchor(s, -PacketAir) EXCEPT
                           !.overran = @ \/ Strays(slots[b], p)]
                   ELSE s} :
            LET w == [win EXCEPT !.to = @ - t, !.packets = @ + 1, !.data = @ \/ good]
                done == r.locked /\ ~r.rsp /\ w.packets >= Want
            IN  /\ air' = [AirAfter(t) EXCEPT !.upsets = IF good THEN @ ELSE @ - 1]
                /\ slots' = [SlotsAfter(t) EXCEPT ![b] = IF done THEN Close(r, w.data) ELSE r]
                /\ win' = IF done THEN Closed ELSE w
  BY <1>2
<1>12. PICK s \in {SlotAfter(slots[b], t)} :
            \E r \in {IF good /\ ~s.rsp
                   THEN [Reanchor(s, -PacketAir) EXCEPT
                           !.overran = @ \/ Strays(slots[b], p)]
                   ELSE s} :
            LET w == [win EXCEPT !.to = @ - t, !.packets = @ + 1, !.data = @ \/ good]
                done == r.locked /\ ~r.rsp /\ w.packets >= Want
            IN  /\ air' = [AirAfter(t) EXCEPT !.upsets = IF good THEN @ ELSE @ - 1]
                /\ slots' = [SlotsAfter(t) EXCEPT ![b] = IF done THEN Close(r, w.data) ELSE r]
                /\ win' = IF done THEN Closed ELSE w
  BY <1>7
<1>13. PICK r \in {IF good /\ ~s.rsp
                   THEN [Reanchor(s, -PacketAir) EXCEPT
                           !.overran = @ \/ Strays(slots[b], p)]
                   ELSE s} :
            LET w == [win EXCEPT !.to = @ - t, !.packets = @ + 1, !.data = @ \/ good]
                done == r.locked /\ ~r.rsp /\ w.packets >= Want
            IN  /\ air' = [AirAfter(t) EXCEPT !.upsets = IF good THEN @ ELSE @ - 1]
                /\ slots' = [SlotsAfter(t) EXCEPT ![b] = IF done THEN Close(r, w.data) ELSE r]
                /\ win' = IF done THEN Closed ELSE w
  BY <1>12
<1> DEFINE w == [win EXCEPT !.to = @ - t, !.packets = @ + 1, !.data = @ \/ good]
           done == r.locked /\ ~r.rsp /\ w.packets >= Want
           upsets == IF good THEN AirAfter(t).upsets ELSE AirAfter(t).upsets - 1
<1>14. t = p.at + PacketAir /\ s = SlotAfter(slots[b], t)
  OBVIOUS
<1>15. r = IF good /\ ~s.rsp
           THEN [Reanchor(s, -PacketAir) EXCEPT !.overran = @ \/ Strays(slots[b], p)]
           ELSE s
  OBVIOUS
<1>3. /\ good \/ air.upsets > 0
      /\ air' = [AirAfter(t) EXCEPT !.upsets = upsets]
      /\ slots' = [SlotsAfter(t) EXCEPT ![b] = IF done THEN Close(r, w.data) ELSE r]
      /\ win' = IF done THEN Closed ELSE w
  BY <1>2, <1>13
<1>4. /\ Types /\ SlotsInv /\ GroupInv /\ air \in AirRecord /\ win \in WindowRecord
      /\ slots[b] \in SlotRecord /\ b \in 1..NStreams /\ b \in Active /\ Serving(b) = TRUE
  <2>1. win \in WindowRecord
    BY <1>1 DEF Inv, Types, Closed
  <2> QED BY <1>1, <2>1, DomainIs DEF Inv, Types, Active, Serving
<1>5. p \in Packets(b) /\ p.channel = win.channel /\ p.aa = win.aa /\ p.at >= 0
  BY DEF Coming, InReach
<1>6. p.at \in Int /\ t \in Int
  <2>1. p.at \in Int
    BY <1>4, <1>5, PacketTime
  <2> QED BY <2>1, Times
<1>8. air' \in AirRecord /\ Passes(air, air', t)
  <2>1. AirAfter(t).upsets = air.upsets /\ air.upsets \in Nat
    BY <1>4, <1>6, AirUpsets
  <2>2. upsets \in Nat
    BY <1>3, <2>1
  <2> HIDE DEF upsets
  <2> QED BY <1>3, <1>4, <1>6, <2>2, AirSteps
<1>9. SlotInv(air, b, slots[b], TRUE)
  BY <1>4 DEF SlotsInv
<1>10. SlotInv(air', b, s, TRUE)
  BY <1>4, <1>6, <1>8, <1>9, <1>14, ShiftKeeps
<1>11. /\ s \in SlotRecord /\ s.se = slots[b].se /\ s.rsp = slots[b].rsp
       /\ s.overran = slots[b].overran /\ s.cnt = slots[b].cnt
  BY <1>4, <1>6, <1>14, SlotPasses
<1>22. ASSUME good /\ ~s.rsp
       PROVE  SlotInv(air', b, r, TRUE)
  <2> DEFINE overran == s.overran \/ Strays(slots[b], p)
             start == -PacketAir - s.se * group.sub
  <2>1. r = [Reanchor(s, -PacketAir) EXCEPT !.overran = overran]
    <3>1. Reanchor(s, -PacketAir).overran = s.overran
      BY <1>11 DEF Reanchor, SlotRecord
    <3> QED BY <1>22, <1>15, <3>1
  <2>2. ASSUME ~overran PROVE Names(air', 0, b, start, s.cnt)
    <3>1. ~slots[b].rsp /\ ~slots[b].overran /\ ~Strays(slots[b], p)
      BY <1>11, <1>22, <2>2
    <3>2. PICK j \in Int, dt \in Nat :
            /\ slots[b].cnt = (air.n + j) % W
            /\ dt = 0 \/ (group.kind = "cis" /\ dt = Turn)
            /\ p.at = Start(air, b, j) + slots[b].se * group.sub + dt
      BY <1>1, <1>5, <3>1, HeardIs
    <3> DEFINE x == p.at - s.se * group.sub
    <3>3. s.se * group.sub \in Nat /\ Start(air, b, j) \in Int
      BY <1>4, <1>11, Places, StartType
    <3>4. x \in Int /\ x - Start(air, b, j) = dt
      BY <1>6, <1>11, <3>2, <3>3
    <3> HIDE DEF x
    <3>5. Explained(air, 0, x - Start(air, b, j))
      <4>1. Small(air, 0, 0) /\ (group.kind = "cis" => Turn - (PacketAir + Ifs) = 0)
        BY Times DEF Small, Turn
      <4> QED BY <3>2, <3>4, <4>1 DEF Explained
    <3>6. Names(air, 0, b, x, s.cnt)
      BY <1>11, <3>2, <3>5 DEF Names
    <3>7. Names(air', 0, b, x - t, s.cnt)
      BY <1>4, <1>6, <1>8, <3>4, <3>6, NamesAfter
    <3>8. x - t = start
      BY <1>6, <1>14, <3>3, Times DEF x
    <3> QED BY <3>7, <3>8
  <2>3. overran \in BOOLEAN /\ -PacketAir \in Int /\ (s.overran => overran)
    BY <1>11, Times, SlotFields DEF Strays
  <2> HIDE DEF overran
  <2>4. SlotInv(air', b, r, TRUE)
    BY <1>4, <1>10, <1>22, <2>1, <2>2, <2>3, ReanchorKeeps
  <2> QED BY <2>4
<1>16. SlotInv(air', b, r, TRUE)
  BY <1>10, <1>22, <1>15
<1>17. /\ w.packets \in Nat /\ w.data \in BOOLEAN
       /\ w = [win EXCEPT !.to = @ - t, !.packets = w.packets, !.data = w.data]
  <2>1. win.packets + 1 \in Nat /\ (win.data \/ good) \in BOOLEAN
    BY <1>4 DEF WindowRecord
  <2>2. w.packets = win.packets + 1 /\ w.data = (win.data \/ good)
    BY <1>4 DEF WindowRecord
  <2> QED BY <2>1, <2>2
<1>18. \/ r = s
       \/ ~s.rsp /\ r = [Reanchor(s, -PacketAir) EXCEPT !.overran = @ \/ Strays(slots[b], p)]
  BY <1>15
<1>19. \/ win' = Closed /\ slots' = [SlotsAfter(t) EXCEPT ![b] = Close(r, w.data)]
       \/ win' = w /\ slots' = [SlotsAfter(t) EXCEPT ![b] = r]
  BY <1>3
<1> HIDE DEF w, done, upsets
<1>20. \/ win' = Closed /\ slots' = [SlotsAfter(t) EXCEPT ![b] = Close(r, w.data)]
       \/ /\ win' = [win EXCEPT !.to = @ - t, !.packets = w.packets, !.data = w.data]
          /\ slots' = [SlotsAfter(t) EXCEPT ![b] = r]
  BY <1>17, <1>19
<1>21. PICK data \in BOOLEAN, packets \in Nat : data = w.data /\ packets = w.packets
  BY <1>17
<1>23. Heard(p, r, data, packets)
  BY <1>8, <1>14, <1>18, <1>20, <1>21 DEF Heard
<1> QED BY <1>1, <1>5, <1>6, <1>16, <1>23

\* Hearing a packet moves the anchor, and nothing else that the window is for.
LEMMA HeardFields ==
  ASSUME Inv, win.open, NEW p, p.at \in Int, NEW r, NEW data, NEW packets, Heard(p, r, data, packets)
  PROVE  LET s == slots[win.b]
             t == p.at + PacketAir
         IN  /\ s \in SlotRecord
             /\ r.channel = s.channel /\ r.rsp = s.rsp /\ r.se = s.se /\ r.next = s.next - t
             /\ s.locked => r.locked
             /\ \/ r.event = s.event - t /\ r.overran = s.overran
                \/ /\ ~s.rsp /\ r.event = -PacketAir - s.se * group.sub
                   /\ ~r.overran => ~s.overran /\ ~Strays(s, p)
<1> DEFINE s == slots[win.b]
           t == p.at + PacketAir
           u == SlotAfter(s, t)
           start == -PacketAir - u.se * group.sub
           overran == u.overran \/ Strays(s, p)
           v == [u EXCEPT !.anchor = start, !.event = start, !.anchorCnt = u.cnt, !.locked = TRUE]
           q == [v EXCEPT !.overran = @ \/ Strays(s, p)]
<1>1. s \in SlotRecord /\ t \in Int
  BY DomainIs, Times DEF Inv, Types, Active
<1>2. \/ r = u
      \/ ~u.rsp /\ r = q
  BY DEF Heard, Reanchor
<1> HIDE DEF t, s
<1>3. /\ u \in SlotRecord /\ u.channel = s.channel /\ u.rsp = s.rsp /\ u.se = s.se
      /\ u.next = s.next - t /\ u.locked = s.locked /\ u.event = s.event - t
      /\ u.overran = s.overran
  BY <1>1, SlotPasses
<1> HIDE DEF u
<1>4. CASE r = u
  BY <1>1, <1>3, <1>4 DEF s, t
<1>5. CASE ~u.rsp /\ r = q
  <2>1. v.overran = u.overran /\ DOMAIN v = DOMAIN u
    BY <1>3 DEF SlotRecord
  <2>2. q = [v EXCEPT !.overran = overran]
    BY <2>1
  <2> HIDE DEF start, overran, q
  <2>3. v.channel = u.channel /\ v.rsp = u.rsp /\ v.se = u.se /\ v.next = u.next /\ v.locked = TRUE
        /\ v.event = start
    BY <1>3 DEF SlotRecord
  <2>4. q.channel = v.channel /\ q.rsp = v.rsp /\ q.se = v.se /\ q.next = v.next
        /\ q.locked = v.locked /\ q.event = v.event /\ q.overran = overran
    BY <1>3, <2>2 DEF SlotRecord
  <2> HIDE DEF v
  <2>5. /\ r.channel = s.channel /\ r.rsp = s.rsp /\ r.se = s.se /\ r.next = s.next - t
        /\ r.locked = TRUE
        /\ ~s.rsp /\ r.event = -PacketAir - s.se * group.sub
    BY <1>3, <1>5, <2>3, <2>4 DEF start
  <2>6. ~r.overran => ~s.overran /\ ~Strays(s, p)
    BY <1>3, <1>5, <2>4 DEF overran
  <2> QED BY <1>1, <2>5, <2>6 DEF s, t
<1> QED BY <1>2, <1>4, <1>5

LEMMA HearStep ==
  ASSUME Inv, Hear
  PROVE  Inv'
<1> DEFINE b == win.b
           s == slots[b]
<1>1. win.open /\ group' = group
  BY HearParts
<1>2. PICK p \in Packets(b), data \in BOOLEAN, packets \in Nat : \E r :
              /\ p.at \in Int /\ p.at >= 0
              /\ SlotInv(air', b, r, TRUE)
              /\ Heard(p, r, data, packets)
  BY HearParts
<1>3. PICK r : /\ p.at \in Int /\ p.at >= 0
               /\ SlotInv(air', b, r, TRUE)
               /\ Heard(p, r, data, packets)
  BY <1>2
<1> DEFINE t == p.at + PacketAir
<1>4. /\ s \in SlotRecord
      /\ r.channel = s.channel /\ r.rsp = s.rsp /\ r.next = s.next - t
  BY <1>1, <1>3, HeardFields
<1>5. t \in Int /\ t >= 0
  BY <1>3, Times
<1>6. /\ air' \in AirRecord /\ Passes(air, air', t)
      /\ \/ win' = Closed /\ slots' = [SlotsAfter(t) EXCEPT ![b] = Close(r, data)]
         \/ win' = [win EXCEPT !.to = @ - t, !.packets = packets, !.data = data]
            /\ slots' = [SlotsAfter(t) EXCEPT ![b] = r]
  BY <1>3 DEF Heard
<1>7. Types /\ SlotsInv /\ WindowInv /\ GroupInv /\ b \in Active /\ win \in WindowRecord
      /\ b \in DOMAIN slots /\ b \in 1..NStreams
      /\ \A c \in Active \ {b} : ~Serving(c)
  <2>1. win \in WindowRecord
    BY <1>1 DEF Inv, Types, Closed
  <2> QED BY <1>1, <2>1, DomainIs DEF Inv, Types, Active, Serving
<1> HIDE DEF t, b
<1>8. CASE win' = Closed /\ slots' = [SlotsAfter(t) EXCEPT ![b] = Close(r, data)]
  <2>1. Close(r, data) = Free \/ SlotInv(air', b, Close(r, data), FALSE)
    BY <1>3, <1>6, <1>7, CloseKeeps
  <2>2. win'.open = FALSE /\ win' \in WindowRecord \cup {Closed}
    BY <1>8 DEF Closed
  <2> DEFINE q == Close(r, data)
  <2>3. q = Free \/ SlotInv(air', b, q, win'.open)
    BY <2>1, <2>2
  <2>4. slots' = [SlotsAfter(t) EXCEPT ![b] = q]
    BY <1>8
  <2> HIDE DEF q
  <2>5. Types' /\ SlotsInv'
    BY <1>1, <1>5, <1>6, <1>7, <2>2, <2>3, <2>4, StepKeeps
  <2>6. WindowInv'
    BY <2>2 DEF WindowInv
  <2> QED BY <2>5, <2>6 DEF Inv
<1>9. CASE /\ win' = [win EXCEPT !.to = @ - t, !.packets = packets, !.data = data]
           /\ slots' = [SlotsAfter(t) EXCEPT ![b] = r]
  <2>1. win' \in WindowRecord /\ win'.open = TRUE /\ win'.b = win.b /\ win'.channel = win.channel
        /\ win'.aa = win.aa
    <3>1. win.to - t \in Int
      BY <1>5, <1>7 DEF WindowRecord
    <3> DEFINE to == win.to - t
    <3>2. win' = [win EXCEPT !.to = to, !.packets = packets, !.data = data]
      BY <1>9
    <3> HIDE DEF to
    <3>3. to \in Int
      BY <3>1 DEF to
    <3> QED BY <1>7, <3>2, <3>3 DEF WindowRecord
  <2>2. r.active /\ SlotInv(air', b, r, win'.open)
    <3>1. r \in SlotRecord
      BY <1>3 DEF SlotInv
    <3> QED BY <1>3, <2>1, <3>1, SlotFields
  <2>3. win'.b = b
    BY <2>1 DEF b
  <2>4. Types' /\ SlotsInv'
    BY <1>1, <1>5, <1>6, <1>7, <1>9, <2>1, <2>2, <2>3, StepKeeps
  <2>5. slots'[b] = r
    BY <1>7, <1>9 DEF SlotsAfter
  <2>6. /\ win.channel = s.channel /\ win.aa = (IF s.rsp THEN "rsp" ELSE "own")
        /\ s.next <= WideGuard
    BY <1>1, <1>7 DEF WindowInv, b
  <2>7. r.next <= WideGuard
    <3>1. s.next \in Int
      BY <1>4, SlotFields
    <3> HIDE DEF s
    <3> QED BY <1>4, <1>5, <2>6, <3>1, Times
  <2>8. WindowInv'
    BY <1>4, <2>1, <2>3, <2>5, <2>6, <2>7 DEF WindowInv
  <2> QED BY <2>4, <2>8 DEF Inv
<1> QED BY <1>6, <1>8, <1>9

LEMMA LoseStep ==
  ASSUME Inv, Lose
  PROVE  Inv'
<1> DEFINE b == win.b
           s == slots[b]
<1>1. PICK p \in Coming :
         /\ air' = AirAfter(p.at + 1)
         /\ slots' = SlotsAfter(p.at + 1)
         /\ win' = [win EXCEPT !.to = @ - (p.at + 1)]
  BY DEF Lose
<1>2. win.open /\ group' = group
  BY DEF Lose
<1> DEFINE t == p.at + 1
           r == SlotAfter(s, t)
<1>3. Types /\ SlotsInv /\ WindowInv /\ GroupInv /\ b \in Active /\ win \in WindowRecord
      /\ b \in DOMAIN slots /\ b \in 1..NStreams /\ s \in SlotRecord /\ air \in AirRecord
      /\ \A c \in Active \ {b} : ~Serving(c)
  <2>1. win \in WindowRecord
    BY <1>2 DEF Inv, Types, Closed
  <2> QED BY <1>2, <2>1, DomainIs DEF Inv, Types, Active, Serving
<1>4. p.at >= 0 /\ p.at \in Int
  <2>1. p \in Packets(b) /\ p.at >= 0
    BY DEF Coming, InReach
  <2> QED BY <1>3, <2>1, PacketTime
<1>5. t \in Int /\ t >= 0
  BY <1>4
<1>6. slots' = [SlotsAfter(t) EXCEPT ![b] = r]
  <2>1. SlotsAfter(t) = [c \in DOMAIN slots |-> SlotAfter(slots[c], t)]
    BY DEF SlotsAfter
  <2> QED BY <1>1, <1>3, <2>1
<1>7. air' \in AirRecord /\ Passes(air, air', t)
  <2> HIDE DEF t
  <2>1. air' = AirAfter(t)
    BY <1>1 DEF t
  <2> QED BY <1>3, <1>5, <2>1, AirPasses
<1>8. win' = [win EXCEPT !.to = @ - t]
  BY <1>1
<1> HIDE DEF t
<1>9. SlotInv(air, b, s, TRUE)
  <2>1. Serving(b) = TRUE
    BY <1>2 DEF Serving
  <2> QED BY <1>3, <2>1 DEF SlotsInv
<1>10. SlotInv(air', b, r, TRUE)
  BY <1>3, <1>5, <1>7, <1>9, ShiftKeeps
<1>11. r.active /\ r.channel = s.channel /\ r.rsp = s.rsp /\ r.next = s.next - t /\ s.next \in Int
  BY <1>3, <1>5, SlotPasses, SlotFields
<1>12. win' \in WindowRecord /\ win'.open = TRUE /\ win'.b = win.b /\ win'.channel = win.channel
        /\ win'.aa = win.aa
  <2> DEFINE to == win.to - t
  <2>1. to \in Int
    BY <1>3, <1>5 DEF WindowRecord
  <2>2. win' = [win EXCEPT !.to = to]
    BY <1>8
  <2> HIDE DEF to
  <2> QED BY <1>3, <2>1, <2>2 DEF WindowRecord
<1> HIDE DEF r
<1>13. Types' /\ SlotsInv'
  <2>1. SlotInv(air', b, r, win'.open)
    BY <1>10, <1>12
  <2> QED BY <1>2, <1>3, <1>5, <1>6, <1>7, <1>11, <1>12, <2>1, StepKeeps
<1>14. slots'[b] = r
  BY <1>3, <1>6 DEF SlotsAfter
<1>15. WindowInv'
  <2>1. /\ win.channel = s.channel /\ win.aa = (IF s.rsp THEN "rsp" ELSE "own")
        /\ s.next <= WideGuard
    BY <1>2, <1>3 DEF WindowInv
  <2>2. r.next <= WideGuard
    BY <1>5, <1>11, <2>1, Times
  <2> QED BY <1>11, <1>12, <1>14, <2>1, <2>2 DEF WindowInv
<1> QED BY <1>13, <1>15 DEF Inv

LEMMA CloseStep ==
  ASSUME Inv, ServeClose
  PROVE  Inv'
<1> DEFINE b == win.b
           s == slots[b]
           t == win.to
           u == SlotAfter(s, t)
           r == Close(u, win.data)
<1>1. win.open /\ group' = group /\ air' = AirAfter(t) /\ win' = Closed
  BY DEF ServeClose
<1>2. slots' = [SlotsAfter(t) EXCEPT ![b] = r]
  BY DEF ServeClose
<1>3. Types /\ SlotsInv /\ GroupInv /\ b \in Active /\ win \in WindowRecord
      /\ b \in 1..NStreams /\ s \in SlotRecord /\ air \in AirRecord
      /\ t \in Int /\ win.data \in BOOLEAN
      /\ \A c \in Active \ {b} : ~Serving(c)
  <2>1. win \in WindowRecord
    BY <1>1 DEF Inv, Types, Closed
  <2>2. win.to \in Int /\ win.data \in BOOLEAN
    BY <2>1 DEF WindowRecord
  <2> QED BY <1>1, <2>1, <2>2, DomainIs DEF Inv, Types, Active, Serving
<1>4. air' \in AirRecord /\ Passes(air, air', t)
  BY <1>1, <1>3, AirPasses
<1>5. SlotInv(air, b, s, TRUE)
  <2>1. Serving(b) = TRUE
    BY <1>1 DEF Serving
  <2> QED BY <1>3, <2>1 DEF SlotsInv
<1>6. SlotInv(air', b, u, TRUE)
  BY <1>3, <1>4, <1>5, ShiftKeeps
<1> HIDE DEF u, t
<1>7. win'.open = FALSE /\ win' \in WindowRecord \cup {Closed}
  BY <1>1 DEF Closed
<1>8. r = Free \/ SlotInv(air', b, r, win'.open)
  <2>1. r = Free \/ SlotInv(air', b, r, FALSE)
    BY <1>3, <1>4, <1>6, CloseKeeps
  <2> QED BY <1>7, <2>1
<1> HIDE DEF r
<1>9. Types' /\ SlotsInv'
  BY <1>1, <1>2, <1>3, <1>4, <1>7, <1>8, StepKeeps
<1>10. WindowInv'
  BY <1>7 DEF WindowInv
<1> QED BY <1>9, <1>10 DEF Inv

\* Steps that change nothing but the air.
LEMMA QuietStep ==
  ASSUME Inv, UNCHANGED <<group, slots, win>>, air' \in AirRecord,
         \A c \in Active : SlotInv(air', c, slots[c], Serving(c))
  PROVE  Inv'
<1>1. Types'
  BY GroupNext DEF Inv, Types
<1>2. SlotsInv'
  <2>1. ASSUME NEW c \in Active'
        PROVE  SlotInv(air', c, slots'[c], Serving(c)')
    <3>1. c \in Active /\ slots'[c] = slots[c]
      BY DEF Active
    <3>2. Serving(c)' = Serving(c)
      BY DEF Serving
    <3> QED BY <3>1, <3>2
  <2> QED BY <2>1, SlotsNext
<1>3. WindowInv'
  BY DEF Inv, WindowInv
<1> QED BY <1>1, <1>2, <1>3 DEF Inv

LEMMA FadeStep ==
  ASSUME Inv, FadeIn \/ FadeOut \/ End
  PROVE  Inv'
<1>1. UNCHANGED <<group, slots, win>>
  BY DEF FadeIn, FadeOut, End
<1>2. air \in AirRecord
  BY DEF Inv, Types
<1>3. air' \in AirRecord /\ air'.n = air.n /\ air'.at = air.at /\ air'.drift = air.drift
  <2>1. CASE FadeIn
    <3>1. air.upsets - 1 \in Nat
      BY <1>2, <2>1 DEF FadeIn, AirRecord
    <3> QED BY <1>2, <2>1, <3>1 DEF FadeIn, AirRecord
  <2>2. CASE FadeOut
    BY <1>2, <2>2 DEF FadeOut, AirRecord
  <2>3. CASE End
    BY <1>2, <2>3 DEF End, AirRecord
  <2> QED BY <2>1, <2>2, <2>3
<1>4. \A c \in Active : SlotInv(air', c, slots[c], Serving(c))
  BY <1>3, SameAirKeeps DEF Inv, SlotsInv
<1> QED BY <1>1, <1>3, <1>4, QuietStep

LEMMA DriftStep ==
  ASSUME Inv, Drift
  PROVE  Inv'
<1>1. PICK d \in -MaxDrift..MaxDrift : air' = [air EXCEPT !.at = @ + d, !.drift = d]
  BY DEF Drift
<1>2. UNCHANGED <<group, slots, win>> /\ air.drift = 0
  BY DEF Drift
<1>3. air \in AirRecord /\ GroupInv /\ d \in Int
  BY Times DEF Inv, Types
<1>4. air' \in AirRecord /\ air'.n = air.n /\ air'.at = air.at + d /\ air'.drift = d
  <2>1. air.at + d \in Int
    BY <1>3, AirFields
  <2> QED BY <1>1, <1>3, <2>1 DEF AirRecord
<1>5. \A c \in Active : SlotInv(air', c, slots[c], Serving(c))
  <2> TAKE c \in Active
  <2>1. c \in 1..NStreams /\ SlotInv(air, c, slots[c], Serving(c))
    BY DomainIs DEF Inv, SlotsInv
  <2> QED BY <1>2, <1>3, <1>4, <2>1, DriftKeeps
<1> QED BY <1>2, <1>4, <1>5, QuietStep

LEMMA InitInv == Init => Inv
<1> SUFFICES ASSUME Init PROVE Inv
  OBVIOUS
<1>1. PICK kind \in Kinds, y \in Layouts, n \in Starts, e \in Errors :
    /\ kind # "bis" => y.sub > 2 * PacketAir + Ifs + RspDelay
    /\ group = [kind |-> kind, sub |-> y.sub, spacing |-> y.spacing]
    /\ air = [n |-> n, at |-> WideGuard + e, on |-> TRUE, fading |-> FALSE,
              upsets |-> MaxUpsets, drift |-> 0]
    /\ slots = [b \in IF kind = "bis" THEN 1..NStreams ELSE {1} |->
                  LET at == WideGuard + (b - 1) * y.spacing
                  IN  [active |-> TRUE, locked |-> FALSE, cnt |-> n, anchorCnt |-> n,
                       anchor |-> at, event |-> at, next |-> at, se |-> 0,
                       miss |-> 0, hit |-> FALSE, rsp |-> FALSE, channel |-> 0,
                       hop |-> [lu |-> 0, index |-> 0], overran |-> FALSE]]
    /\ win = Closed
  BY DEF Init
<1>2. y.sub \in Nat \ {0} /\ y.spacing \in Nat /\ n \in 0..W-1 /\ e \in 0..Rounding /\ e \in Int
  BY LayoutsAssumption, StreamsAssumption, TimesAssumption, Times
<1>3. /\ group.kind = kind /\ group.sub = y.sub /\ group.spacing = y.spacing
      /\ group \in [kind : Kinds, sub : Nat \ {0}, spacing : Nat]
  BY <1>1, <1>2
<1>4. GroupInv
  BY <1>1, <1>3 DEF GroupInv
<1>5. air \in AirRecord /\ air.n = n /\ air.at = WideGuard + e /\ air.drift = 0
  <2>1. WideGuard + e \in Int /\ 0 \in -MaxDrift..MaxDrift /\ MaxUpsets \in Nat
    BY <1>2, Times
  <2> QED BY <1>1, <1>2, <2>1 DEF AirRecord
<1> DEFINE at(b) == WideGuard + (b - 1) * y.spacing
           s(b) == [active |-> TRUE, locked |-> FALSE, cnt |-> n, anchorCnt |-> n,
                    anchor |-> at(b), event |-> at(b), next |-> at(b), se |-> 0,
                    miss |-> 0, hit |-> FALSE, rsp |-> FALSE, channel |-> 0,
                    hop |-> [lu |-> 0, index |-> 0], overran |-> FALSE]
<1>6. ASSUME NEW b \in 1..NStreams
      PROVE  s(b) \in SlotRecord /\ SlotInv(air, b, s(b), FALSE)
  <2> DEFINE x == at(b)
             t == s(b)
             hop == [lu |-> 0, index |-> 0]
  <2>1. x \in Int /\ x = WideGuard + (b - 1) * y.spacing /\ (b - 1) * y.spacing \in Int
    BY <1>2, Times
  <2> HIDE DEF at
  <2>2. hop \in HopRecord
    BY MapFacts DEF HopRecord
  <2>3. 0 \in 0..Nse-1 /\ 0 \in 0..NChannels-1
    BY Times, MapFacts
  <2>4. /\ t \in SlotRecord /\ t.anchor = x /\ t.event = x /\ t.next = x /\ t.cnt = n
        /\ t.anchorCnt = n /\ ~t.rsp /\ t.se = 0 /\ ~t.overran /\ t.locked = FALSE
    <3> HIDE DEF hop, x
    <3>1. t = [active |-> TRUE, locked |-> FALSE, cnt |-> n, anchorCnt |-> n,
               anchor |-> x, event |-> x, next |-> x, se |-> 0,
               miss |-> 0, hit |-> FALSE, rsp |-> FALSE, channel |-> 0,
               hop |-> hop, overran |-> FALSE]
      BY DEF hop, x
    <3> HIDE DEF t
    <3>2. t \in SlotRecord
      BY <1>2, <2>1, <2>2, <2>3, <3>1 DEF SlotRecord
    <3> QED BY <3>1, <3>2
  <2> HIDE DEF t, x
  <2>5. Off(t) = 0 /\ t.se * group.sub = 0 /\ x - 0 - 0 = x /\ x + 0 + 0 = x
    BY <1>2, <1>3, <2>1, <2>4 DEF Off
  <2>6. \E m \in Int : t.event = t.anchor + m * Interval /\ t.cnt = (t.anchorCnt + m) % W
    <3>1. x = x + 0 * Interval /\ n + 0 = n
      BY <1>2, <2>1, Times
    <3>2. n % W = n
      BY <1>2, Times, ModSmall
    <3> QED BY <2>4, <3>1, <3>2
  <2>7. Names(air, Rounding, b, x, n) /\ Rounded(t) = Rounding
    <3>1. x - Start(air, b, 0) = -e
      BY <1>2, <1>3, <1>5, <2>1, Times DEF Start
    <3>2. n = (air.n + 0) % W
      BY <1>2, <1>5, Times, ModSmall
    <3>3. Small(air, Rounding, -e)
      BY <1>2, <1>5, Times DEF Small
    <3>4. Rounded(t) = Rounding
      BY <2>4 DEF Rounded
    <3> QED BY <3>1, <3>2, <3>3, <3>4 DEF Names, Explained
  <2>8. HopInv(b, t, FALSE) /\ PlaceInv(air, b, t)
    BY <2>4, <2>5, <2>7 DEF HopInv, PlaceInv
  <2>9. SlotInv(air, b, t, FALSE)
    BY <2>4, <2>5, <2>6, <2>8 DEF SlotInv
  <2> QED BY <2>4, <2>9 DEF t
<1>7. slots = [b \in IF kind = "bis" THEN 1..NStreams ELSE {1} |-> s(b)]
  BY <1>1
<1> HIDE DEF s
<1>8. DOMAIN slots \subseteq 1..NStreams /\ (\A b \in DOMAIN slots : slots[b] = s(b))
      /\ slots \in [IF group.kind = "bis" THEN 1..NStreams ELSE {1} -> SlotRecord \cup {Free}]
  <2>1. 1 \in 1..NStreams
    BY Times
  <2> QED BY <1>3, <1>6, <1>7, <2>1
<1>9. win.open = FALSE
  BY <1>1 DEF Closed
<1>10. Types
  BY <1>1, <1>4, <1>5, <1>8, <1>9 DEF Types
<1>11. SlotsInv
  <2> SUFFICES ASSUME NEW b \in Active PROVE SlotInv(air, b, slots[b], Serving(b))
    BY DEF SlotsInv
  <2>1. Serving(b) = FALSE
    BY <1>9 DEF Serving
  <2>2. b \in 1..NStreams /\ slots[b] = s(b)
    BY <1>8 DEF Active
  <2> QED BY <1>6, <2>1, <2>2
<1> QED BY <1>9, <1>10, <1>11 DEF Inv, WindowInv

LEMMA NextInv == Inv /\ [Next]_vars => Inv'
<1> SUFFICES ASSUME Inv, [Next]_vars PROVE Inv'
  OBVIOUS
<1>1. CASE ServeOpen
  BY <1>1, OpenStep
<1>2. CASE Hear
  BY <1>2, HearStep
<1>3. CASE Lose
  BY <1>3, LoseStep
<1>4. CASE ServeClose
  BY <1>4, CloseStep
<1>5. CASE FadeIn \/ FadeOut \/ End
  BY <1>5, FadeStep
<1>6. CASE Drift
  BY <1>6, DriftStep
<1>7. CASE UNCHANGED vars
  <2>1. UNCHANGED <<group, slots, win>> /\ air' = air /\ air \in AirRecord
    BY <1>7 DEF vars, Inv, Types
  <2>2. \A c \in Active : SlotInv(air', c, slots[c], Serving(c))
    BY <2>1 DEF Inv, SlotsInv
  <2> QED BY <2>1, <2>2, QuietStep
<1> QED BY <1>1, <1>2, <1>3, <1>4, <1>5, <1>6, <1>7 DEF Next, Progress

\* Types, slots and the open window: what the invariants rest on.
THEOREM StreamsKnown == Spec => []Inv
BY InitInv, NextInv, PTL DEF Spec

----------------------------------------------------------------------------
(* The event nearest to a time is the one the time is explained by.        *)

LEMMA Margins ==
  ASSUME GroupInv
  PROVE  /\ Interval \div 2 \in Nat
         /\ MaxDrift + Rounding <= Interval \div 2
         /\ MaxDrift + Turn + (Interval \div 2) < Interval
<1>1. /\ Interval \in Nat \ {0} /\ MaxDrift \in Nat /\ Rounding \in Nat /\ Turn \in Nat
      /\ (Nse - 1) * group.sub \in Nat /\ WideGuard \in Nat
  <2>1. Nse - 1 \in Nat /\ group.sub \in Nat
    BY Times, GroupFacts
  <2>2. (Nse - 1) * group.sub \in Nat
    BY <2>1
  <2> QED BY <2>2, Times DEF Turn
<1>2. WideGuard + 2 * Turn + MaxDrift < Interval
  <2> DEFINE r == Reach(group.kind)
             m == (Nse - 1) * group.sub
  <2>1. r \in Nat /\ WideGuard + 2 * Turn + MaxDrift <= r
    BY ReachIs
  <2>2. m + r < Interval
    BY GroupFacts
  <2> HIDE DEF r, m
  <2> QED BY <1>1, <2>1, <2>2 DEF m
<1>3. MaxDrift <= WideGuard /\ 2 * (MaxDrift + Rounding) <= Interval
  BY TimesAssumption, LayoutsAssumption
<1>4. Interval \div 2 \in Nat /\ 2 * (Interval \div 2) <= Interval
      /\ Interval <= 2 * (Interval \div 2) + 1
  BY <1>1
<1> DEFINE half == Interval \div 2
<1> HIDE DEF half
<1>5. half \in Nat /\ 2 * half <= Interval /\ Interval <= 2 * half + 1
  BY <1>4 DEF half
<1>6. MaxDrift + Rounding <= half /\ MaxDrift + Turn + half < Interval
  BY <1>1, <1>2, <1>3, <1>5
<1> QED BY <1>5, <1>6 DEF half

LEMMA Nearest ==
  ASSUME Types, NEW b \in 1..NStreams, NEW x \in Int, NEW j \in Int, NEW r \in 0..Rounding,
         Explained(air, r, x - Start(air, b, j))
  PROVE  /\ EventAt(b, x) = j /\ ErrorAt(b, x) = x - Start(air, b, j)
         /\ Near(ErrorAt(b, x), MaxDrift + r)
<1> DEFINE half == Interval \div 2
           e == x - Start(air, b, j)
           y == x - StartOf(b, 0, 0) + half
<1>1. GroupInv /\ air \in AirRecord /\ Interval \in Nat \ {0} /\ Start(air, b, j) \in Int /\ e \in Int
      /\ MaxDrift \in Nat /\ Turn \in Nat /\ r \in Nat /\ r <= Rounding /\ Rounding \in Nat
  BY StartType, Times DEF Types, Turn
<1>2. -(MaxDrift + r) <= e /\ e <= MaxDrift + Turn
  BY <1>1, ExplainedBound
<1>3. half \in Nat /\ e + half \in 0..Interval-1
  <2>1. half \in Nat /\ MaxDrift + Rounding <= half /\ MaxDrift + Turn + half < Interval
    BY <1>1, Margins
  <2> HIDE DEF half, e
  <2> QED BY <1>1, <1>2, <2>1
<1>4. \A k \in Int : StartOf(b, k, 0) = Start(air, b, k)
  <2> TAKE k \in Int
  <2>1. Start(air, b, k) \in Int /\ 0 * group.sub = 0
    BY <1>1, StartType, GroupFacts
  <2> QED BY <2>1 DEF StartOf, Start
<1>5. y = j * Interval + (e + half)
  <2>1. Start(air, b, j) = Start(air, b, 0) + j * Interval /\ Start(air, b, 0) \in Int
        /\ j * Interval \in Int
    <3>1. (b - 1) * group.spacing \in Int /\ j * Interval \in Int /\ air.at \in Int /\ 0 * Interval = 0
      BY <1>1, StartType, AirFields
    <3> QED BY <3>1 DEF Start
  <2>2. StartOf(b, 0, 0) = Start(air, b, 0)
    BY <1>4
  <2> HIDE DEF half
  <2> QED BY <1>1, <1>3, <2>1, <2>2
<1> HIDE DEF half, e
<1>6. y \div Interval = j
  <2>1. y \in Int /\ y = j * Interval + (e + half)
    <3>1. j * Interval \in Int
      BY <1>1
    <3> QED BY <1>1, <1>3, <1>5, <3>1
  <2> HIDE DEF y
  <2>2. PICK q \in 0..Interval-1 : q = e + half
    BY <1>3
  <2>3. y = j * Interval + q
    BY <2>1, <2>2
  <2> QED BY <1>1, <2>1, <2>3, QuotientIs
<1>7. EventAt(b, x) = j
  BY <1>6 DEF EventAt, half
<1>8. ErrorAt(b, x) = e
  BY <1>4, <1>7 DEF ErrorAt, e
<1>9. Near(e, MaxDrift + r)
  <2>1. CASE Small(air, r, e)
    <3>1. e \in -(MaxDrift + r) .. MaxDrift
      BY <1>1, <2>1, SmallBound
    <3> QED BY <1>1, <3>1 DEF Near, Within
  <2>2. CASE group.kind = "cis" /\ Small(air, 0, e - (PacketAir + Ifs))
    <3>1. e - (PacketAir + Ifs) \in Int /\ e - PacketAir - Ifs = e - (PacketAir + Ifs)
      BY <1>1, Times
    <3>2. e - (PacketAir + Ifs) \in -(MaxDrift + 0) .. MaxDrift
      BY <1>1, <2>2, <3>1, SmallBound
    <3>3. Within(e - PacketAir - Ifs, MaxDrift)
      BY <1>1, <3>1, <3>2 DEF Within
    <3> QED BY <2>2, <3>3 DEF Near
  <2>3. Explained(air, r, e)
    BY DEF e
  <2> QED BY <2>1, <2>2, <2>3 DEF Explained
<1> QED BY <1>7, <1>8, <1>9 DEF e

LEMMA NamedNearest ==
  ASSUME Types, NEW b \in 1..NStreams, NEW x \in Int, NEW c, NEW r \in 0..Rounding,
         Names(air, r, b, x, c)
  PROVE  Near(ErrorAt(b, x), MaxDrift + r) /\ c = (air.n + EventAt(b, x)) % W
<1>1. PICK j \in Int : c = (air.n + j) % W /\ Explained(air, r, x - Start(air, b, j))
  BY DEF Names
<1> QED BY <1>1, Nearest

\* For every layout, number of streams and of subevents, and every width of the
\* counter: whatever is lost, late, skipped or drifting, a slot's anchor is the
\* time of an event of its stream and its counter is that event's, so that
\* bis_advance_event finds the next one.
THEOREM AnchorHolds == Spec => []AnchorIsAnEvent
<1>1. Inv => AnchorIsAnEvent
  <2> SUFFICES ASSUME Inv, NEW b \in Active, ~slots[b].overran
               PROVE  /\ Near(AnchorError(b), Tolerance(slots[b]))
                      /\ slots[b].anchorCnt = (air.n + EventAt(b, slots[b].anchor)) % W
    BY DEF AnchorIsAnEvent
  <2> DEFINE s == slots[b]
  <2>1. Types /\ b \in 1..NStreams /\ s \in SlotRecord /\ SlotInv(air, b, s, Serving(b))
    BY DomainIs DEF Inv, SlotsInv
  <2>2. s.anchor \in Int /\ Names(air, Rounded(s), b, s.anchor, s.anchorCnt)
    BY <2>1, SlotFields DEF SlotInv, PlaceInv
  <2> HIDE DEF s
  <2>3. Rounded(s) \in 0..Rounding /\ Tolerance(s) = MaxDrift + Rounded(s)
    BY RoundedType, Times DEF Rounded, Tolerance
  <2>4. /\ Near(ErrorAt(b, s.anchor), MaxDrift + Rounded(s))
        /\ s.anchorCnt = (air.n + EventAt(b, s.anchor)) % W
    BY <2>1, <2>2, <2>3, NamedNearest
  <2> QED BY <2>3, <2>4 DEF AnchorError, s
<1> QED BY <1>1, StreamsKnown, PTL

\* A window is opened on the channel of the subevent that is on the air when it
\* is due: bis_channel_for_subevent's walk, entered anew with each event, never
\* gets out of step with the event counter.
THEOREM ChannelHolds == Spec => []ChannelOfSubevent
<1>1. Inv => ChannelOfSubevent
  <2> DEFINE b == win.b
             s == slots[b]
             start == s.next - (IF s.rsp THEN RspDelay ELSE 0) - s.se * group.sub
  <2> SUFFICES ASSUME Inv, win.open, ~s.overran
               PROVE  /\ Near(ErrorAt(b, start), MaxDrift + Rounding)
                      /\ win.channel = TrueChannel(b, (air.n + EventAt(b, start)) % W, s.se)
    BY DEF ChannelOfSubevent
  <2>1. Types /\ s \in SlotRecord /\ b \in 1..NStreams /\ b \in Active /\ Serving(b) = TRUE
    BY DomainIs DEF Inv, Types, Active, Serving
  <2>2. SlotInv(air, b, s, TRUE) /\ win.channel = s.channel
    BY <2>1 DEF Inv, SlotsInv, WindowInv
  <2>3. start = s.next - Off(s) - s.se * group.sub
    BY DEF Off
  <2>4. start \in Int /\ Names(air, Rounding, b, start, s.cnt)
    BY <2>1, <2>2, <2>3, Places DEF SlotInv, PlaceInv, Types
  <2>5. s.channel = TrueChannel(b, s.cnt, s.se)
    BY <2>2 DEF SlotInv, HopInv
  <2> HIDE DEF start
  <2>6. /\ Near(ErrorAt(b, start), MaxDrift + Rounding)
        /\ s.cnt = (air.n + EventAt(b, start)) % W
    BY <2>1, <2>4, NamedNearest, Times
  <2> QED BY <2>2, <2>5, <2>6
<1> QED BY <1>1, StreamsKnown, PTL

----------------------------------------------------------------------------
(* Locked streams leave each other room.                                   *)

LEMMA RoomNext ==
  ASSUME group' = group, RoomOf(slots', win')
  PROVE  RoomInv'
<1>1. PICK f, w : f = slots' /\ w = win'
  OBVIOUS
<1>2. RoomOf(f, w)' <=> RoomOf(f, w)
  BY DEF RoomOf, OpenAt, Guard, SlotSpacing, Air
<1>3. RoomOf(f, w)'
  BY <1>1, <1>2
<1> QED BY <1>1, <1>3 DEF RoomInv, RoomOf, OpenAt, Guard, SlotSpacing, Air

LEMMA SameGuard ==
  ASSUME NEW s, NEW t, t.locked = s.locked
  PROVE  Guard(t) = Guard(s)
BY DEF Guard

\* From one packet followed to the next it is further than the lead of a late
\* opening.
LEMMA Spacing ==
  ASSUME GroupInv
  PROVE  /\ SlotSpacing \in Nat
         /\ Nse > 1 => SlotSpacing > LateLead /\ SlotSpacing <= group.sub
         /\ group.kind = "bis" /\ NStreams > 1 =>
              /\ SlotSpacing > LateLead /\ SlotSpacing <= group.spacing
              /\ \A b, c \in 1..NStreams, k, l \in 0..Nse-1, j \in -1..1 : b # c =>
                   LET d == (c - b) * group.spacing + (l - k) * group.sub + j * Interval
                   IN  d >= SlotSpacing \/ -d >= SlotSpacing
<1>1. PICK y \in Layouts : group.sub = y.sub /\ group.spacing = y.spacing
  BY DEF GroupInv
<1> DEFINE room == IF Nse > 1 THEN IF y.sub < y.spacing THEN y.sub ELSE y.spacing
                   ELSE y.spacing
<1>2. /\ Nse > 1 => y.sub > LateLead
      /\ NStreams > 1 => room > LateLead
      /\ \A b, c \in 1..NStreams, k, l \in 0..Nse-1, j \in -1..1 : b # c =>
           LET d == (c - b) * y.spacing + (l - k) * y.sub + j * Interval
           IN  d >= room \/ -d >= room
  BY RoomAssumption
<1>3. group.sub \in Nat \ {0} /\ group.spacing \in Nat /\ Nse \in Nat \ {0} /\ NStreams \in Nat \ {0}
      /\ LateLead \in Nat
  BY GroupFacts, Times
<1>4. SlotSpacing \in Nat /\ (Nse > 1 => SlotSpacing > LateLead /\ SlotSpacing <= group.sub)
  <2>1. CASE group.kind = "bis" /\ NStreams > 1
    <3>1. SlotSpacing = room
      BY <1>1, <1>3, <2>1 DEF SlotSpacing, Least
    <3> QED BY <1>1, <1>2, <1>3, <2>1, <3>1
  <2>2. CASE ~(group.kind = "bis" /\ NStreams > 1)
    <3>1. SlotSpacing = IF Nse > 1 THEN group.sub ELSE 0
      BY <1>3, <2>2 DEF SlotSpacing
    <3> QED BY <1>1, <1>2, <1>3, <3>1
  <2> QED BY <2>1, <2>2
<1>5. ASSUME group.kind = "bis" /\ NStreams > 1
      PROVE  SlotSpacing = room /\ SlotSpacing > LateLead /\ SlotSpacing <= group.spacing
  <2>1. SlotSpacing = room
    BY <1>1, <1>3, <1>5 DEF SlotSpacing, Least
  <2> QED BY <1>1, <1>2, <1>3, <1>5, <2>1
<1> HIDE DEF room
<1> QED BY <1>1, <1>2, <1>4, <1>5

\* Two streams of a BIG are as far apart as that at any two of their subevents,
\* of whatever events.
LEMMA Apart ==
  ASSUME GroupInv, group.kind = "bis", NEW b \in 1..NStreams, NEW c \in 1..NStreams, b # c,
         NEW k \in 0..Nse-1, NEW l \in 0..Nse-1, NEW j \in Int
  PROVE  LET d == (c - b) * group.spacing + (l - k) * group.sub + j * Interval
         IN  d \in Int /\ (d >= SlotSpacing \/ -d >= SlotSpacing)
<1> DEFINE p == (c - b) * group.spacing
           q == (l - k) * group.sub
           i == j * Interval
           n == (NStreams - 1) * group.spacing
           m == (Nse - 1) * group.sub
<1>1. /\ group.sub \in Nat \ {0} /\ group.spacing \in Nat /\ Nse \in Nat \ {0}
      /\ NStreams \in Nat \ {0} /\ Interval \in Nat \ {0} /\ PacketAir \in Nat /\ NStreams > 1
      /\ n + m + PacketAir < Interval
  BY GroupFacts, Times
<1>2. p \in Int /\ q \in Int /\ i \in Int /\ n \in Nat /\ m \in Nat
  BY <1>1
<1>3. SlotSpacing \in Nat /\ SlotSpacing <= group.spacing
  BY <1>1, Spacing
<1>4. CASE j \in -1..1
  <2>1. p + q + i >= SlotSpacing \/ -(p + q + i) >= SlotSpacing
    BY <1>1, <1>4, Spacing
  <2> QED BY <1>2, <2>1
<1>5. CASE j \notin -1..1
  <2>1. -n <= p /\ p <= n
    <3>1. c - b <= NStreams - 1 /\ -(NStreams - 1) <= c - b /\ c - b \in Int /\ NStreams - 1 \in Int
      BY <1>1
    <3>2. (c - b) * group.spacing <= (NStreams - 1) * group.spacing
      BY <1>1, <3>1
    <3>3. (-(NStreams - 1)) * group.spacing <= (c - b) * group.spacing
      BY <1>1, <3>1
    <3>4. (-(NStreams - 1)) * group.spacing = -((NStreams - 1) * group.spacing)
      BY <1>1, <3>1
    <3> QED BY <3>2, <3>3, <3>4
  <2>2. -m <= q /\ q <= m
    <3>1. l - k <= Nse - 1 /\ -(Nse - 1) <= l - k /\ l - k \in Int /\ Nse - 1 \in Int
      BY <1>1
    <3>2. (l - k) * group.sub <= (Nse - 1) * group.sub
      BY <1>1, <3>1
    <3>3. (-(Nse - 1)) * group.sub <= (l - k) * group.sub
      BY <1>1, <3>1
    <3>4. (-(Nse - 1)) * group.sub = -((Nse - 1) * group.sub)
      BY <1>1, <3>1
    <3> QED BY <3>2, <3>3, <3>4
  <2>3. i >= 2 * Interval \/ i <= -(2 * Interval)
    <3>1. j >= 2 \/ j <= -2
      BY <1>5
    <3>2. j >= 2 => j * Interval >= 2 * Interval
      BY <1>1
    <3>3. j <= -2 => j * Interval <= -(2 * Interval)
      BY <1>1
    <3> QED BY <3>1, <3>2, <3>3
  <2>4. group.spacing <= n
    <3>1. 1 <= NStreams - 1 /\ NStreams - 1 \in Nat
      BY <1>1
    <3>2. 1 * group.spacing <= (NStreams - 1) * group.spacing
      BY <1>1, <3>1
    <3> QED BY <1>1, <3>2
  <2>5. n + m < Interval /\ Interval \in Nat
    <3> HIDE DEF n, m
    <3> QED BY <1>1, <1>2
  <2>6. p + q + i \in Int /\ (p + q + i >= SlotSpacing \/ -(p + q + i) >= SlotSpacing)
    <3> HIDE DEF p, q, i, n, m
    <3> QED BY <1>1, <1>2, <1>3, <2>1, <2>2, <2>3, <2>4, <2>5
  <2> QED BY <2>6
<1> QED BY <1>4, <1>5

\* When a slot's next window is due, from the event nearest to its anchor.
LEMMA DueAt ==
  ASSUME Types, NEW b \in 1..NStreams, NEW s \in SlotRecord, SlotInv(air, b, s, FALSE), ~s.rsp
  PROVE  /\ ErrorAt(b, s.anchor) \in Int
         /\ \E j \in Int : s.next = air.at + (b - 1) * group.spacing + j * Interval
                                    + s.se * group.sub + ErrorAt(b, s.anchor)
<1> DEFINE e == ErrorAt(b, s.anchor)
           n == EventAt(b, s.anchor)
           place == s.se * group.sub
           first == air.at + (b - 1) * group.spacing
<1>1. /\ GroupInv /\ air \in AirRecord /\ s.anchor \in Int /\ place \in Nat
      /\ Interval \in Nat \ {0} /\ s.event \in Int /\ group.sub \in Nat
      /\ air.at \in Int /\ (b - 1) * group.spacing \in Int
  <2>1. GroupInv /\ air \in AirRecord
    BY DEF Types
  <2>2. (b - 1) * group.spacing \in Int
    BY <2>1, StartType
  <2> QED BY <2>1, <2>2, SlotFields, Places, Times, GroupFacts, AirFields
<1>2. first \in Int /\ \A j \in Int : StartOf(b, j, 0) = first + j * Interval /\ j * Interval \in Int
  BY <1>1 DEF StartOf
<1> HIDE DEF first
<1>3. n \in Int
  <2> DEFINE y == s.anchor - StartOf(b, 0, 0) + (Interval \div 2)
  <2>1. y \in Int
    <3>1. StartOf(b, 0, 0) \in Int
      BY <1>2
    <3>2. Interval \div 2 \in Int
      BY <1>1
    <3> QED BY <1>1, <3>1, <3>2
  <2> HIDE DEF y
  <2>2. y \div Interval \in Int
    BY <1>1, <2>1, Division
  <2> QED BY <2>2 DEF EventAt, y
<1>4. e = s.anchor - (first + n * Interval) /\ n * Interval \in Int
  <2>1. StartOf(b, n, 0) = first + n * Interval /\ n * Interval \in Int
    BY <1>2, <1>3
  <2>2. e = s.anchor - StartOf(b, n, 0)
    BY DEF ErrorAt
  <2> QED BY <2>1, <2>2
<1>5. e \in Int
  BY <1>1, <1>2, <1>4
<1>6. PICK m \in Int : s.event = s.anchor + m * Interval
  BY DEF SlotInv
<1>7. s.next = s.event + place
  <2>1. s.next = s.event + place + 0
    BY DEF SlotInv, Off
  <2> QED BY <1>1, <2>1
<1>8. (n + m) * Interval = n * Interval + m * Interval /\ m * Interval \in Int /\ n + m \in Int
  BY <1>1, <1>3
<1> HIDE DEF e, n, place
<1>9. s.next = first + (n + m) * Interval + place + e
  BY <1>1, <1>2, <1>4, <1>5, <1>6, <1>7, <1>8
<1> QED BY <1>5, <1>8, <1>9 DEF e, place, first

\* How long a window opened for a locked slot lasts.
LEMMA WindowIs ==
  ASSUME GroupInv, NEW s \in SlotRecord, s.locked
  PROVE  /\ s.rsp => Window(s) = group.sub - RspDelay - RxReady
         /\ ~s.rsp /\ SlotSpacing > LateLead => Window(s) <= SlotSpacing - LateLead
<1>1. s.rsp \in BOOLEAN /\ SlotSpacing \in Nat /\ Guard(s) \in Nat /\ Tail \in Nat /\ LateLead \in Nat
  BY SlotFields, Spacing, Opening, Times
<1>2. Air \in Nat
  BY Times DEF Air
<1>3. s.rsp => Window(s) = group.sub - RspDelay - RxReady
  BY DEF Window
<1>4. ASSUME ~s.rsp, SlotSpacing > LateLead
      PROVE  Window(s) <= SlotSpacing - LateLead
  <2> DEFINE x == Guard(s) + Air + Tail
             y == SlotSpacing - LateLead
  <2> DEFINE search == Least(2 * Guard(s) + Air + Span * 2^Least(s.miss \div WidenEvery, WidenMax),
                             Interval - SpanMargin)
  <2>1. Window(s) = Least(x, y)
    <3>1. Window(s) = CASE s.rsp -> group.sub - RspDelay - RxReady
          [] ~s.rsp /\ s.locked /\ SlotSpacing > LateLead -> Least(x, y)
          [] ~s.rsp /\ s.locked /\ SlotSpacing <= LateLead -> x
          [] OTHER -> search
      BY DEF Window
    <3> HIDE DEF x, y, search
    <3> QED BY <1>1, <1>4, <3>1
  <2>2. x \in Int /\ y \in Int
    BY <1>1, <1>2
  <2> HIDE DEF x, y
  <2>3. Least(x, y) <= y
    BY <2>2 DEF Least
  <2> QED BY <2>1, <2>3 DEF y
<1> QED BY <1>3, <1>4

\* The earliest of two siblings whose anchors are hardly apart is a packet's
\* distance before the other.
LEMMA SiblingsApart ==
  ASSUME Inv, ~win.open, Orderly, NEW b \in Active, NEW c \in Active, b # c,
         slots[b].next <= slots[c].next
  PROVE  /\ group.kind = "bis" /\ SlotSpacing > LateLead
         /\ slots[c].next - slots[b].next >= SlotSpacing - LateLead
<1> DEFINE s == slots[b]
           q == slots[c]
<1>1. /\ Types /\ GroupInv /\ b \in 1..NStreams /\ c \in 1..NStreams
      /\ s \in SlotRecord /\ q \in SlotRecord /\ air \in AirRecord
  BY DomainIs DEF Inv, Types
<1>2. group.kind = "bis" /\ NStreams > 1
  <2>1. group.kind = "bis"
    BY <1>1, DomainIs
  <2> QED BY <1>1, <2>1, Times
<1>3. SlotSpacing \in Nat /\ SlotSpacing > LateLead /\ LateLead \in Nat
  BY <1>1, <1>2, Spacing, Times
<1>4. SlotInv(air, b, s, FALSE) /\ SlotInv(air, c, q, FALSE)
  <2>1. Serving(b) = FALSE /\ Serving(c) = FALSE
    BY DEF Serving, Inv, Types, Closed, WindowRecord
  <2> QED BY <2>1 DEF Inv, SlotsInv
<1>5. ~s.rsp /\ ~q.rsp
  BY <1>2, <1>4 DEF SlotInv
<1> DEFINE e == ErrorAt(b, s.anchor)
           f == ErrorAt(c, q.anchor)
<1>6. e \in Int /\ f \in Int
  BY <1>1, <1>4, <1>5, DueAt
<1>7. PICK i \in Int : s.next = air.at + (b - 1) * group.spacing + i * Interval
                                + s.se * group.sub + e
  BY <1>1, <1>4, <1>5, DueAt
<1>8. PICK j \in Int : q.next = air.at + (c - 1) * group.spacing + j * Interval
                                + q.se * group.sub + f
  BY <1>1, <1>4, <1>5, DueAt
<1>9. f - e >= -LateLead /\ f - e <= LateLead
  <2>1. AnchorError(b) - AnchorError(c) <= LateLead /\ AnchorError(c) - AnchorError(b) <= LateLead
    BY DEF Orderly
  <2>2. e - f <= LateLead /\ f - e <= LateLead
    BY <2>1 DEF AnchorError
  <2> HIDE DEF e, f
  <2> QED BY <1>3, <1>6, <2>2
<1> HIDE DEF e, f
<1> DEFINE d == (c - b) * group.spacing + (q.se - s.se) * group.sub + (j - i) * Interval
<1>10. d \in Int /\ (d >= SlotSpacing \/ -d >= SlotSpacing)
  <2>1. s.se \in 0..Nse-1 /\ q.se \in 0..Nse-1 /\ j - i \in Int
    BY <1>1, SlotFields
  <2> QED BY <1>1, <1>2, <2>1, Apart
<1>11. q.next - s.next = d + (f - e)
  <2>1. /\ b - 1 \in Int /\ c - 1 \in Int /\ group.spacing \in Int /\ group.sub \in Int
        /\ Interval \in Int /\ s.se \in Int /\ q.se \in Int /\ air.at \in Int
        /\ b \in Int /\ c \in Int
    BY <1>1, GroupFacts, Times, SlotFields, AirFields
  <2>2. (c - b) * group.spacing = (c - 1) * group.spacing - (b - 1) * group.spacing
    <3> DEFINE x == c - 1
               y == b - 1
               m == group.spacing
    <3>1. c - b = x - y /\ x \in Int /\ y \in Int /\ m \in Int
      BY <2>1
    <3> HIDE DEF x, y, m
    <3>2. (x - y) * m = x * m - y * m
      BY <3>1, Distributes
    <3> QED BY <3>1, <3>2 DEF x, y, m
  <2>3. (q.se - s.se) * group.sub = q.se * group.sub - s.se * group.sub
    BY <2>1, Distributes
  <2>4. (j - i) * Interval = j * Interval - i * Interval
    BY <2>1, Distributes
  <2>5. /\ (c - 1) * group.spacing \in Int /\ (b - 1) * group.spacing \in Int
        /\ q.se * group.sub \in Int /\ s.se * group.sub \in Int
        /\ j * Interval \in Int /\ i * Interval \in Int
    BY <2>1
  <2> QED BY <1>6, <1>7, <1>8, <2>1, <2>2, <2>3, <2>4, <2>5
<1>12. s.next \in Int /\ q.next \in Int /\ s.next <= q.next
  BY <1>1, SlotFields
<1>13. q.next - s.next >= SlotSpacing - LateLead
  <2> HIDE DEF d, s, q
  <2>1. d >= SlotSpacing
    BY <1>3, <1>6, <1>9, <1>10, <1>11, <1>12
  <2> QED BY <1>3, <1>6, <1>9, <1>10, <1>11, <1>12, <2>1
<1> QED BY <1>2, <1>3, <1>13

LEMMA RoomOpens ==
  ASSUME Inv, ServeOpen
  PROVE  RoomInv'
<1>1. PICK b \in Active, t \in Nat : \E r : Opened(b, t, r)
  BY OpenParts
<1>2. PICK r : Opened(b, t, r)
  BY <1>1
<1> DEFINE s == slots[b]
           G == Guard(s)
<1>3. ~win.open /\ group' = group
  BY OpenParts
<1>4. /\ IsEarliest(b) /\ SlotInv(air', b, r, TRUE)
      /\ r.rsp = s.rsp /\ r.next = s.next - t /\ r.active /\ r.locked = s.locked
      /\ r.event = s.event - t /\ r.se = s.se /\ r.overran = s.overran
      /\ slots' = [SlotsAfter(t) EXCEPT ![b] = r]
      /\ win'.open = TRUE /\ win'.b = b
      /\ win'.to = Window(s) /\ win'.orderly = (Orderly /\ t = OpenAt(s))
  BY <1>2 DEF Opened
<1>5. Types /\ GroupInv /\ b \in DOMAIN slots /\ b \in 1..NStreams /\ s \in SlotRecord /\ t \in Int
  BY DomainIs DEF Inv, Types
<1>6. SUFFICES ASSUME Orderly, t = OpenAt(s) PROVE RoomOf(slots', win')
  <2>1. win'.orderly => Orderly /\ t = OpenAt(s)
    BY <1>4
  <2>2. RoomOf(slots', win')
    BY <1>6, <2>1 DEF RoomOf
  <2> QED BY <1>3, <2>2, RoomNext
<1>7. SlotInv(air, b, s, FALSE)
  <2>1. Serving(b) = FALSE
    BY <1>3 DEF Serving, Inv, Types, Closed, WindowRecord
  <2> QED BY <2>1 DEF Inv, SlotsInv
<1>8. s.locked /\ Guard(r) = G /\ G \in Nat /\ s.next \in Int /\ t = s.next - G /\ r.next = G
  <2>1. s.locked /\ Guard(r) = G
    BY <1>4, <1>6, SameGuard DEF Orderly
  <2>2. G \in Nat /\ s.next \in Int
    BY <1>5, Opening, SlotFields
  <2>3. t = s.next - G
    BY <1>6 DEF OpenAt
  <2> HIDE DEF G, s
  <2> QED BY <1>4, <2>1, <2>2, <2>3
<1>9. slots'[b] = r /\ DOMAIN slots' = DOMAIN slots
      /\ \A c \in DOMAIN slots \ {b} : slots'[c] = SlotAfter(slots[c], t)
  BY <1>4, <1>5 DEF SlotsAfter
<1>10. ASSUME NEW c \in DOMAIN slots' \ {b}, slots'[c].active
       PROVE  slots'[c].locked /\ win'.to <= OpenAt(slots'[c])
  <2> DEFINE q == slots[c]
             u == slots'[c]
  <2>1. c \in DOMAIN slots /\ c # b /\ u = SlotAfter(q, t)
    BY <1>9, <1>10
  <2>2. c \in Active /\ q \in SlotRecord
    <3>1. CASE ~q.active
      BY <1>10, <2>1, <3>1 DEF SlotAfter
    <3>2. CASE q.active
      <4>1. c \in Active
        BY <2>1, <3>2 DEF Active
      <4> QED BY <1>5, <4>1, DomainIs
    <3> QED BY <3>1, <3>2
  <2>3. q.locked /\ q.locked = s.locked
    <3>1. q.locked
      BY <1>6, <2>2 DEF Orderly
    <3>2. q.locked \in BOOLEAN /\ s.locked \in BOOLEAN
      BY <1>5, <2>2, SlotFields
    <3> QED BY <1>8, <3>1, <3>2
  <2>4. u.locked = q.locked /\ u.next = q.next - t /\ q.next \in Int
    <3> HIDE DEF q, u
    <3> QED BY <1>5, <2>1, <2>2, SlotPasses, SlotFields
  <2>5. Guard(q) = G /\ Guard(u) = G
    BY <2>3, <2>4, SameGuard
  <2>6. s.next <= q.next
    <3>1. OpenAt(s) = s.next - G /\ OpenAt(q) = q.next - G
      BY <2>5 DEF OpenAt
    <3>2. OpenAt(s) < OpenAt(q) \/ OpenAt(s) = OpenAt(q)
      BY <1>4, <2>2 DEF IsEarliest
    <3> HIDE DEF G, s, q
    <3> QED BY <1>8, <2>4, <3>1, <3>2
  <2>7. group.kind = "bis" /\ SlotSpacing > LateLead /\ q.next - s.next >= SlotSpacing - LateLead
    BY <1>3, <1>6, <2>1, <2>2, <2>6, SiblingsApart
  <2>8. Window(s) <= SlotSpacing - LateLead
    <3>1. ~s.rsp
      BY <1>7, <2>7 DEF SlotInv
    <3> QED BY <1>5, <1>8, <2>7, <3>1, WindowIs
  <2>9. OpenAt(u) = q.next - s.next
    <3>1. OpenAt(u) = u.next - G
      BY <2>5 DEF OpenAt
    <3> HIDE DEF G, s, q, u
    <3> QED BY <1>8, <2>4, <3>1
  <2>10. Window(s) \in Int /\ SlotSpacing \in Int /\ LateLead \in Int
    BY <1>5, WindowType, Spacing, Times
  <2>11. Window(s) <= OpenAt(u)
    <3> DEFINE w == Window(s)
               room == OpenAt(u)
    <3>1. w \in Int /\ w <= SlotSpacing - LateLead /\ room = q.next - s.next
          /\ q.next - s.next >= SlotSpacing - LateLead
      BY <2>7, <2>8, <2>9, <2>10
    <3> HIDE DEF w, room, s, q, u
    <3>2. w <= room
      BY <1>8, <2>4, <2>10, <3>1
    <3> QED BY <3>2 DEF w, room
  <2> QED BY <1>4, <2>3, <2>4, <2>11
<1>11. Window(s) \in Int /\ group.sub \in Nat /\ LateLead \in Nat /\ RspDelay \in Nat /\ RxReady \in Nat
       /\ SlotSpacing \in Nat /\ Nse \in Nat \ {0} /\ s.se \in Nat
  BY <1>5, WindowType, GroupFacts, Times, Spacing, SlotFields
<1>12. ASSUME r.se + 1 < Nse
       PROVE  /\ ~r.rsp => win'.to <= group.sub - LateLead
              /\ win'.to <= group.sub - Off(r)
  <2>1. SlotSpacing > LateLead /\ SlotSpacing <= group.sub
    <3>1. Nse > 1
      BY <1>4, <1>11, <1>12
    <3> QED BY <1>5, <3>1, Spacing
  <2>2. CASE s.rsp
    <3>1. Window(s) = group.sub - RspDelay - RxReady
      BY <1>5, <1>8, <2>2, WindowIs
    <3>2. Off(r) = RspDelay
      BY <1>4, <2>2 DEF Off
    <3> HIDE DEF s
    <3> QED BY <1>4, <1>11, <2>2, <3>1, <3>2
  <2>3. CASE ~s.rsp
    <3>1. Window(s) <= SlotSpacing - LateLead
      BY <1>5, <1>8, <2>1, <2>3, WindowIs
    <3>2. Off(r) = 0
      BY <1>4, <2>3 DEF Off
    <3> DEFINE w == Window(s)
    <3>3. w \in Int /\ w <= SlotSpacing - LateLead /\ win'.to = w
      BY <1>4, <1>11, <3>1
    <3> HIDE DEF s, w
    <3> QED BY <1>11, <2>1, <3>2, <3>3
  <2> QED BY <2>2, <2>3
<1>13. ASSUME r.se + 1 < Nse
       PROVE  /\ ~r.rsp => win'.to <= r.next + group.sub - Guard(r) - LateLead
              /\ win'.to <= r.event + (r.se + 1) * group.sub - Guard(r)
  <2>1. r.next = r.event + r.se * group.sub + Off(r)
    <3> DEFINE place == s.se * group.sub
    <3>1. s.next = s.event + place + Off(s)
      BY <1>7 DEF SlotInv
    <3>2. Off(r) = Off(s) /\ Off(s) \in Nat /\ s.event \in Int /\ place \in Nat
          /\ r.se * group.sub = place
      BY <1>4, <1>5, SlotFields, Places DEF Off
    <3> HIDE DEF place, s
    <3> QED BY <1>4, <1>5, <1>8, <3>1, <3>2
  <2> DEFINE place == r.se * group.sub
             next == (r.se + 1) * group.sub
             to == win'.to
  <2>2. r \in SlotRecord
    BY <1>4 DEF SlotInv
  <2>3. /\ place \in Nat /\ next = place + group.sub /\ r.event \in Int /\ Off(r) \in Nat
        /\ r.next \in Int
    BY <1>5, <2>2, SlotFields, Places
  <2>4. to \in Int /\ (~r.rsp => to <= group.sub - LateLead) /\ to <= group.sub - Off(r)
    BY <1>4, <1>11, <1>12, <1>13
  <2>5. r.next = r.event + place + Off(r)
    BY <2>1
  <2> HIDE DEF place, next, to, s, G
  <2>6. (~r.rsp => to <= r.next + group.sub - Guard(r) - LateLead) /\ to <= r.event + next - Guard(r)
    BY <1>8, <1>11, <2>3, <2>4, <2>5
  <2> QED BY <2>6 DEF next, to
<1>14. r.locked /\ r.next <= Guard(r)
  BY <1>4, <1>8
<1> HIDE DEF s, G
<1> QED BY <1>4, <1>9, <1>10, <1>13, <1>14 DEF RoomOf

\* Time passes in an open window: what room there is stays.
LEMMA RoomShifts ==
  ASSUME Types, RoomInv, win.open, NEW t \in Nat, NEW w, NEW r, NEW f,
         f = [SlotsAfter(t) EXCEPT ![win.b] = r],
         w.b = win.b, w.orderly = win.orderly, w.to = win.to - t,
         slots[win.b].locked => r.locked,
         r.locked \in BOOLEAN, r.next = slots[win.b].next - t,
         r.se = slots[win.b].se, r.rsp = slots[win.b].rsp,
         win.orderly /\ r.se + 1 < Nse /\ ~r.overran =>
           w.to <= r.event + (r.se + 1) * group.sub - Guard(r)
  PROVE  RoomOf(f, w)
<1> DEFINE s == slots[win.b]
<1>1. SUFFICES ASSUME win.orderly PROVE RoomOf(f, w)
  BY DEF RoomOf
<1>2. /\ s.locked /\ s.next <= Guard(s)
      /\ \A c \in DOMAIN slots \ {win.b} : slots[c].active =>
           slots[c].locked /\ win.to <= OpenAt(slots[c])
      /\ s.se + 1 < Nse /\ ~s.rsp => win.to <= s.next + group.sub - Guard(s) - LateLead
  BY <1>1 DEF RoomInv, RoomOf
<1>3. /\ s \in SlotRecord /\ s.next \in Int /\ s.locked \in BOOLEAN /\ Guard(s) \in Nat
      /\ win.to \in Int /\ win.b \in DOMAIN slots /\ group.sub \in Nat /\ LateLead \in Nat
  <2>1. win \in WindowRecord
    BY DEF Types, Closed
  <2>2. win.b \in Active
    BY DEF Types, Active
  <2>3. s \in SlotRecord /\ GroupInv
    BY <2>2, DomainIs DEF Types
  <2>4. win.to \in Int /\ win.b \in DOMAIN slots
    BY <2>1, <2>2 DEF WindowRecord, Active
  <2> HIDE DEF s
  <2> QED BY <2>3, <2>4, SlotFields, Opening, GroupFacts, Times
<1>4. r.locked = s.locked /\ Guard(r) = Guard(s)
  BY <1>2, <1>3, SameGuard
<1>5. f[win.b] = r /\ DOMAIN f = DOMAIN slots
      /\ \A c \in DOMAIN slots \ {win.b} : f[c] = SlotAfter(slots[c], t)
  BY <1>3 DEF SlotsAfter
<1>6. ASSUME NEW c \in DOMAIN f \ {win.b}, f[c].active
      PROVE  f[c].locked /\ w.to <= OpenAt(f[c])
  <2> DEFINE q == slots[c]
             u == f[c]
  <2>1. c \in DOMAIN slots /\ c # win.b /\ u = SlotAfter(q, t)
    BY <1>5, <1>6
  <2>2. q.active /\ q \in SlotRecord
    <3>1. q.active
      BY <1>6, <2>1 DEF SlotAfter
    <3>2. c \in Active
      BY <2>1, <3>1 DEF Active
    <3> QED BY <3>1, <3>2, DomainIs
  <2>3. q.locked /\ win.to <= OpenAt(q)
    BY <1>2, <2>1, <2>2
  <2>4. u.locked = q.locked /\ u.next = q.next - t /\ q.next \in Int
    <3>1. t \in Int
      OBVIOUS
    <3> DEFINE v == SlotAfter(q, t)
    <3>2. v.locked = q.locked /\ v.next = q.next - t
      BY <2>2, <3>1, SlotPasses
    <3>3. q.next \in Int
      BY <2>2, SlotFields
    <3> HIDE DEF q, u, v
    <3>4. u = v
      BY <2>1 DEF v
    <3> QED BY <3>2, <3>3, <3>4
  <2>5. Guard(u) = Guard(q) /\ Guard(q) \in Nat
    <3>1. GroupInv
      BY DEF Types
    <3> HIDE DEF q, u
    <3> QED BY <2>2, <2>4, <3>1, SameGuard, Opening
  <2>6. win.to - t <= OpenAt(u)
    <3>1. OpenAt(q) = q.next - Guard(q) /\ OpenAt(u) = u.next - Guard(q)
      BY <2>5 DEF OpenAt
    <3> HIDE DEF q, u
    <3> QED BY <1>3, <2>3, <2>4, <2>5, <3>1
  <2> QED BY <2>3, <2>4, <2>6
<1>7. r.next <= Guard(r) /\ t \in Int
  <2>1. r.next = s.next - t
    OBVIOUS
  <2> HIDE DEF s
  <2> QED BY <1>2, <1>3, <1>4, <2>1
<1>8. r.se + 1 < Nse /\ ~r.rsp => w.to <= r.next + group.sub - Guard(r) - LateLead
  <2>1. r.next = s.next - t /\ r.se = s.se /\ r.rsp = s.rsp
    OBVIOUS
  <2> HIDE DEF s
  <2> QED BY <1>2, <1>3, <1>4, <2>1
<1>9. r.locked
  BY <1>2
<1> HIDE DEF s
<1> QED BY <1>1, <1>5, <1>6, <1>7, <1>8, <1>9 DEF RoomOf

\* A packet heard in time is no earlier than a late opening is.
LEMMA HeardInTime ==
  ASSUME Inv, RoomInv, win.open, win.orderly, NEW p \in Packets(win.b), p.at \in Int, p.at >= 0,
         p.channel = win.channel, p.aa = win.aa,
         ~slots[win.b].rsp, ~slots[win.b].overran, ~Strays(slots[win.b], p)
  PROVE  p.at >= slots[win.b].next - LateLead
<1> DEFINE s == slots[win.b]
           place == s.se * group.sub
<1>1. /\ Types /\ GroupInv /\ air \in AirRecord /\ s \in SlotRecord /\ win.b \in 1..NStreams
      /\ s.next \in Int /\ place \in Nat
  <2>1. win.b \in Active
    BY DEF Inv, Types, Active
  <2>2. GroupInv /\ air \in AirRecord /\ s \in SlotRecord /\ win.b \in 1..NStreams /\ Types
    BY <2>1, DomainIs DEF Inv, Types
  <2> HIDE DEF s
  <2> QED BY <2>2, SlotFields, Places
<1>2. PICK j \in Int, dt \in Nat :
         /\ Explained(air, Rounding, s.next - place - Start(air, win.b, j))
         /\ dt = 0 \/ (group.kind = "cis" /\ dt = Turn)
         /\ p.at = Start(air, win.b, j) + place + dt
  BY HeardIs
<1> DEFINE e == s.next - place - Start(air, win.b, j)
<1>3. e \in Int /\ p.at = s.next - e + dt
  <2>1. Start(air, win.b, j) \in Int
    BY <1>1, StartType
  <2> HIDE DEF place, s
  <2> QED BY <1>1, <1>2, <2>1
<1>4. MaxDrift \in Nat /\ LateLead \in Nat /\ MaxDrift <= LateLead /\ Turn \in Nat /\ LockedGuard \in Nat
      /\ (group.kind = "cis" => Turn = PacketAir + Ifs)
      /\ (LockedGuard <= LateLead \/ LockedGuard + MaxDrift < PacketAir + Ifs)
      /\ Rounding \in Nat
  BY Times, RoomAssumption DEF Turn
<1>5. s.next <= LockedGuard
  <2>1. s.locked /\ s.next <= Guard(s)
    BY DEF RoomInv, RoomOf
  <2>2. Guard(s) \in Nat /\ Guard(s) <= LockedGuard
    BY <1>1, <2>1, Opening
  <2> HIDE DEF s
  <2> QED BY <1>1, <1>4, <2>1, <2>2
<1>6. Explained(air, Rounding, e)
  BY <1>2
<1> HIDE DEF e, s
<1>7. CASE Small(air, Rounding, e)
  <2>1. e <= MaxDrift
    BY <1>1, <1>3, <1>4, <1>7, SmallBound
  <2> QED BY <1>1, <1>2, <1>3, <1>4, <2>1 DEF s
<1>8. CASE group.kind = "cis" /\ Small(air, 0, e - (PacketAir + Ifs))
  <2>1. e - Turn \in Int /\ Turn = PacketAir + Ifs /\ (LockedGuard <= LateLead \/ LockedGuard + MaxDrift < Turn)
    BY <1>3, <1>4, <1>8
  <2>2. -(MaxDrift + 0) <= e - Turn /\ e - Turn <= MaxDrift
    BY <1>1, <1>4, <1>8, <2>1, SmallBound
  <2>3. CASE dt = Turn
    BY <1>1, <1>3, <1>4, <2>2, <2>3 DEF s
  <2>4. CASE dt = 0
    BY <1>1, <1>3, <1>4, <1>5, <2>1, <2>2, <2>4 DEF s
  <2> QED BY <1>2, <2>3, <2>4
<1> QED BY <1>6, <1>7, <1>8 DEF Explained

LEMMA RoomHears ==
  ASSUME Inv, RoomInv, Hear
  PROVE  RoomInv'
<1> DEFINE b == win.b
           s == slots[b]
<1>1. win.open /\ group' = group
  BY HearParts
<1>2. PICK p \in Packets(b), data \in BOOLEAN, packets \in Nat : \E r :
              /\ p.at \in Int /\ p.at >= 0 /\ p.channel = win.channel /\ p.aa = win.aa
              /\ SlotInv(air', b, r, TRUE)
              /\ Heard(p, r, data, packets)
  BY HearParts
<1>3. PICK r : /\ p.at \in Int /\ p.at >= 0 /\ p.channel = win.channel /\ p.aa = win.aa
               /\ SlotInv(air', b, r, TRUE)
               /\ Heard(p, r, data, packets)
  BY <1>2
<1> DEFINE t == p.at + PacketAir
<1>4. /\ s \in SlotRecord
      /\ r.rsp = s.rsp /\ r.se = s.se /\ r.next = s.next - t /\ (s.locked => r.locked)
      /\ \/ r.event = s.event - t /\ r.overran = s.overran
         \/ /\ ~s.rsp /\ r.event = -PacketAir - s.se * group.sub
            /\ ~r.overran => ~s.overran /\ ~Strays(s, p)
  BY <1>1, <1>3, HeardFields
<1>5. t \in Nat
  BY <1>3, Times
<1>6. \/ win' = Closed
      \/ win' = [win EXCEPT !.to = @ - t, !.packets = packets, !.data = data]
         /\ slots' = [SlotsAfter(t) EXCEPT ![b] = r]
  BY <1>3 DEF Heard
<1>7. /\ Types /\ GroupInv /\ win \in WindowRecord /\ r \in SlotRecord /\ b \in Active
  <2>1. win \in WindowRecord
    BY <1>1 DEF Inv, Types, Closed
  <2>2. r \in SlotRecord
    BY <1>3 DEF SlotInv
  <2> QED BY <1>1, <2>1, <2>2 DEF Inv, Types, Active
<1>8. SUFFICES RoomOf(slots', win')
  BY <1>1, RoomNext
<1>9. CASE win' = Closed
  BY <1>9 DEF RoomOf, Closed
<1>10. CASE /\ win' = [win EXCEPT !.to = @ - t, !.packets = packets, !.data = data]
            /\ slots' = [SlotsAfter(t) EXCEPT ![b] = r]
  <2>1. win'.b = b /\ win'.orderly = win.orderly /\ win'.to = win.to - t
    <3> HIDE DEF t
    <3> QED BY <1>7, <1>10 DEF WindowRecord
  <2>2. ASSUME win.orderly, r.se + 1 < Nse, ~r.overran
        PROVE  win'.to <= r.event + (r.se + 1) * group.sub - Guard(r)
    <3>1. /\ s.locked
          /\ ~s.rsp => win.to <= s.next + group.sub - Guard(s) - LateLead
          /\ ~s.overran => win.to <= s.event + (s.se + 1) * group.sub - Guard(s)
      BY <1>1, <1>4, <2>2 DEF RoomInv, RoomOf
    <3>2. Guard(r) = Guard(s) /\ Guard(s) \in Nat
      <4>1. r.locked \in BOOLEAN /\ s.locked \in BOOLEAN
        BY <1>4, <1>7, SlotFields
      <4>2. r.locked = s.locked
        BY <1>4, <3>1, <4>1
      <4> QED BY <1>4, <1>7, <4>2, SameGuard, Opening
    <3> DEFINE place == s.se * group.sub
               next == (s.se + 1) * group.sub
               G == Guard(s)
    <3>3. /\ place \in Nat /\ next = place + group.sub /\ group.sub \in Nat
          /\ s.next \in Int /\ s.event \in Int /\ win.to \in Int /\ LateLead \in Nat
          /\ PacketAir \in Nat /\ G \in Nat /\ p.at \in Int
      <4>1. win.to \in Int
        BY <1>7 DEF WindowRecord
      <4> HIDE DEF s
      <4> QED BY <1>3, <1>4, <1>7, <3>2, <4>1, SlotFields, Places, GroupFacts, Times DEF s
    <3>4. (r.se + 1) * group.sub = next /\ win'.to = win.to - (p.at + PacketAir)
      BY <1>4, <2>1
    <3>5. CASE r.event = s.event - t /\ r.overran = s.overran
      <4>1. win.to <= s.event + next - G /\ r.event = s.event - (p.at + PacketAir)
        BY <2>2, <3>1, <3>5
      <4> HIDE DEF place, next, G, s
      <4>2. win.to - (p.at + PacketAir) <= r.event + next - G
        BY <3>3, <4>1
      <4> QED BY <3>2, <3>4, <4>2 DEF G
    <3>6. CASE ~s.rsp /\ r.event = -PacketAir - s.se * group.sub /\ ~s.overran /\ ~Strays(s, p)
      <4>1. p.at >= s.next - LateLead
        BY <1>1, <1>3, <2>2, <3>6, HeardInTime
      <4>2. win.to <= s.next + group.sub - G - LateLead /\ r.event = -PacketAir - place
        BY <3>1, <3>6
      <4> HIDE DEF place, next, G, s
      <4>3. win.to - (p.at + PacketAir) <= r.event + next - G
        BY <3>3, <4>1, <4>2
      <4> QED BY <3>2, <3>4, <4>3 DEF G
    <3> QED BY <1>4, <2>2, <3>5, <3>6
  <2>3. r.locked \in BOOLEAN
    BY <1>7, SlotFields
  <2> HIDE DEF t
  <2>4. /\ win'.b = win.b /\ (slots[win.b].locked => r.locked) /\ r.next = slots[win.b].next - t
        /\ r.se = slots[win.b].se /\ r.rsp = slots[win.b].rsp
        /\ slots' = [SlotsAfter(t) EXCEPT ![win.b] = r]
    BY <1>4, <1>10, <2>1
  <2> HIDE DEF b, s
  <2> QED BY <1>1, <1>5, <1>7, <2>1, <2>2, <2>3, <2>4, RoomShifts
<1> QED BY <1>6, <1>9, <1>10

LEMMA RoomLoses ==
  ASSUME Inv, RoomInv, Lose
  PROVE  RoomInv'
<1> DEFINE b == win.b
           s == slots[b]
<1>1. PICK p \in Coming :
         /\ air' = AirAfter(p.at + 1)
         /\ slots' = SlotsAfter(p.at + 1)
         /\ win' = [win EXCEPT !.to = @ - (p.at + 1)]
  BY DEF Lose
<1>2. win.open /\ group' = group
  BY DEF Lose
<1> DEFINE t == p.at + 1
           r == SlotAfter(s, t)
<1>3. Types /\ GroupInv /\ b \in Active /\ win \in WindowRecord
      /\ b \in DOMAIN slots /\ b \in 1..NStreams /\ s \in SlotRecord
  <2>1. win \in WindowRecord
    BY <1>2 DEF Inv, Types, Closed
  <2> QED BY <1>2, <2>1, DomainIs DEF Inv, Types, Active
<1>4. t \in Nat
  <2>1. p \in Packets(b) /\ p.at >= 0
    BY DEF Coming, InReach
  <2>2. p.at \in Int
    BY <1>3, <2>1, PacketTime
  <2> QED BY <2>1, <2>2
<1>5. slots' = [SlotsAfter(t) EXCEPT ![b] = r]
  <2>1. SlotsAfter(t) = [c \in DOMAIN slots |-> SlotAfter(slots[c], t)]
    BY DEF SlotsAfter
  <2> QED BY <1>1, <1>3, <2>1
<1>6. win' = [win EXCEPT !.to = @ - t]
  BY <1>1
<1> HIDE DEF t
<1>7. win'.b = b /\ win'.orderly = win.orderly /\ win'.to = win.to - t
  BY <1>3, <1>6 DEF WindowRecord
<1>8. /\ r \in SlotRecord /\ r.locked = s.locked /\ r.locked \in BOOLEAN
      /\ r.next = s.next - t /\ r.se = s.se /\ r.rsp = s.rsp /\ r.overran = s.overran
      /\ r.event = s.event - t
  <2>1. t \in Int
    BY <1>4
  <2> HIDE DEF s
  <2> QED BY <1>3, <2>1, SlotPasses, SlotFields DEF s
<1>9. ASSUME win.orderly, r.se + 1 < Nse, ~r.overran
      PROVE  win'.to <= r.event + (r.se + 1) * group.sub - Guard(r)
  <2> DEFINE next == (s.se + 1) * group.sub
             G == Guard(s)
  <2>1. win.to <= s.event + next - G
    BY <1>2, <1>8, <1>9 DEF RoomInv, RoomOf
  <2>2. next \in Nat /\ G \in Nat /\ s.event \in Int /\ win.to \in Int
    <3>1. win.to \in Int
      BY <1>3 DEF WindowRecord
    <3> HIDE DEF s
    <3> QED BY <1>3, <3>1, Places, Opening, SlotFields DEF s
  <2>3. Guard(r) = G /\ (r.se + 1) * group.sub = next
    BY <1>8, SameGuard
  <2> HIDE DEF next, G, s, r
  <2> QED BY <1>4, <1>7, <1>8, <2>1, <2>2, <2>3
<1> HIDE DEF r
<1>10. /\ win'.b = win.b /\ (slots[win.b].locked => r.locked) /\ r.next = slots[win.b].next - t
       /\ r.se = slots[win.b].se /\ r.rsp = slots[win.b].rsp
       /\ slots' = [SlotsAfter(t) EXCEPT ![win.b] = r]
  BY <1>5, <1>7, <1>8
<1> HIDE DEF b, s
<1>11. RoomOf(slots', win')
  BY <1>2, <1>3, <1>4, <1>7, <1>8, <1>9, <1>10, RoomShifts
<1> QED BY <1>2, <1>11, RoomNext

\* A BIG's streams, once all are locked on the event, leave each other room in
\* every layout in which they take turns, and so do a slot's own subevents: the
\* window bis_window_us gives is over before the next one opens.
THEOREM RoomHolds == Spec => []WindowsLeaveRoom
<1>1. Init => RoomInv
  BY DEF Init, RoomInv, RoomOf, Closed
<1>2. Inv /\ RoomInv /\ [Next]_vars => RoomInv'
  <2> SUFFICES ASSUME Inv, RoomInv, [Next]_vars PROVE RoomInv'
    OBVIOUS
  <2>1. CASE ServeOpen
    BY <2>1, RoomOpens
  <2>2. CASE Hear
    BY <2>2, RoomHears
  <2>3. CASE Lose
    BY <2>3, RoomLoses
  <2>4. CASE ServeClose
    <3>1. win' = Closed /\ group' = group
      BY <2>4 DEF ServeClose
    <3>2. RoomOf(slots', win')
      BY <3>1 DEF RoomOf, Closed
    <3> QED BY <3>1, <3>2, RoomNext
  <2>5. CASE FadeIn \/ FadeOut \/ Drift \/ End \/ UNCHANGED vars
    <3>1. UNCHANGED <<group, slots, win>>
      BY <2>5 DEF FadeIn, FadeOut, Drift, End, vars
    <3>2. RoomOf(slots', win')
      BY <3>1 DEF RoomInv
    <3> QED BY <3>1, <3>2, RoomNext
  <2> QED BY <2>1, <2>2, <2>3, <2>4, <2>5 DEF Next, Progress
<1>3. Inv /\ RoomInv => WindowsLeaveRoom
  <2> SUFFICES ASSUME Inv, RoomInv, win.open, win.orderly
               PROVE  LET s == slots[win.b]
                      IN  /\ \A c \in Active \ {win.b} : win.to <= OpenAt(slots[c])
                          /\ s.se + 1 < Nse /\ ~s.overran =>
                               win.to <= s.event + (s.se + 1) * group.sub - Guard(s)
    BY DEF WindowsLeaveRoom
  <2> QED BY DEF RoomInv, RoomOf, Active
<1> QED BY <1>1, <1>2, <1>3, InitInv, NextInv, PTL DEF Spec
=============================================================================
