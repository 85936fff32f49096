--------------------------- MODULE ChannelSelection ---------------------------
(***************************************************************************)
(* The channel selection algorithms of ble_csa.c: which data channel an    *)
(* event, or a subevent of an isochronous event, is on.  A channel map is  *)
(* the set of channels in use.  The width of the pseudo-random numbers is  *)
(* a parameter (16 in the code), so that a small instance runs through all *)
(* of them.                                                                *)
(***************************************************************************)
EXTENDS Integers, FiniteSets

CONSTANTS
  Bits,        \* width of counters and pseudo-random numbers
  NChannels    \* number of data channels (37)

ASSUME WidthAssumption ==
  /\ Bits \in Nat \ {0} /\ Bits % 2 = 0
  /\ NChannels \in Nat \ {0}

W == 2^Bits

\* What 2^i is, one bit at a time: the provers do not know.
ASSUME PowersAssumption ==
  2^0 = 1 /\ \A i \in 0..Bits-1 : 2^(i + 1) = 2 * 2^i

Bit(x, i) == (x \div 2^i) % 2

\* The number below 2^n whose bit i is b[i].
Number(b, n) ==
  LET upTo[i \in 0..n] == IF i = 0 THEN 0 ELSE upTo[i - 1] + b[i - 1] * 2^(i - 1)
  IN  upTo[n]

Xor(x, y) ==
  Number([i \in 0..Bits-1 |-> IF Bit(x, i) = Bit(y, i) THEN 0 ELSE 1], Bits)

\* Each half of the number with its bits in reverse.
Permute(x) ==
  LET h == Bits \div 2
  IN  Number([i \in 0..Bits-1 |-> IF i < h THEN Bit(x, h - 1 - i)
                                  ELSE Bit(x, Bits + h - 1 - i)], Bits)

Mam(a, b) == (a * 17 + b) % W

Round(x, chanId) == Mam(Permute(x), chanId)

PrnS(counter, chanId) ==
  Round(Round(Round(Xor(counter, chanId), chanId), chanId), chanId)

PrnE(counter, chanId) == Xor(PrnS(counter, chanId), chanId)

----------------------------------------------------------------------------

\* The index-th channel in use, and back.
Remap(map, index) == CHOOSE c \in map : Cardinality({d \in map : d < c}) = index
RemapIndexOf(map, channel) == Cardinality({d \in map : d < channel})

\* (count * prn) >> 16
Scale(count, prn) == (count * prn) \div W

\* CSA#1: the unmapped channel moves on by hop with each call.
Csa1Step(last, hop) == (last + hop) % NChannels

Csa1Channel(unmapped, map) ==
  IF unmapped \in map THEN unmapped ELSE Remap(map, unmapped % Cardinality(map))

\* CSA#2, from the event's pseudo-random number.
Csa2Channel(prn, map) ==
  LET unmapped == prn % NChannels
  IN  IF unmapped \in map THEN unmapped
      ELSE Remap(map, Scale(Cardinality(map), prn))

\* The recurrence over the subevents of an isochronous event: the state is
\* the last number before it is combined with the channel id, and the last
\* channel's index.
IsoEvent(counter, chanId, map) ==
  LET lu == PrnS(counter, chanId)
      prn == Xor(lu, chanId)
      unmapped == prn % NChannels
  IN  [lu |-> lu,
       index |-> IF unmapped \in map THEN RemapIndexOf(map, unmapped)
                 ELSE Scale(Cardinality(map), prn)]

Least(a, b) == IF a < b THEN a ELSE b
Greatest(a, b) == IF a > b THEN a ELSE b

\* How far apart consecutive subevents are at least.
StepD(n) ==
  LET x == IF n > 5 THEN n - 5 ELSE 0
      y == IF n > 10 THEN (n - 10) \div 2 ELSE 0
  IN  Greatest(1, Greatest(Least(x, 3), Least(y, 11)))

IsoSubevent(state, chanId, map) ==
  LET lu == Round(state.lu, chanId)
      n == Cardinality(map)
      d == StepD(n)
      x == IF n + 1 > 2 * d THEN n + 1 - 2 * d ELSE 0
  IN  [lu |-> lu,
       index |-> (Scale(x, Xor(lu, chanId)) + d + state.index) % n]

IsoChannel(state, map) == Remap(map, state.index)
=============================================================================
