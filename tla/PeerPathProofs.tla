--------------------------- MODULE PeerPathProofs ---------------------------
(***************************************************************************)
(* Theorems of PeerPath, for any ring of boards and any bounds: every      *)
(* variable has its type, a handoff is matched with its own edge, and, if  *)
(* slave ports are re-armed in time, no offer is forgotten.                *)
(*                                                                         *)
(* NoLostOffer is inductive once the work queues, threads and buffers have *)
(* their types (OfferInv).  That a handoff finds its edge rests on what is *)
(* known of times (PathInv): the captured edges are apart, those of recent *)
(* hits are among them, and every handoff on its way carries an age that   *)
(* was right a short while ago.                                            *)
(***************************************************************************)
EXTENDS PeerPath, Numbers, SequenceTheorems

Items == {"tx", "read", "test"}
Queues == [Boards -> Seq(Items)]

ThreadTypes ==
  /\ work \in Queues
  /\ DOMAIN thread = Boards
  /\ \A b \in Boards : thread[b] = [at |-> thread[b].at, msg |-> thread[b].msg]
  /\ DOMAIN buf = Boards
  /\ unread \in [Boards -> BOOLEAN]

ComingFor(b) ==
  \/ thread[b].at = "pulse"
  \/ ReadDue(b)
  \/ thread[Up[b]].at = "reading" /\ thread[Up[b]].msg = buf[b]

OfferInv == ThreadTypes /\ NoLostOffer

-----------------------------------------------------------------------------
LEMMA MasterOfSlave ==
  ASSUME NEW b \in Boards
  PROVE  Up[b] \in Boards /\ Down[Up[b]] = b /\ Up[b] # b
BY RingAssumption DEF Up

LEMMA SubmitEffect ==
  ASSUME work \in Queues, NEW b \in Boards, NEW item \in Items
  PROVE  /\ Submit(b, item) \in Queues
         /\ item \in ToSet(Submit(b, item)[b])
         /\ \A c \in Boards : ToSet(work[c]) \subseteq ToSet(Submit(b, item)[c])
<1> DEFINE s == work[b]
           t == Append(s, item)
<1>1. s \in Seq(Items)
  BY DEF Queues
<1>2. t \in Seq(Items) /\ Len(t) = Len(s) + 1 /\ t[Len(s) + 1] = item
      /\ \A i \in 1 .. Len(s) : t[i] = s[i]
  BY <1>1, AppendProperties
<1>3. item \in ToSet(t) /\ ToSet(s) \subseteq ToSet(t)
  <2>1. DOMAIN s = 1 .. Len(s) /\ DOMAIN t = 1 .. Len(t) /\ Len(s) \in Nat
    BY <1>1, <1>2, LenProperties
  <2> HIDE DEF s, t
  <2>2. QED
    BY <1>2, <2>1 DEF ToSet
<1>4. CASE item \in ToSet(work[b])
  BY <1>4 DEF Submit
<1>5. CASE item \notin ToSet(work[b])
  <2>1. Submit(b, item) = [work EXCEPT ![b] = t]
    BY <1>5 DEF Submit
  <2>2. QED
    BY <1>2, <1>3, <2>1 DEF Queues
<1>6. QED
  BY <1>4, <1>5

LEMMA TailEffect ==
  ASSUME NEW s \in Seq(Items), s # <<>>
  PROVE  /\ Tail(s) \in Seq(Items) /\ Head(s) \in Items
         /\ \A x \in ToSet(s) : x = Head(s) \/ x \in ToSet(Tail(s))
<1>1. /\ Tail(s) \in Seq(Items) /\ Len(Tail(s)) = Len(s) - 1 /\ Head(s) \in Items
      /\ \A i \in 1 .. Len(Tail(s)) : Tail(s)[i] = s[i + 1]
  BY HeadTailProperties
<1>2. Len(s) \in Nat /\ DOMAIN s = 1 .. Len(s) /\ DOMAIN Tail(s) = 1 .. Len(Tail(s))
  BY <1>1, LenProperties
<1>3. Head(s) = s[1]
  OBVIOUS
<1>4. \A i \in 1 .. Len(s) : i = 1 \/ (i - 1 \in 1 .. Len(Tail(s)) /\ Tail(s)[i - 1] = s[i])
  BY <1>1, <1>2
<1>5. SUFFICES ASSUME NEW i \in 1 .. Len(s)
               PROVE  s[i] = Head(s) \/ s[i] \in ToSet(Tail(s))
  BY <1>1, <1>2 DEF ToSet
<1>6. CASE i = 1
  BY <1>3, <1>6
<1>7. CASE i # 1
  <2>1. Tail(s)[i - 1] = s[i] /\ i - 1 \in DOMAIN Tail(s)
    BY <1>2, <1>4, <1>7
  <2>2. QED
    BY <2>1 DEF ToSet
<1>8. QED
  BY <1>6, <1>7

-----------------------------------------------------------------------------
LEMMA InitOffers == Init => OfferInv
<1> SUFFICES ASSUME Init PROVE OfferInv
  OBVIOUS
<1>1. work \in Queues
  <2>1. <<>> \in Seq(Items)
    BY EmptySeq
  <2>2. QED
    BY <2>1 DEF Init, Queues
<1>2. ThreadTypes
  BY <1>1 DEF Init, ThreadTypes
<1>3. QED
  BY <1>2 DEF Init, OfferInv, NoLostOffer

\* What a step of a thread does to it.
LEMMA ThreadMoves ==
  ASSUME ThreadTypes, NEW b \in Boards, NEW next, NEW m,
         thread' = [thread EXCEPT ![b] = [at |-> next, msg |-> m]]
         \/ (thread' = [thread EXCEPT ![b].at = next] /\ m = thread[b].msg)
  PROVE  /\ thread'[b].at = next /\ thread'[b].msg = m
         /\ DOMAIN thread' = Boards
         /\ \A c \in Boards \ {b} : thread'[c] = thread[c]
         /\ \A c \in Boards : thread'[c] = [at |-> thread'[c].at, msg |-> thread'[c].msg]
BY DEF ThreadTypes


\* A step that only adds to the work queues.
LEMMA MoreWork ==
  ASSUME OfferInv, UNCHANGED <<thread, buf, unread>>, work' \in Queues,
         \A c \in Boards : ToSet(work[c]) \subseteq ToSet(work'[c])
  PROVE  OfferInv'
<1>1. ThreadTypes'
  BY DEF OfferInv, ThreadTypes
<1>2. NoLostOffer'
  <2> SUFFICES ASSUME NEW b \in Boards, unread[b] PROVE ComingFor(b)'
    BY DEF NoLostOffer, ComingFor
  <2>1. Up[b] \in Boards /\ ComingFor(b)
    BY MasterOfSlave DEF OfferInv, NoLostOffer, ComingFor
  <2>2. QED
    BY <2>1 DEF ComingFor, ReadDue
<1>3. QED
  BY <1>1, <1>2 DEF OfferInv

\* A step of a thread that was neither about to pull REQ nor reading.
LEMMA OtherWork ==
  ASSUME OfferInv, NEW b \in Boards, NEW next, NEW m,
         thread' = [thread EXCEPT ![b] = [at |-> next, msg |-> m]]
         \/ (thread' = [thread EXCEPT ![b].at = next] /\ m = thread[b].msg),
         thread[b].at \notin {"pulse", "read", "reading"}, UNCHANGED <<work, buf, unread>>
  PROVE  OfferInv'
<1>1. /\ DOMAIN thread' = Boards /\ \A c \in Boards \ {b} : thread'[c] = thread[c]
      /\ \A c \in Boards : thread'[c] = [at |-> thread'[c].at, msg |-> thread'[c].msg]
  BY ThreadMoves DEF OfferInv
<1>2. ThreadTypes'
  BY <1>1 DEF OfferInv, ThreadTypes
<1>3. NoLostOffer'
  <2> SUFFICES ASSUME NEW c \in Boards, unread[c] PROVE ComingFor(c)'
    BY DEF NoLostOffer, ComingFor
  <2>1. Up[c] \in Boards /\ ComingFor(c)
    BY MasterOfSlave DEF OfferInv, NoLostOffer, ComingFor
  <2>2. QED
    BY <1>1, <2>1 DEF ComingFor, ReadDue
<1>4. QED
  BY <1>2, <1>3 DEF OfferInv

LEMMA DequeueOffers ==
  ASSUME OfferInv, NEW b \in Boards, Dequeue(b)
  PROVE  OfferInv'
<1> DEFINE next == Head(work[b])
<1>1. /\ thread[b].at = "idle" /\ thread'[b].at = next
      /\ DOMAIN thread' = Boards /\ \A c \in Boards \ {b} : thread'[c] = thread[c]
      /\ \A c \in Boards : thread'[c] = [at |-> thread'[c].at, msg |-> thread'[c].msg]
  BY ThreadMoves DEF OfferInv, Dequeue, Goto
<1>2. work[b] \in Seq(Items) /\ work[b] # <<>> /\ UNCHANGED <<buf, unread>>
      /\ work' = [work EXCEPT ![b] = Tail(@)]
  BY DEF OfferInv, ThreadTypes, Queues, Dequeue, links, history
<1>3. /\ Tail(work[b]) \in Seq(Items)
      /\ \A x \in ToSet(work[b]) : x = next \/ x \in ToSet(Tail(work[b]))
  BY <1>2, TailEffect
<1>4. work' \in Queues /\ work'[b] = Tail(work[b]) /\ \A c \in Boards \ {b} : work'[c] = work[c]
  BY <1>2, <1>3 DEF OfferInv, ThreadTypes, Queues
<1>5. ThreadTypes'
  BY <1>1, <1>2, <1>4 DEF OfferInv, ThreadTypes
<1>6. NoLostOffer'
  <2> SUFFICES ASSUME NEW c \in Boards, unread[c] PROVE ComingFor(c)'
    BY <1>2 DEF NoLostOffer, ComingFor
  <2>1. Up[c] \in Boards /\ ComingFor(c)
    BY MasterOfSlave DEF OfferInv, NoLostOffer, ComingFor
  <2>2. QED
    BY <1>1, <1>2, <1>3, <1>4, <2>1 DEF ComingFor, ReadDue
<1>7. QED
  BY <1>5, <1>6 DEF OfferInv

LEMMA OfferOffers ==
  ASSUME OfferInv, NEW b \in Boards, Offer(b)
  PROVE  OfferInv'
<1>1. /\ thread[b].at = "offer" /\ thread'[b].at = "pulse"
      /\ DOMAIN thread' = Boards /\ \A c \in Boards \ {b} : thread'[c] = thread[c]
      /\ \A c \in Boards : thread'[c] = [at |-> thread'[c].at, msg |-> thread'[c].msg]
  BY ThreadMoves DEF OfferInv, Offer, Goto
<1>2. /\ work' = work /\ DOMAIN buf' = Boards /\ unread' \in [Boards -> BOOLEAN]
      /\ \A c \in Boards \ {b} : buf'[c] = buf[c] /\ unread'[c] = unread[c]
  BY DEF OfferInv, ThreadTypes, Offer
<1>3. ThreadTypes'
  BY <1>1, <1>2 DEF OfferInv, ThreadTypes
<1>4. NoLostOffer'
  <2> SUFFICES ASSUME NEW c \in Boards, unread'[c] PROVE ComingFor(c)'
    BY DEF NoLostOffer, ComingFor
  <2>1. CASE c = b
    BY <1>1, <2>1 DEF ComingFor
  <2>2. CASE c # b
    <3>1. Up[c] \in Boards /\ ComingFor(c)
      BY <1>2, <2>2, MasterOfSlave DEF OfferInv, NoLostOffer, ComingFor
    <3>2. QED
      BY <1>1, <1>2, <2>2, <3>1 DEF ComingFor, ReadDue
  <2>3. QED
    BY <2>1, <2>2
<1>5. QED
  BY <1>3, <1>4 DEF OfferInv

LEMMA PulseOffers ==
  ASSUME OfferInv, NEW b \in Boards, PulseReq(b)
  PROVE  OfferInv'
<1>1. /\ thread[b].at = "pulse" /\ thread'[b].at = "write"
      /\ DOMAIN thread' = Boards /\ \A c \in Boards \ {b} : thread'[c] = thread[c]
      /\ \A c \in Boards : thread'[c] = [at |-> thread'[c].at, msg |-> thread'[c].msg]
  BY ThreadMoves DEF OfferInv, PulseReq, Goto
<1>2. UNCHANGED <<buf, unread>> /\ work' = Submit(Up[b], "read")
  BY DEF PulseReq, links, history
<1>3. /\ work' \in Queues /\ "read" \in ToSet(work'[Up[b]])
      /\ \A c \in Boards : ToSet(work[c]) \subseteq ToSet(work'[c])
  BY <1>2, MasterOfSlave, SubmitEffect DEF OfferInv, ThreadTypes, Items
<1>4. ThreadTypes'
  BY <1>1, <1>2, <1>3 DEF OfferInv, ThreadTypes
<1>5. NoLostOffer'
  <2> SUFFICES ASSUME NEW c \in Boards, unread[c] PROVE ComingFor(c)'
    BY <1>2 DEF NoLostOffer, ComingFor
  <2>1. Up[c] \in Boards /\ ComingFor(c)
    BY MasterOfSlave DEF OfferInv, NoLostOffer, ComingFor
  <2>2. QED
    BY <1>1, <1>2, <1>3, <2>1 DEF ComingFor, ReadDue
<1>6. QED
  BY <1>4, <1>5 DEF OfferInv

LEMMA ReadBeginOffers ==
  ASSUME OfferInv, NEW b \in Boards, ReadBegin(b)
  PROVE  OfferInv'
<1>1. /\ thread[b].at = "read" /\ thread'[b].at = "reading" /\ thread'[b].msg = buf[Down[b]]
      /\ DOMAIN thread' = Boards /\ \A c \in Boards \ {b} : thread'[c] = thread[c]
      /\ \A c \in Boards : thread'[c] = [at |-> thread'[c].at, msg |-> thread'[c].msg]
  BY ThreadMoves DEF OfferInv, ReadBegin, GotoWith
<1>2. UNCHANGED <<work, buf, unread>>
  BY DEF ReadBegin, links, history
<1>3. ThreadTypes'
  BY <1>1, <1>2 DEF OfferInv, ThreadTypes
<1>4. NoLostOffer'
  <2> SUFFICES ASSUME NEW c \in Boards, unread[c] PROVE ComingFor(c)'
    BY <1>2 DEF NoLostOffer, ComingFor
  <2>1. Up[c] \in Boards /\ Down[Up[c]] = c /\ ComingFor(c)
    BY MasterOfSlave DEF OfferInv, NoLostOffer, ComingFor
  <2>2. QED
    BY <1>1, <1>2, <2>1 DEF ComingFor, ReadDue
<1>5. QED
  BY <1>3, <1>4 DEF OfferInv

LEMMA ReadEndOffers ==
  ASSUME OfferInv, NEW b \in Boards, ReadEnd(b)
  PROVE  OfferInv'
<1>1. /\ thread[b].at = "reading" /\ thread'[b].at = "idle"
      /\ DOMAIN thread' = Boards /\ \A c \in Boards \ {b} : thread'[c] = thread[c]
      /\ \A c \in Boards : thread'[c] = [at |-> thread'[c].at, msg |-> thread'[c].msg]
  BY ThreadMoves DEF OfferInv, ReadEnd, GotoWith
<1>2. UNCHANGED <<work, buf>> /\ unread' \in [Boards -> BOOLEAN]
      /\ \A c \in Boards : unread'[c] =>
           unread[c] /\ (c = Down[b] => buf[c] # thread[b].msg)
  BY DEF ReadEnd, OfferInv, ThreadTypes
<1>3. ThreadTypes'
  BY <1>1, <1>2 DEF OfferInv, ThreadTypes
<1>4. NoLostOffer'
  <2> SUFFICES ASSUME NEW c \in Boards, unread'[c] PROVE ComingFor(c)'
    BY DEF NoLostOffer, ComingFor
  <2>1. Up[c] \in Boards /\ Down[Up[c]] = c /\ ComingFor(c)
    BY <1>2, MasterOfSlave DEF OfferInv, NoLostOffer, ComingFor
  <2>2. QED
    BY <1>1, <1>2, <2>1 DEF ComingFor, ReadDue
<1>5. QED
  BY <1>3, <1>4 DEF OfferInv

LEMMA NextOffers ==
  ASSUME PromptRearm, OfferInv, [Next]_vars
  PROVE  OfferInv'
<1> USE DEF sync, links, history
<1>1. ASSUME NEW b \in Boards, Hit(b) \/ HitDropped(b) \/ LinkTest(b) \/ SpisHandler(b)
      PROVE  OfferInv'
  <2>1. UNCHANGED <<thread, buf, unread>>
    BY <1>1 DEF Hit, HitDropped, LinkTest, SpisHandler
  <2>2. work' = work \/ work' = Submit(b, "tx") \/ work' = Submit(b, "test")
    BY <1>1 DEF Hit, HitDropped, LinkTest, SpisHandler
  <2>3. work' \in Queues /\ \A c \in Boards : ToSet(work[c]) \subseteq ToSet(work'[c])
    BY <2>2, SubmitEffect DEF OfferInv, ThreadTypes, Items
  <2>4. QED
    BY <2>1, <2>3, MoreWork
<1>2. CASE Heartbeat \/ Tick \/ UNCHANGED vars
  <2>1. UNCHANGED <<work, thread, buf, unread>>
    BY <1>2 DEF Heartbeat, Tick, vars
  <2>2. QED
    BY <2>1, MoreWork DEF OfferInv, ThreadTypes
<1>3. ASSUME NEW b \in Boards, PopEmpty(b) \/ PopAndAge(b) \/ StartTest(b) \/ Write(b)
      PROVE  OfferInv'
  <2>1. UNCHANGED <<work, buf, unread>> /\ thread[b].at \notin {"pulse", "read", "reading"}
    BY <1>3 DEF PopEmpty, PopAndAge, StartTest, Write, Goto, GotoWith
  <2>2. CASE PopEmpty(b)
    BY <2>1, <2>2, OtherWork DEF PopEmpty, Goto
  <2>3. CASE PopAndAge(b)
    BY <2>1, <2>3, OtherWork DEF PopAndAge, GotoWith
  <2>4. CASE StartTest(b)
    BY <2>1, <2>4, OtherWork DEF StartTest, GotoWith
  <2>5. CASE Write(b)
    BY <2>1, <2>5, OtherWork DEF Write, GotoWith
  <2>6. QED
    BY <1>3, <2>2, <2>3, <2>4, <2>5
<1>4. ASSUME NEW b \in Boards, ReadMissed(b) PROVE OfferInv'
  BY <1>4 DEF ReadMissed
<1>5. QED
  BY <1>1, <1>2, <1>3, <1>4, DequeueOffers, OfferOffers, PulseOffers, ReadBeginOffers,
     ReadEndOffers DEF Next, Thread

(* When slave ports are re-armed before the next transaction, whatever a  *)
(* board offers upstream is read, or replaced by its own next offer: the  *)
(* REQ pulses that coalesce in one work item lose nothing.                *)
THEOREM OffersAreRead == PromptRearm => (Spec => []NoLostOffer)
<1>1. ASSUME PromptRearm PROVE OfferInv /\ [Next]_vars => OfferInv'
  BY <1>1, NextOffers
<1>2. ASSUME PromptRearm PROVE Spec => []NoLostOffer
  <2>1. OfferInv /\ [Next]_vars => OfferInv'
    BY <1>1, <1>2
  <2>2. QED
    BY InitOffers, <2>1, PTL DEF Spec, OfferInv
<1>3. QED
  BY <1>2

-----------------------------------------------------------------------------
(* The inductive invariant: types, and what is known of times. *)

EdgeRecord == [of : 0 .. MaxHits, age : Ages]
Places == {"idle", "tx", "test", "offer", "pulse", "write", "read", "reading"}

SyncTypes ==
  /\ origin \in Seq(Boards) /\ Len(origin) <= MaxHits
  /\ since \in [Hits -> Ages]
  /\ edges \in Seq(EdgeRecord) /\ Len(edges) <= Recent

BoardTypes ==
  /\ txq \in [Boards -> Seq(Hits)] /\ \A b \in Boards : Len(txq[b]) <= Depth
  /\ work \in Queues /\ \A b \in Boards : IsInjective(work[b])
  /\ thread \in [Boards -> [at : Places, msg : Messages]]

LinkTypes ==
  /\ buf \in [Boards -> Messages] /\ rx \in [Boards -> Messages]
  /\ done \in [Boards -> BOOLEAN] /\ unread \in [Boards -> BOOLEAN]
  /\ tests \in 0 .. MaxTests
  /\ taken \subseteq Boards \X Hits \X (0 .. Unmatched)
  /\ replaced \subseteq Hits

\* A handoff not taken yet: the age it carries was right a short while ago.
Current(m, o, s) ==
  m.kind = "handoff" =>
    /\ m.hit \in 1 .. Len(o) /\ m.age <= s[m.hit]
    /\ s[m.hit] <= MaxAge /\ s[m.hit] - m.age <= MaxDelay

\* Those in a thread's hands, received, or to be read.
HeldInv ==
  \A b \in Boards :
    /\ Current(thread[b].msg, origin, since) /\ Current(rx[b], origin, since)
    /\ ReadDue(b) => Current(buf[b], origin, since)
    /\ thread[b].at = "pulse" => buf[b] = thread[b].msg

QueuedInv ==
  \A b \in Boards : \A h \in ToSet(txq[b]) : h \in 1 .. Len(origin) /\ since[h] <= MaxAge

\* Edges are apart, and those of recent hits are among them.
SpacedInv ==
  \A i, j \in DOMAIN edges :
    i < j => edges[j].age = MaxKept \/ edges[j].age >= edges[i].age + (j - i) * Gap

RecordedInv ==
  \A h \in 1 .. Len(origin) :
    since[h] > MaxAge \/ \E i \in DOMAIN edges : edges[i] = [of |-> h, age |-> since[h]]

MatchInv == HeldInv /\ QueuedInv /\ SpacedInv /\ RecordedInv /\ HandoffFindsItsEdge

PathInv == SyncTypes /\ BoardTypes /\ LinkTypes /\ MatchInv

-----------------------------------------------------------------------------
LEMMA AgeBounds ==
  /\ MaxKept \in Nat /\ MaxKept > MaxAge /\ MaxKept > MaxAge + Tol
  /\ 0 \in Ages /\ MaxKept \in Ages /\ Ages \subseteq Nat
  /\ \A a \in Ages : Older(a) \in Ages /\ (a < MaxKept => Older(a) = a + 1)
BY BoundAssumption DEF MaxKept, Ages, Older

LEMMA MessageFields ==
  /\ None \in Messages /\ Test \in Messages
  /\ None.kind # "handoff" /\ Test.kind # "handoff"
  /\ \A h \in Hits, a \in Ages :
       /\ Handoff(h, a) \in Messages /\ Handoff(h, a).kind = "handoff"
       /\ Handoff(h, a).hit = h /\ Handoff(h, a).age = a
  /\ \A m \in Messages : m.kind = "handoff" => m.hit \in Hits /\ m.age \in Ages
<1>1. /\ None \in Messages /\ Test \in Messages
      /\ \A h \in Hits, a \in Ages : Handoff(h, a) \in Messages
  BY DEF Messages
<1>2. /\ None.kind # "handoff" /\ Test.kind # "handoff"
      /\ \A h, a : /\ Handoff(h, a).kind = "handoff"
                   /\ Handoff(h, a).hit = h /\ Handoff(h, a).age = a
  BY DEF None, Test, Handoff
<1>3. \A m \in Messages : m = None \/ m = Test \/ \E h \in Hits, a \in Ages : m = Handoff(h, a)
  BY DEF Messages
<1> QED BY <1>1, <1>2, <1>3

\* The ring of captures after one more.
LEMMA CapturedEffect ==
  ASSUME SyncTypes, NEW e \in 0 .. MaxHits
  PROVE  LET c == Captured(e)
         IN  /\ c \in Seq(EdgeRecord) /\ Len(c) <= Recent /\ Len(c) >= 1
             /\ Len(edges) < Recent => Len(c) = Len(edges) + 1
             /\ Len(edges) >= Recent => Len(c) = Recent
             /\ c[1] = [of |-> e, age |-> 0]
             /\ \A i \in 2 .. Len(c) : c[i] = edges[i - 1]
<1> DEFINE first == [of |-> e, age |-> 0]
           all == <<first>> \o edges
           n == IF Len(edges) < Recent THEN Len(edges) + 1 ELSE Recent
           c == SubSeq(all, 1, n)
<1>1. first \in EdgeRecord
  BY AgeBounds DEF EdgeRecord
<1>2. <<first>> \in Seq(EdgeRecord) /\ Len(<<first>>) = 1 /\ <<first>>[1] = first
  BY <1>1
<1>3. edges \in Seq(EdgeRecord) /\ Len(edges) \in Nat /\ Len(edges) <= Recent
  BY LenProperties DEF SyncTypes
<1>4. /\ all \in Seq(EdgeRecord) /\ Len(all) = 1 + Len(edges)
      /\ \A i \in 1 .. 1 + Len(edges) :
           all[i] = IF i <= 1 THEN <<first>>[i] ELSE edges[i - 1]
  <2> HIDE DEF first
  <2> QED BY <1>2, <1>3, ConcatProperties
<1>5. Recent \in Nat /\ Recent >= 1
  BY BoundAssumption
<1>6. n \in 1 .. Recent /\ n <= Len(all)
  BY <1>3, <1>4, <1>5
<1>7. \A i \in 1 .. n : all[i] \in EdgeRecord
  <2> HIDE DEF all
  <2> QED BY <1>4, <1>6, ElementOfSeq
<1>8. c \in Seq(EdgeRecord) /\ Len(c) = n /\ \A i \in 1 .. n : c[i] = all[i]
  <2> HIDE DEF all
  <2>1. /\ c \in Seq(EdgeRecord) /\ Len(c) = (IF 1 <= n THEN n - 1 + 1 ELSE 0)
        /\ \A i \in 1 .. n - 1 + 1 : c[i] = all[1 + i - 1]
    BY <1>6, <1>7, SubSeqProperties
  <2> HIDE DEF n, c
  <2> QED BY <1>6, <2>1
<1>9. c[1] = first /\ \A i \in 2 .. n : c[i] = edges[i - 1]
  <2> HIDE DEF all, n, c
  <2>1. \A i \in 2 .. n : i \in 1 .. n /\ i \in 1 .. 1 + Len(edges) /\ ~(i <= 1)
    BY <1>3, <1>4, <1>6
  <2>2. 1 \in 1 .. n /\ 1 \in 1 .. 1 + Len(edges)
    BY <1>3, <1>6
  <2> QED BY <1>2, <1>4, <1>8, <2>1, <2>2
<1>10. Captured(e) = c
  BY DEF Captured
<1>11. /\ Len(c) <= Recent /\ Len(c) >= 1
       /\ Len(edges) < Recent => Len(c) = Len(edges) + 1
       /\ Len(edges) >= Recent => Len(c) = Recent
       /\ \A i \in 2 .. Len(c) : c[i] = edges[i - 1]
  <2>1. Len(c) = n /\ n \in 1 .. Recent
    BY <1>6, <1>8
  <2>2. /\ Len(edges) < Recent => n = Len(edges) + 1
        /\ Len(edges) >= Recent => n = Recent
    BY <1>3, <1>5
  <2> HIDE DEF c, n, all
  <2> QED BY <1>5, <1>9, <2>1, <2>2
<1> HIDE DEF c, n, all
<1> QED BY <1>8, <1>9, <1>10, <1>11

LEMMA Multiples ==
  \A n \in Nat : n * Gap \in Nat /\ (n + 1) * Gap = n * Gap + Gap /\ (n >= 1 => n * Gap >= Gap)
<1> SUFFICES ASSUME NEW n \in Nat
             PROVE  n * Gap \in Nat /\ (n + 1) * Gap = n * Gap + Gap /\ (n >= 1 => n * Gap >= Gap)
  OBVIOUS
<1>1. Gap \in Nat
  BY BoundAssumption
<1>2. n * Gap \in Nat /\ (n + 1) * Gap = n * Gap + Gap
  BY <1>1
<1>3. CASE n >= 1
  <2>1. (n - 1) * Gap \in Nat /\ n * Gap = (n - 1) * Gap + Gap
    BY <1>1, <1>3
  <2> QED BY <1>1, <1>2, <1>3, <2>1
<1> QED BY <1>2, <1>3

-----------------------------------------------------------------------------
(* What peer_anchor_match returns. *)

Near(age) == {i \in DOMAIN edges : Err(i, age) <= Tol}

LEMMA EdgeFields ==
  ASSUME SyncTypes
  PROVE  /\ DOMAIN edges = 1 .. Len(edges) /\ Len(edges) \in Nat
         /\ \A i \in DOMAIN edges : /\ edges[i] \in EdgeRecord
                                    /\ edges[i].of \in 0 .. MaxHits /\ edges[i].age \in Nat
                                    /\ edges[i].age <= MaxKept
<1>1. /\ DOMAIN edges = 1 .. Len(edges) /\ Len(edges) \in Nat
      /\ \A i \in DOMAIN edges : edges[i] \in EdgeRecord
  <2>1. edges \in Seq(EdgeRecord)
    BY DEF SyncTypes
  <2> QED BY <2>1, LenProperties, ElementOfSeq
<1>2. \A e \in EdgeRecord : e.of \in 0 .. MaxHits /\ e.age \in Nat /\ e.age <= MaxKept
  BY AgeBounds DEF EdgeRecord, Ages
<1> QED BY <1>1, <1>2

LEMMA ErrNat ==
  ASSUME SyncTypes, NEW age \in Nat, NEW i \in DOMAIN edges
  PROVE  Err(i, age) \in Nat
BY EdgeFields DEF Err

\* A near edge that no other beats is chosen; without a near edge there is no match.
LEMMA MatchChooses ==
  ASSUME SyncTypes, NEW age \in Nat
  PROVE  \/ Near(age) = {} /\ Match(age) = Unmatched
         \/ \E i \in Near(age) :
              /\ Match(age) = edges[i].of
              /\ \A j \in Near(age) :
                   IF i <= j THEN Err(i, age) <= Err(j, age) ELSE Err(i, age) < Err(j, age)
<1> DEFINE best(i) == \A j \in Near(age) :
             IF i <= j THEN Err(i, age) <= Err(j, age) ELSE Err(i, age) < Err(j, age)
           rank == [i \in Near(age) |-> Err(i, age)]
<1>1. Match(age) = IF Near(age) = {} THEN Unmatched
                   ELSE edges[CHOOSE i \in Near(age) : best(i)].of
  BY DEF Match, Near
<1>2. CASE Near(age) = {}
  BY <1>1, <1>2
<1>3. CASE Near(age) # {}
  <2>1. Near(age) \in SUBSET Nat /\ rank \in [Near(age) -> Nat]
    BY EdgeFields, ErrNat DEF Near
  <2>2. PICK i \in Near(age) : \A j \in Near(age) :
          rank[i] < rank[j] \/ (rank[i] = rank[j] /\ i <= j)
    <3> HIDE DEF rank
    <3> QED BY <1>3, <2>1, LeastRank
  <2>3. \A j \in Near(age) : Err(i, age) < Err(j, age) \/ (Err(i, age) = Err(j, age) /\ i <= j)
    BY <2>2
  <2>4. best(i)
    <3>1. \A j \in Near(age) : Err(i, age) \in Nat /\ Err(j, age) \in Nat
      BY ErrNat DEF Near
    <3> QED BY <2>3, <3>1
  <2> DEFINE k == CHOOSE n \in Near(age) : best(n)
  <2> HIDE DEF best
  <2>5. k \in Near(age) /\ best(k) /\ Match(age) = edges[k].of
    BY <1>1, <1>3, <2>4
  <2> HIDE DEF k
  <2> QED BY <2>5 DEF best
<1> QED BY <1>2, <1>3

LEMMA MatchType ==
  ASSUME SyncTypes, NEW age \in Nat
  PROVE  Match(age) \in 0 .. Unmatched
<1>1. MaxHits \in Nat /\ Unmatched = MaxHits + 1
  BY BoundAssumption DEF Unmatched
<1>2. \A i \in Near(age) : edges[i].of \in 0 .. MaxHits
  BY EdgeFields DEF Near
<1>3. Match(age) = Unmatched \/ \E i \in Near(age) : Match(age) = edges[i].of
  BY MatchChooses
<1> QED BY <1>1, <1>2, <1>3

\* Two edges are at least Gap apart, unless the older one's age is no longer counted.
LEMMA Apart ==
  ASSUME SyncTypes, SpacedInv, NEW i \in DOMAIN edges, NEW j \in DOMAIN edges, i < j
  PROVE  edges[j].age = MaxKept \/ edges[j].age >= edges[i].age + Gap
<1> DEFINE n == j - i
<1>1. n \in Nat /\ n >= 1
  BY EdgeFields
<1>2. edges[j].age = MaxKept \/ edges[j].age >= edges[i].age + n * Gap
  BY DEF SpacedInv
<1> HIDE DEF n
<1> DEFINE p == n * Gap
<1>3. p \in Nat /\ p >= Gap
  BY <1>1, Multiples
<1>4. edges[j].age = MaxKept \/ edges[j].age >= edges[i].age + p
  BY <1>2
<1>5. edges[i].age \in Nat /\ edges[j].age \in Nat /\ Gap \in Nat
  BY EdgeFields, BoundAssumption
<1> HIDE DEF p
<1> QED BY <1>3, <1>4, <1>5

\* The age x of any other edge is too far from the age a handoff carries, or farther
\* than that of its hit, s.
LEMMA Farther ==
  ASSUME NEW s \in Nat, NEW a \in Nat, NEW x \in Nat, a <= s, s <= MaxAge, s - a <= MaxDelay,
         x = MaxKept \/ x >= s + Gap \/ s >= x + Gap
  PROVE  LET err == IF x < a THEN a - x ELSE x - a IN err > Tol \/ err > s - a
<1>1. /\ MaxDelay \in Nat /\ MaxAge \in Nat /\ Tol \in Nat /\ Gap \in Nat /\ MaxKept \in Nat
      /\ MaxDelay + MaxDelay < Gap /\ MaxKept > MaxAge + Tol
  BY BoundAssumption, TimingAssumption, AgeBounds
<1>2. CASE x = MaxKept
  BY <1>1, <1>2
<1>3. CASE x >= s + Gap
  BY <1>1, <1>3
<1>4. CASE s >= x + Gap
  BY <1>1, <1>4
<1> QED BY <1>2, <1>3, <1>4

\* The age of a recent hit leads to the edge of that hit and to no other.
LEMMA MatchFinds ==
  ASSUME SyncTypes, SpacedInv, RecordedInv, NEW h \in 1 .. Len(origin), NEW age \in Nat,
         since[h] \in Nat, age <= since[h], since[h] <= MaxAge, since[h] - age <= MaxDelay
  PROVE  Match(age) = h
<1>1. /\ MaxDelay \in Nat /\ MaxAge \in Nat /\ Tol \in Nat /\ Gap \in Nat
      /\ MaxDelay <= Tol /\ 2 * MaxDelay < Gap
      /\ MaxKept \in Nat /\ MaxKept > MaxAge + Tol
  BY BoundAssumption, TimingAssumption, AgeBounds
<1>2. PICK i \in DOMAIN edges : edges[i] = [of |-> h, age |-> since[h]]
  BY <1>1 DEF RecordedInv
<1>3. edges[i].of = h /\ edges[i].age = since[h]
  BY <1>2
<1>4. Err(i, age) = since[h] - age
  BY <1>3 DEF Err
<1>5. i \in Near(age)
  BY <1>1, <1>4 DEF Near
<1>6. PICK k \in Near(age) :
        /\ Match(age) = edges[k].of
        /\ \A j \in Near(age) :
             IF k <= j THEN Err(k, age) <= Err(j, age) ELSE Err(k, age) < Err(j, age)
  BY <1>5, MatchChooses
<1>7. k \in DOMAIN edges /\ Err(k, age) <= Tol /\ Err(k, age) <= Err(i, age)
  <2>1. k \in DOMAIN edges /\ Err(k, age) <= Tol
    BY DEF Near
  <2>2. Err(k, age) \in Nat /\ Err(i, age) \in Nat
    BY <2>1, ErrNat
  <2> QED BY <1>5, <1>6, <2>1, <2>2
<1>8. k \in Nat /\ i \in Nat /\ edges[k].age \in Nat
  BY <1>7, EdgeFields
<1>9. Tol \in Nat /\ since[h] - age \in Int /\ Err(k, age) \in Nat
  <2>1. Tol \in Nat /\ since[h] - age \in Int
    BY <1>1
  <2>2. Err(k, age) \in Nat
    BY <1>7, ErrNat
  <2> QED BY <2>1, <2>2
<1>10. ASSUME k > i PROVE FALSE
  <2>1. edges[k].age = MaxKept \/ edges[k].age >= since[h] + Gap
    BY <1>3, <1>7, <1>10, Apart
  <2>2. Err(k, age) > Tol \/ Err(k, age) > since[h] - age
    BY <1>8, <2>1, Farther DEF Err
  <2> QED BY <1>4, <1>7, <1>9, <2>2
<1>11. ASSUME k < i PROVE FALSE
  <2>1. since[h] >= edges[k].age + Gap
    <3>1. since[h] = MaxKept \/ since[h] >= edges[k].age + Gap
      BY <1>3, <1>7, <1>11, Apart
    <3> QED BY <1>1, <3>1
  <2>2. Err(k, age) > Tol \/ Err(k, age) > since[h] - age
    BY <1>8, <2>1, Farther DEF Err
  <2> QED BY <1>4, <1>7, <1>9, <2>2
<1> QED BY <1>3, <1>6, <1>8, <1>10, <1>11

-----------------------------------------------------------------------------
(* Steps that capture an edge, and the passing of time. *)

\* A new edge moves the others back; only an edge too old to matter is dropped.
LEMMA CaptureKeeps ==
  ASSUME SyncTypes, SpacedInv, Quiet, NEW e \in 0 .. MaxHits, edges' = Captured(e)
  PROVE  /\ edges' \in Seq(EdgeRecord) /\ Len(edges') <= Recent /\ SpacedInv'
         /\ 1 \in DOMAIN edges' /\ edges'[1] = [of |-> e, age |-> 0]
         /\ \A i \in DOMAIN edges :
              edges[i].age <= MaxAge =>
                i + 1 \in DOMAIN edges' /\ edges'[i + 1] = edges[i]
<1>1. /\ edges' \in Seq(EdgeRecord) /\ Len(edges') <= Recent /\ Len(edges') >= 1
      /\ Len(edges) < Recent => Len(edges') = Len(edges) + 1
      /\ Len(edges) >= Recent => Len(edges') = Recent
      /\ edges'[1] = [of |-> e, age |-> 0]
      /\ \A i \in 2 .. Len(edges') : edges'[i] = edges[i - 1]
  BY CapturedEffect
<1>2. /\ DOMAIN edges' = 1 .. Len(edges') /\ Len(edges') \in Nat
      /\ DOMAIN edges = 1 .. Len(edges) /\ Len(edges) \in Nat /\ Len(edges) <= Recent
  BY <1>1, LenProperties, EdgeFields DEF SyncTypes
<1>3. Recent \in Nat /\ Gap \in Nat /\ MaxAge \in Nat /\ MaxKept \in Nat /\ MaxAge < MaxKept
      /\ Gap <= MaxKept
  BY BoundAssumption, AgeBounds DEF MaxKept
<1>4. \A i \in DOMAIN edges : edges[i].age \in Nat /\ edges[i].age <= MaxKept
  BY EdgeFields
<1>5. \A i \in DOMAIN edges : edges[i].age = MaxKept \/ edges[i].age >= i * Gap
  <2> TAKE i \in DOMAIN edges
  <2>1. i \in Nat /\ i >= 1 /\ 1 \in DOMAIN edges
    BY <1>2
  <2>2. edges[1].age >= Gap
    BY <2>1, EmptySeq, <1>2 DEF Quiet
  <2>3. CASE i = 1
    <3>1. 1 * Gap = Gap
      BY <1>3
    <3> QED BY <2>2, <2>3, <3>1
  <2>4. CASE i # 1
    <3> DEFINE n == i - 1
               p == n * Gap
    <3>1. n \in Nat /\ i = n + 1
      BY <2>1
    <3>2. edges[i].age = MaxKept \/ edges[i].age >= edges[1].age + p
      BY <2>1, <2>4 DEF SpacedInv
    <3>3. (n + 1) * Gap = p + Gap /\ p \in Nat
      <4> HIDE DEF n
      <4> QED BY <3>1, Multiples
    <3>4. i * Gap = p + Gap
      <4> HIDE DEF n, p
      <4> QED BY <3>1, <3>3
    <3> HIDE DEF n, p
    <3> QED BY <1>3, <1>4, <2>1, <2>2, <3>2, <3>3, <3>4
  <2> QED BY <2>3, <2>4
<1>6. /\ Len(edges) < Recent => Len(edges') = Len(edges) + 1
      /\ Len(edges) >= Recent => Len(edges') = Recent
  BY <1>1
<1>7. Len(edges') >= 1 /\ Len(edges') <= Len(edges) + 1
  <2>1. Len(edges') \in Nat /\ Len(edges) \in Nat /\ Recent \in Nat
    BY <1>2, <1>3
  <2>2. Len(edges') >= 1
    BY <1>1
  <2> QED BY <1>6, <2>1, <2>2
<1>8. \A i \in 2 .. Len(edges') : edges'[i] = edges[i - 1]
  BY <1>1
<1>9. ASSUME NEW i \in DOMAIN edges, edges[i].age <= MaxAge
      PROVE  i + 1 \in DOMAIN edges' /\ edges'[i + 1] = edges[i]
  <2>1. i # Recent
    <3> SUFFICES ASSUME i = Recent PROVE FALSE
      OBVIOUS
    <3> DEFINE p == Recent * Gap
    <3>1. edges[i].age >= p
      BY <1>3, <1>5, <1>9
    <3>2. p \in Int /\ MaxAge < p
      BY <1>3, TimingAssumption
    <3> HIDE DEF p
    <3> QED BY <1>3, <1>4, <1>9, <3>1, <3>2
  <2>2. i + 1 \in 2 .. Len(edges')
    <3>1. i \in Nat /\ i >= 1 /\ i <= Len(edges)
      BY <1>2
    <3>2. i + 1 <= Len(edges')
      <4>1. Len(edges') \in Nat /\ Len(edges) \in Nat /\ Recent \in Nat /\ Len(edges) <= Recent
        BY <1>2, <1>3
      <4> QED BY <1>6, <2>1, <3>1, <4>1
    <3> QED BY <1>2, <3>1, <3>2
  <2>3. i + 1 - 1 = i
    BY <1>2
  <2>4. edges'[i + 1] = edges[i + 1 - 1]
    BY <1>1, <2>2
  <2> QED BY <1>2, <2>2, <2>3, <2>4
<1>10. SpacedInv'
  <2> SUFFICES ASSUME NEW i \in DOMAIN edges', NEW j \in DOMAIN edges', i < j
               PROVE  \/ edges'[j].age = MaxKept
                      \/ edges'[j].age >= edges'[i].age + (j - i) * Gap
    BY DEF SpacedInv
  <2>1. i \in Nat /\ j \in 2 .. Len(edges') /\ i >= 1 /\ edges'[j] = edges[j - 1]
        /\ j - 1 \in DOMAIN edges
    <3>1. i \in Nat /\ j \in Nat /\ i >= 1 /\ j >= 2 /\ j <= Len(edges')
      BY <1>2
    <3>2. j \in 2 .. Len(edges') /\ j - 1 \in 1 .. Len(edges)
      BY <1>2, <1>7, <3>1
    <3> QED BY <1>1, <1>2, <3>1, <3>2
  <2>2. CASE i = 1
    <3> DEFINE n == j - 1
               p == n * Gap
    <3>1. edges'[i].age = 0 /\ j - i = n
      BY <1>1, <2>2
    <3>2. edges[n].age = MaxKept \/ edges[n].age >= p
      BY <1>5, <2>1
    <3>3. n \in Nat /\ p \in Nat /\ n \in DOMAIN edges /\ edges'[j] = edges[n]
      <4>1. n \in Nat
        BY <2>1, <1>2
      <4> HIDE DEF n
      <4> QED BY <4>1, Multiples, <2>1 DEF n
    <3>4. (j - i) * Gap = p
      BY <3>1
    <3> HIDE DEF n, p
    <3> QED BY <1>3, <1>4, <3>1, <3>2, <3>3, <3>4
  <2>3. CASE i # 1
    <3>1. i - 1 \in DOMAIN edges /\ edges'[i] = edges[i - 1] /\ i - 1 < j - 1
          /\ (j - 1) - (i - 1) = j - i
      <4>1. i - 1 \in 1 .. Len(edges) /\ i \in 2 .. Len(edges')
        BY <1>2, <1>7, <2>1, <2>3
      <4> QED BY <1>8, <1>2, <2>1, <4>1
    <3>2. \/ edges[j - 1].age = MaxKept
          \/ edges[j - 1].age >= edges[i - 1].age + ((j - 1) - (i - 1)) * Gap
      BY <2>1, <3>1 DEF SpacedInv
    <3> QED BY <2>1, <3>1, <3>2
  <2> QED BY <2>2, <2>3
<1>11. 1 \in DOMAIN edges'
  BY <1>2, <1>7
<1> QED BY <1>1, <1>9, <1>10, <1>11

\* What was true of a handoff's age stays true while its hit's age does.
LEMMA CurrentStays ==
  ASSUME NEW m, NEW o, NEW s, NEW p, NEW t, Current(m, o, s), Len(o) \in Nat, Len(p) \in Nat,
         Len(o) <= Len(p), \A h \in 1 .. Len(o) : t[h] = s[h]
  PROVE  Current(m, p, t)
BY DEF Current

\* A step in which an edge is captured, and perhaps a hit with it.
LEMMA CaptureMatch ==
  ASSUME PathInv, Quiet, NEW e \in 0 .. MaxHits, edges' = Captured(e),
         UNCHANGED <<thread, rx, buf, taken>>, SyncTypes',
         \A h \in 1 .. Len(origin) : since'[h] = since[h],
         \A b \in Boards : ReadDue(b)' => ReadDue(b),
         \A b \in Boards : \A h \in ToSet(txq'[b]) :
            h \in ToSet(txq[b]) \/ (h \in 1 .. Len(origin') /\ since'[h] = 0),
         \/ Len(origin') = Len(origin)
         \/ Len(origin') = Len(origin) + 1 /\ e = Len(origin') /\ since'[e] = 0
  PROVE  MatchInv'
<1>1. Len(origin) \in Nat /\ Len(origin') \in Nat /\ Len(origin) <= Len(origin')
  BY LenProperties DEF PathInv, SyncTypes
<1>2. \A m : Current(m, origin, since) => Current(m, origin', since')
  BY <1>1, CurrentStays
<1>3. HeldInv'
  <2> SUFFICES ASSUME NEW b \in Boards
               PROVE  /\ Current(thread'[b].msg, origin', since')
                      /\ Current(rx'[b], origin', since')
                      /\ ReadDue(b)' => Current(buf'[b], origin', since')
                      /\ thread'[b].at = "pulse" => buf'[b] = thread'[b].msg
    BY DEF HeldInv
  <2>1. /\ Current(thread[b].msg, origin, since) /\ Current(rx[b], origin, since)
        /\ ReadDue(b) => Current(buf[b], origin, since)
        /\ thread[b].at = "pulse" => buf[b] = thread[b].msg
    BY DEF PathInv, MatchInv, HeldInv
  <2>2. ReadDue(b)' => ReadDue(b)
    OBVIOUS
  <2>3. thread' = thread /\ rx' = rx /\ buf' = buf
    OBVIOUS
  <2> QED BY <1>2, <2>1, <2>2, <2>3
<1>4. QueuedInv'
  <2> SUFFICES ASSUME NEW b \in Boards, NEW h \in ToSet(txq'[b])
               PROVE  h \in 1 .. Len(origin') /\ since'[h] <= MaxAge
    BY DEF QueuedInv
  <2>1. CASE h \in ToSet(txq[b])
    <3>1. h \in 1 .. Len(origin) /\ since[h] <= MaxAge
      BY <2>1 DEF PathInv, MatchInv, QueuedInv
    <3> QED BY <1>1, <3>1
  <2>2. CASE h \in 1 .. Len(origin') /\ since'[h] = 0
    BY <2>2, BoundAssumption
  <2> QED BY <2>1, <2>2
<1>5. /\ SpacedInv' /\ 1 \in DOMAIN edges' /\ edges'[1] = [of |-> e, age |-> 0]
      /\ \A i \in DOMAIN edges :
           edges[i].age <= MaxAge =>
             i + 1 \in DOMAIN edges' /\ edges'[i + 1] = edges[i]
  BY CaptureKeeps DEF PathInv, MatchInv
<1>6. RecordedInv'
  <2> SUFFICES ASSUME NEW h \in 1 .. Len(origin'), ~(since'[h] > MaxAge)
               PROVE  \E i \in DOMAIN edges' : edges'[i] = [of |-> h, age |-> since'[h]]
    BY DEF RecordedInv
  <2>1. CASE h \in 1 .. Len(origin)
    <3>1. since'[h] = since[h] /\ ~(since[h] > MaxAge)
      BY <2>1
    <3>2. PICK i \in DOMAIN edges : edges[i] = [of |-> h, age |-> since[h]]
      BY <2>1, <3>1 DEF PathInv, MatchInv, RecordedInv
    <3>3. edges[i].age <= MaxAge
      <4>1. edges[i].age = since[h] /\ edges[i].age \in Nat /\ MaxAge \in Nat
        BY <3>2, EdgeFields, BoundAssumption DEF PathInv
      <4> QED BY <3>1, <4>1
    <3> QED BY <1>5, <3>1, <3>2, <3>3
  <2>2. CASE h \notin 1 .. Len(origin)
    <3>1. h = e /\ since'[h] = 0
      BY <1>1, <2>2
    <3> QED BY <1>5, <3>1
  <2> QED BY <2>1, <2>2
<1>7. HandoffFindsItsEdge'
  BY DEF PathInv, MatchInv, HandoffFindsItsEdge
<1> QED BY <1>3, <1>4, <1>5, <1>6, <1>7 DEF MatchInv

\* Ages in step with each other, up to the one beyond which none is told apart.
LEMMA OlderProperties ==
  ASSUME NEW a \in Ages, NEW b \in Ages, NEW p \in Nat, b = MaxKept \/ b >= a + p
  PROVE  Older(b) = MaxKept \/ Older(b) >= Older(a) + p
BY AgeBounds DEF Older, Ages

LEMMA TickTypes ==
  ASSUME SyncTypes, Tick
  PROVE  SyncTypes'
<1>1. since' \in [Hits -> Ages]
  BY AgeBounds DEF Tick, SyncTypes
<1>2. edges' \in Seq(EdgeRecord) /\ Len(edges') = Len(edges)
  <2>1. edges' = [i \in DOMAIN edges |-> [edges[i] EXCEPT !.age = Older(@)]]
    BY DEF Tick
  <2>2. DOMAIN edges = 1 .. Len(edges) /\ Len(edges) \in Nat
        /\ \A i \in DOMAIN edges : edges[i] \in EdgeRecord
    BY EdgeFields
  <2>3. \A i \in DOMAIN edges : [edges[i] EXCEPT !.age = Older(@)] \in EdgeRecord
    <3> TAKE i \in DOMAIN edges
    <3>1. edges[i] \in EdgeRecord /\ edges[i].age \in Ages
      BY <2>2 DEF EdgeRecord
    <3>2. Older(edges[i].age) \in Ages
      BY <3>1, AgeBounds
    <3> QED BY <3>1, <3>2 DEF EdgeRecord
  <2>4. edges' \in [1 .. Len(edges) -> EdgeRecord]
    BY <2>1, <2>2, <2>3
  <2>5. edges' \in Seq(EdgeRecord)
    BY <2>2, <2>4, SeqDef
  <2> QED BY <2>2, <2>4, <2>5, LenProperties
<1>3. origin' = origin
  BY DEF Tick
<1> QED BY <1>1, <1>2, <1>3 DEF SyncTypes

LEMMA TickMatch ==
  ASSUME PathInv, Tick
  PROVE  MatchInv'
<1>1. /\ since' = [h \in Hits |-> Older(since[h])]
      /\ edges' = [i \in DOMAIN edges |-> [edges[i] EXCEPT !.age = Older(@)]]
      /\ UNCHANGED <<origin, txq, work, thread, links, history>>
  BY DEF Tick
<1>2. /\ Len(origin) \in Nat /\ Len(origin) <= MaxHits /\ since \in [Hits -> Ages]
      /\ MaxHits \in Nat /\ MaxAge \in Nat /\ MaxDelay \in Nat
  BY LenProperties, BoundAssumption DEF PathInv, SyncTypes
<1>3. \A h \in 1 .. Len(origin) :
        h \in Hits /\ since[h] \in Nat /\ since[h] <= MaxKept /\ since'[h] = Older(since[h])
  BY <1>1, <1>2, AgeBounds DEF Hits, Ages
<1>4. \A h \in 1 .. Len(origin) : since[h] < MaxAge => since'[h] = since[h] + 1
  BY <1>3, <1>2, AgeBounds DEF Older
<1>5. ASSUME NEW m \in Held, Current(m, origin, since), m \in Messages
      PROVE  Current(m, origin, since')
  <2> SUFFICES ASSUME m.kind = "handoff"
               PROVE  /\ m.hit \in 1 .. Len(origin) /\ m.age <= since'[m.hit]
                      /\ since'[m.hit] <= MaxAge /\ since'[m.hit] - m.age <= MaxDelay
    BY DEF Current
  <2>1. since[m.hit] < MaxAge /\ since[m.hit] - m.age < MaxDelay
    BY DEF Tick
  <2>2. m.hit \in 1 .. Len(origin) /\ m.age <= since[m.hit]
    BY <1>5 DEF Current
  <2>3. since'[m.hit] = since[m.hit] + 1 /\ since[m.hit] \in Nat
    BY <1>3, <1>4, <2>1, <2>2
  <2>4. m.age \in Nat
    BY <1>5, MessageFields, AgeBounds
  <2> QED BY <1>2, <2>1, <2>2, <2>3, <2>4
<1>6. HeldInv'
  <2> SUFFICES ASSUME NEW b \in Boards
               PROVE  /\ Current(thread'[b].msg, origin', since')
                      /\ Current(rx'[b], origin', since')
                      /\ ReadDue(b)' => Current(buf'[b], origin', since')
                      /\ thread'[b].at = "pulse" => buf'[b] = thread'[b].msg
    BY DEF HeldInv
  <2>1. /\ Current(thread[b].msg, origin, since) /\ Current(rx[b], origin, since)
        /\ ReadDue(b) => Current(buf[b], origin, since)
        /\ thread[b].at = "pulse" => buf[b] = thread[b].msg
    BY DEF PathInv, MatchInv, HeldInv
  <2>2. thread[b].msg \in Messages /\ rx[b] \in Messages /\ buf[b] \in Messages
    BY DEF PathInv, BoardTypes, LinkTypes
  <2>3. thread[b].msg \in Held /\ rx[b] \in Held /\ (ReadDue(b) => buf[b] \in Held)
    BY DEF Held
  <2>4. ReadDue(b)' <=> ReadDue(b)
    BY <1>1 DEF ReadDue
  <2>5. thread' = thread /\ rx' = rx /\ buf' = buf /\ origin' = origin
    BY <1>1 DEF links
  <2> QED BY <1>5, <2>1, <2>2, <2>3, <2>4, <2>5
<1>7. QueuedInv'
  <2> SUFFICES ASSUME NEW b \in Boards, NEW h \in ToSet(txq[b])
               PROVE  h \in 1 .. Len(origin) /\ since'[h] <= MaxAge
    BY <1>1 DEF QueuedInv
  <2>1. since[h] < MaxAge
    BY DEF Tick
  <2>2. h \in 1 .. Len(origin)
    BY DEF PathInv, MatchInv, QueuedInv
  <2> QED BY <1>2, <1>3, <1>4, <2>1, <2>2
<1>8. DOMAIN edges' = DOMAIN edges /\ DOMAIN edges = 1 .. Len(edges) /\ Len(edges) \in Nat
      /\ \A i \in DOMAIN edges :
           /\ edges[i] \in EdgeRecord /\ edges[i].age \in Ages
           /\ edges'[i].age = Older(edges[i].age) /\ edges'[i].of = edges[i].of
           /\ edges'[i] = [of |-> edges[i].of, age |-> Older(edges[i].age)]
  BY <1>1, EdgeFields DEF PathInv, EdgeRecord
<1>9. SpacedInv'
  <2> SUFFICES ASSUME NEW i \in DOMAIN edges, NEW j \in DOMAIN edges, i < j
               PROVE  \/ edges'[j].age = MaxKept
                      \/ edges'[j].age >= edges'[i].age + (j - i) * Gap
    BY <1>8 DEF SpacedInv
  <2> DEFINE n == j - i
             p == n * Gap
  <2>1. n \in Nat
    BY <1>8
  <2>2. p \in Nat
    <3> HIDE DEF n
    <3> QED BY <2>1, Multiples
  <2>3. edges[j].age = MaxKept \/ edges[j].age >= edges[i].age + p
    BY DEF PathInv, MatchInv, SpacedInv
  <2> HIDE DEF p
  <2>4. Older(edges[j].age) = MaxKept \/ Older(edges[j].age) >= Older(edges[i].age) + p
    BY <1>8, <2>2, <2>3, OlderProperties
  <2>5. edges'[j].age = MaxKept \/ edges'[j].age >= edges'[i].age + p
    BY <1>8, <2>4
  <2> QED BY <2>5 DEF p
<1>10. RecordedInv'
  <2> SUFFICES ASSUME NEW h \in 1 .. Len(origin), ~(since'[h] > MaxAge)
               PROVE  \E i \in DOMAIN edges' : edges'[i] = [of |-> h, age |-> since'[h]]
    BY <1>1 DEF RecordedInv
  <2>1. ~(since[h] > MaxAge)
    BY <1>2, <1>3, AgeBounds DEF Older
  <2>2. PICK i \in DOMAIN edges : edges[i] = [of |-> h, age |-> since[h]]
    BY <2>1 DEF PathInv, MatchInv, RecordedInv
  <2>3. edges[i].of = h /\ edges[i].age = since[h]
    BY <2>2
  <2> QED BY <1>3, <1>8, <2>3
<1>11. HandoffFindsItsEdge'
  BY <1>1 DEF PathInv, MatchInv, HandoffFindsItsEdge, history
<1> QED BY <1>6, <1>7, <1>9, <1>10, <1>11 DEF MatchInv

-----------------------------------------------------------------------------
(* Sequences of the queues. *)

LEMMA TailParts ==
  ASSUME NEW S, NEW s \in Seq(S), s # <<>>
  PROVE  /\ Tail(s) \in Seq(S) /\ Len(Tail(s)) = Len(s) - 1
         /\ Head(s) \in S /\ Head(s) \in ToSet(s) /\ ToSet(Tail(s)) \subseteq ToSet(s)
         /\ IsInjective(s) => IsInjective(Tail(s))
<1>1. /\ Tail(s) \in Seq(S) /\ Len(Tail(s)) = Len(s) - 1 /\ Head(s) \in S
      /\ \A i \in 1 .. Len(Tail(s)) : Tail(s)[i] = s[i + 1]
  BY HeadTailProperties
<1>2. /\ Len(s) \in Nat /\ Len(s) # 0 /\ DOMAIN s = 1 .. Len(s)
      /\ DOMAIN Tail(s) = 1 .. Len(Tail(s))
  BY <1>1, LenProperties, EmptySeq
<1>3. Head(s) = s[1]
  OBVIOUS
<1>4. \A i \in DOMAIN Tail(s) : i + 1 \in DOMAIN s /\ Tail(s)[i] = s[i + 1] /\ i \in Nat
  BY <1>1, <1>2
<1>5. Head(s) \in ToSet(s)
  BY <1>2, <1>3 DEF ToSet
<1>6. ToSet(Tail(s)) \subseteq ToSet(s)
  BY <1>4 DEF ToSet
<1>7. ASSUME IsInjective(s) PROVE IsInjective(Tail(s))
  BY <1>4, <1>7 DEF IsInjective
<1> QED BY <1>1, <1>5, <1>6, <1>7

\* An item submitted twice is queued once.
LEMMA SubmitInjective ==
  ASSUME work \in Queues, NEW b \in Boards, NEW item \in Items, \A c \in Boards : IsInjective(work[c])
  PROVE  /\ Submit(b, item) \in Queues /\ \A c \in Boards : IsInjective(Submit(b, item)[c])
         /\ \A c \in Boards : \A x \in ToSet(Submit(b, item)[c]) :
              x \in ToSet(work[c]) \/ (c = b /\ x = item)
<1> DEFINE s == work[b]
           t == Append(s, item)
<1>1. s \in Seq(Items)
  BY DEF Queues
<1>2. t \in Seq(Items) /\ Len(t) = Len(s) + 1 /\ t[Len(s) + 1] = item
      /\ \A i \in 1 .. Len(s) : t[i] = s[i]
  BY <1>1, AppendProperties
<1>3. DOMAIN s = 1 .. Len(s) /\ DOMAIN t = 1 .. Len(t) /\ Len(s) \in Nat
  BY <1>1, <1>2, LenProperties
<1>4. \A i \in DOMAIN t : \/ i \in DOMAIN s /\ t[i] = s[i]
                          \/ i = Len(s) + 1 /\ t[i] = item
  <2> HIDE DEF s, t
  <2> QED BY <1>2, <1>3
<1>5. CASE item \in ToSet(work[b])
  BY <1>5 DEF Submit
<1>6. CASE item \notin ToSet(work[b])
  <2>1. Submit(b, item) = [work EXCEPT ![b] = t]
    BY <1>6 DEF Submit
  <2>2. IsInjective(t)
    <3>1. \A i \in DOMAIN s : s[i] # item
      BY <1>6 DEF ToSet
    <3>2. IsInjective(s)
      OBVIOUS
    <3> HIDE DEF s, t
    <3> QED BY <1>4, <3>1, <3>2 DEF IsInjective
  <2>3. \A x \in ToSet(t) : x \in ToSet(s) \/ x = item
    <3> HIDE DEF s, t
    <3> QED BY <1>4 DEF ToSet
  <2> QED BY <1>2, <2>1, <2>2, <2>3 DEF Queues
<1> QED BY <1>5, <1>6

-----------------------------------------------------------------------------
(* Steps of the boards. *)

Moves(b, next, m) ==
  \/ thread' = [thread EXCEPT ![b] = [at |-> next, msg |-> m]]
  \/ thread' = [thread EXCEPT ![b].at = next] /\ m = thread[b].msg

\* What a step of a thread does to the threads, and to the handoffs that are held.
LEMMA Moved ==
  ASSUME PathInv, NEW b \in Boards, NEW next \in Places, NEW m \in Messages, Moves(b, next, m)
  PROVE  /\ thread' \in [Boards -> [at : Places, msg : Messages]]
         /\ thread'[b].at = next /\ thread'[b].msg = m
         /\ \A c \in Boards \ {b} : thread'[c] = thread[c]
<1>1. thread \in [Boards -> [at : Places, msg : Messages]]
  BY DEF PathInv, BoardTypes
<1>2. [at |-> next, msg |-> m] \in [at : Places, msg : Messages]
  OBVIOUS
<1>3. CASE thread' = [thread EXCEPT ![b] = [at |-> next, msg |-> m]]
  BY <1>1, <1>2, <1>3
<1>4. CASE thread' = [thread EXCEPT ![b].at = next] /\ m = thread[b].msg
  <2>1. thread[b] \in [at : Places, msg : Messages]
    BY <1>1
  <2>2. /\ [thread[b] EXCEPT !.at = next] \in [at : Places, msg : Messages]
        /\ [thread[b] EXCEPT !.at = next].at = next
        /\ [thread[b] EXCEPT !.at = next].msg = thread[b].msg
    BY <2>1
  <2>3. thread' = [thread EXCEPT ![b] = [thread[b] EXCEPT !.at = next]]
    BY <1>4
  <2> QED BY <1>1, <1>4, <2>2, <2>3
<1> QED BY <1>3, <1>4 DEF Moves

\* A step of a thread that leaves edges and times alone.
LEMMA ThreadStep ==
  ASSUME PathInv, UNCHANGED sync, NEW b \in Boards, NEW next \in Places, NEW m \in Messages,
         Moves(b, next, m), Current(m, origin, since),
         txq' \in [Boards -> Seq(Hits)], \A c \in Boards : Len(txq'[c]) <= Depth,
         \A c \in Boards : ToSet(txq'[c]) \subseteq ToSet(txq[c]),
         work' \in Queues, \A c \in Boards : IsInjective(work'[c]),
         LinkTypes', HandoffFindsItsEdge',
         \A c \in Boards : Current(rx'[c], origin, since),
         \A c \in Boards : ReadDue(c)' => Current(buf'[c], origin, since),
         next = "pulse" => buf'[b] = m,
         \A c \in Boards \ {b} : buf'[c] = buf[c]
  PROVE  PathInv'
<1>1. /\ thread' \in [Boards -> [at : Places, msg : Messages]]
      /\ thread'[b].at = next /\ thread'[b].msg = m
      /\ \A c \in Boards \ {b} : thread'[c] = thread[c]
  BY Moved
<1>2. origin' = origin /\ since' = since /\ edges' = edges
  BY DEF sync
<1>3. SyncTypes' /\ SpacedInv' /\ RecordedInv'
  BY <1>2 DEF PathInv, MatchInv, SyncTypes, SpacedInv, RecordedInv
<1>4. BoardTypes'
  BY <1>1 DEF BoardTypes
<1>5. HeldInv'
  <2> SUFFICES ASSUME NEW c \in Boards
               PROVE  /\ Current(thread'[c].msg, origin, since)
                      /\ thread'[c].at = "pulse" => buf'[c] = thread'[c].msg
    BY <1>2 DEF HeldInv
  <2>1. CASE c = b
    BY <1>1, <2>1
  <2>2. CASE c # b
    <3>1. Current(thread[c].msg, origin, since) /\ (thread[c].at = "pulse" => buf[c] = thread[c].msg)
      BY DEF PathInv, MatchInv, HeldInv
    <3> QED BY <1>1, <2>2, <3>1
  <2> QED BY <2>1, <2>2
<1>6. QueuedInv'
  BY <1>2 DEF PathInv, MatchInv, QueuedInv
<1> QED BY <1>3, <1>4, <1>5, <1>6 DEF PathInv, MatchInv

\* A handoff that is current is matched with its own edge when it is taken.
LEMMA TakeMatches ==
  ASSUME PathInv, NEW b \in Boards, NEW m \in Messages, Current(m, origin, since), Take(b, m)
  PROVE  taken' \subseteq Boards \X Hits \X (0 .. Unmatched) /\ HandoffFindsItsEdge'
<1>1. taken \subseteq Boards \X Hits \X (0 .. Unmatched) /\ HandoffFindsItsEdge
  BY DEF PathInv, LinkTypes, MatchInv
<1>2. CASE m.kind = "handoff"
  <2>1. m.hit \in Hits /\ m.age \in Nat
    BY <1>2, MessageFields, AgeBounds
  <2>2. /\ m.hit \in 1 .. Len(origin) /\ m.age <= since[m.hit]
        /\ since[m.hit] <= MaxAge /\ since[m.hit] - m.age <= MaxDelay
    BY <1>2 DEF Current
  <2>3. since[m.hit] \in Nat /\ SyncTypes /\ SpacedInv /\ RecordedInv
    BY <2>1, AgeBounds DEF PathInv, MatchInv, SyncTypes
  <2>4. Match(m.age) = m.hit
    BY <2>1, <2>2, <2>3, MatchFinds
  <2>5. Match(m.age) \in 0 .. Unmatched
    BY <2>1, <2>3, MatchType
  <2>6. taken' = taken \cup {<<b, m.hit, Match(m.age)>>}
    BY <1>2 DEF Take
  <2>7. taken' \subseteq Boards \X Hits \X (0 .. Unmatched)
    BY <1>1, <2>1, <2>5, <2>6
  <2>8. \A t \in taken' : t[3] = t[2]
    BY <1>1, <2>4, <2>6 DEF HandoffFindsItsEdge
  <2> QED BY <2>7, <2>8 DEF HandoffFindsItsEdge
<1>3. CASE m.kind # "handoff"
  <2>1. taken' = taken
    BY <1>3 DEF Take
  <2> QED BY <1>1, <2>1 DEF HandoffFindsItsEdge
<1> QED BY <1>2, <1>3

LEMMA NotHandoff ==
  Current(None, origin, since) /\ Current(Test, origin, since)
BY MessageFields DEF Current

LEMMA InitPath == Init => PathInv
<1> SUFFICES ASSUME Init PROVE PathInv
  OBVIOUS
<1>1. <<>> \in Seq(Boards) /\ <<>> \in Seq(EdgeRecord) /\ <<>> \in Seq(Hits) /\ <<>> \in Seq(Items)
      /\ Len(<<>>) = 0 /\ DOMAIN <<>> = {} /\ ToSet(<<>>) = {} /\ IsInjective(<<>>)
  BY EmptySeq DEF ToSet, IsInjective
<1>2. SyncTypes
  BY <1>1, AgeBounds, BoundAssumption DEF Init, SyncTypes
<1>3. BoardTypes
  BY <1>1, BoundAssumption, MessageFields DEF Init, BoardTypes, Queues, Places
<1>4. LinkTypes
  BY BoundAssumption, MessageFields DEF Init, LinkTypes
<1>5. HeldInv
  <2> SUFFICES ASSUME NEW b \in Boards
               PROVE  /\ Current(thread[b].msg, origin, since) /\ Current(rx[b], origin, since)
                      /\ Current(buf[b], origin, since)
                      /\ thread[b].at # "pulse"
    BY DEF HeldInv
  <2> QED BY NotHandoff DEF Init
<1>6. QueuedInv /\ SpacedInv /\ HandoffFindsItsEdge
  BY <1>1 DEF Init, QueuedInv, SpacedInv, HandoffFindsItsEdge
<1>7. RecordedInv
  BY <1>1 DEF Init, RecordedInv
<1> QED BY <1>2, <1>3, <1>4, <1>5, <1>6, <1>7 DEF PathInv, MatchInv

LEMMA HitPath ==
  ASSUME PathInv, NEW b \in Boards, Hit(b)
  PROVE  PathInv'
<1> DEFINE h == Len(origin) + 1
           q == Append(txq[b], h)
<1>1. /\ Quiet /\ Len(origin) < MaxHits /\ Len(txq[b]) < Depth
      /\ origin' = Append(origin, b) /\ since' = [since EXCEPT ![h] = 0]
      /\ edges' = Captured(h) /\ txq' = [txq EXCEPT ![b] = q]
      /\ work' = Submit(b, "tx")
      /\ UNCHANGED <<thread, buf, rx, done, tests, taken, unread, replaced>>
  BY DEF Hit, links, history
<1>2. /\ origin \in Seq(Boards) /\ Len(origin) \in Nat /\ MaxHits \in Nat
      /\ since \in [Hits -> Ages] /\ SyncTypes
  BY LenProperties, BoundAssumption DEF PathInv, SyncTypes
<1>3. h \in Hits /\ h \in 0 .. MaxHits /\ h \notin 1 .. Len(origin)
  BY <1>1, <1>2 DEF Hits
<1>4. origin' \in Seq(Boards) /\ Len(origin') = h
  BY <1>1, <1>2, AppendProperties
<1>5. since' \in [Hits -> Ages] /\ since'[h] = 0
      /\ \A g \in 1 .. Len(origin) : since'[g] = since[g]
  BY <1>1, <1>2, <1>3, AgeBounds DEF Hits
<1>6. edges' \in Seq(EdgeRecord) /\ Len(edges') <= Recent
  <2> HIDE DEF h
  <2> QED BY <1>1, <1>2, <1>3, CaptureKeeps DEF PathInv, MatchInv
<1>7. SyncTypes'
  BY <1>1, <1>3, <1>4, <1>5, <1>6, <1>2 DEF SyncTypes
<1>8. txq \in [Boards -> Seq(Hits)] /\ \A c \in Boards : Len(txq[c]) <= Depth
  BY DEF PathInv, BoardTypes
<1>9. /\ q \in Seq(Hits) /\ Len(q) = Len(txq[b]) + 1 /\ q[Len(txq[b]) + 1] = h
      /\ \A i \in 1 .. Len(txq[b]) : q[i] = txq[b][i]
  <2>1. txq[b] \in Seq(Hits)
    BY <1>8
  <2> HIDE DEF h
  <2> QED BY <1>3, <2>1, AppendProperties
<1>10. Len(q) <= Depth /\ \A g \in ToSet(q) : g \in ToSet(txq[b]) \/ g = h
  <2>1. DOMAIN q = 1 .. Len(q) /\ DOMAIN txq[b] = 1 .. Len(txq[b]) /\ Len(txq[b]) \in Nat
    BY <1>8, <1>9, LenProperties
  <2>2. \A i \in DOMAIN q : (i \in DOMAIN txq[b] /\ q[i] = txq[b][i]) \/ q[i] = h
    <3> HIDE DEF q, h
    <3> QED BY <1>9, <2>1
  <2>3. Len(q) <= Depth
    <3> HIDE DEF q, h
    <3> QED BY <1>1, <1>9, <2>1, BoundAssumption
  <2> HIDE DEF q, h
  <2> QED BY <2>2, <2>3 DEF ToSet
<1>11. /\ txq' \in [Boards -> Seq(Hits)] /\ \A c \in Boards : Len(txq'[c]) <= Depth
       /\ \A c \in Boards : \A g \in ToSet(txq'[c]) : g \in ToSet(txq[c]) \/ g = h
  <2> HIDE DEF q, h
  <2> QED BY <1>1, <1>8, <1>9, <1>10
<1>12. /\ work' \in Queues /\ \A c \in Boards : IsInjective(work'[c])
       /\ \A c \in Boards : \A x \in ToSet(work'[c]) : x \in ToSet(work[c]) \/ x = "tx"
  <2>1. work \in Queues /\ "tx" \in Items /\ \A c \in Boards : IsInjective(work[c])
    BY DEF PathInv, BoardTypes, Items
  <2> QED BY <1>1, <2>1, SubmitInjective
<1>13. BoardTypes'
  BY <1>1, <1>11, <1>12 DEF PathInv, BoardTypes
<1>14. LinkTypes'
  BY <1>1 DEF PathInv, LinkTypes
<1>15. \A c \in Boards : ReadDue(c)' => ReadDue(c)
  BY <1>1, <1>12, MasterOfSlave DEF ReadDue
<1>16. MatchInv'
  <2>1. h \in 1 .. Len(origin')
    BY <1>2, <1>4
  <2> HIDE DEF h
  <2>2. UNCHANGED <<thread, rx, buf, taken>> /\ Len(origin') = Len(origin) + 1
    BY <1>1, <1>4 DEF h
  <2> QED BY <1>1, <1>3, <1>4, <1>5, <1>7, <1>11, <1>15, <2>1, <2>2, CaptureMatch
<1> QED BY <1>7, <1>13, <1>14, <1>16 DEF PathInv

\* A step that captures an edge that is no hit's.
LEMMA EdgePath ==
  ASSUME PathInv, Quiet, edges' = Captured(0),
         UNCHANGED <<origin, since, txq, work, thread, links, tests, history>>
  PROVE  PathInv'
<1>1. UNCHANGED <<origin, since, txq, work, thread, buf, rx, done, tests, taken, unread, replaced>>
  BY DEF links, history
<1>2. 0 \in 0 .. MaxHits
  BY BoundAssumption
<1>3. edges' \in Seq(EdgeRecord) /\ Len(edges') <= Recent
  BY <1>2, CaptureKeeps DEF PathInv, MatchInv
<1>4. SyncTypes'
  BY <1>1, <1>3 DEF PathInv, SyncTypes
<1>5. BoardTypes' /\ LinkTypes'
  BY <1>1 DEF PathInv, BoardTypes, LinkTypes
<1>6. MatchInv'
  <2>1. \A c \in Boards : ReadDue(c)' => ReadDue(c)
    BY <1>1 DEF ReadDue
  <2>2. UNCHANGED <<thread, rx, buf, taken>>
    BY <1>1
  <2> QED BY <1>1, <1>2, <1>4, <2>1, <2>2, CaptureMatch
<1> QED BY <1>4, <1>5, <1>6 DEF PathInv

LEMMA TickPath ==
  ASSUME PathInv, Tick
  PROVE  PathInv'
<1>1. UNCHANGED <<txq, work, thread, buf, rx, done, tests, taken, unread, replaced>>
  BY DEF Tick, links, history
<1>2. BoardTypes' /\ LinkTypes'
  BY <1>1 DEF PathInv, BoardTypes, LinkTypes
<1> QED BY <1>2, TickTypes, TickMatch DEF PathInv

\* A step that leaves edges, times and threads alone.
LEMMA QuietStep ==
  ASSUME PathInv, UNCHANGED <<sync, txq, thread, buf>>,
         work' \in Queues, \A c \in Boards : IsInjective(work'[c]),
         \A c \in Boards : ReadDue(c)' => ReadDue(c),
         LinkTypes', HandoffFindsItsEdge', \A c \in Boards : Current(rx'[c], origin, since)
  PROVE  PathInv'
<1>1. UNCHANGED <<origin, since, edges, txq, thread, buf>>
  BY DEF sync
<1>2. SyncTypes' /\ BoardTypes' /\ SpacedInv' /\ RecordedInv' /\ QueuedInv'
  BY <1>1 DEF PathInv, MatchInv, SyncTypes, BoardTypes, SpacedInv, RecordedInv, QueuedInv
<1>3. HeldInv'
  BY <1>1 DEF PathInv, MatchInv, HeldInv
<1> QED BY <1>2, <1>3 DEF PathInv, MatchInv

LEMMA LinkTestPath ==
  ASSUME PathInv, NEW b \in Boards, LinkTest(b)
  PROVE  PathInv'
<1>1. /\ tests < MaxTests /\ tests' = tests + 1 /\ work' = Submit(b, "test")
      /\ UNCHANGED <<sync, txq, thread, buf, rx, done, taken, unread, replaced>>
  BY DEF LinkTest, links, history
<1>2. work \in Queues /\ "test" \in Items /\ \A c \in Boards : IsInjective(work[c])
  BY DEF PathInv, BoardTypes, Items
<1>3. /\ work' \in Queues /\ \A c \in Boards : IsInjective(work'[c])
      /\ \A c \in Boards : \A x \in ToSet(work'[c]) : x \in ToSet(work[c]) \/ x = "test"
  BY <1>1, <1>2, SubmitInjective
<1>4. \A c \in Boards : ReadDue(c)' => ReadDue(c)
  BY <1>1, <1>3, MasterOfSlave DEF ReadDue
<1>5. LinkTypes' /\ HandoffFindsItsEdge'
  BY <1>1, BoundAssumption DEF PathInv, LinkTypes, MatchInv, HandoffFindsItsEdge
<1>6. \A c \in Boards : Current(rx'[c], origin, since)
  BY <1>1 DEF PathInv, MatchInv, HeldInv
<1>7. UNCHANGED <<sync, txq, thread, buf>>
  BY <1>1
<1> QED BY <1>3, <1>4, <1>5, <1>6, <1>7, QuietStep

LEMMA HandlerPath ==
  ASSUME PathInv, NEW b \in Boards, SpisHandler(b)
  PROVE  PathInv'
<1>1. /\ Take(b, rx[b]) /\ rx' = [rx EXCEPT ![b] = None] /\ done' = [done EXCEPT ![b] = FALSE]
      /\ UNCHANGED <<sync, txq, work, thread, buf, tests, unread, replaced>>
  BY DEF SpisHandler
<1>2. /\ rx \in [Boards -> Messages] /\ done \in [Boards -> BOOLEAN]
      /\ \A c \in Boards : Current(rx[c], origin, since)
  BY DEF PathInv, LinkTypes, MatchInv, HeldInv
<1>3. taken' \subseteq Boards \X Hits \X (0 .. Unmatched) /\ HandoffFindsItsEdge'
  BY <1>1, <1>2, TakeMatches
<1>4. \A c \in Boards : rx'[c] \in Messages /\ Current(rx'[c], origin, since)
  BY <1>1, <1>2, NotHandoff, MessageFields
<1>5. LinkTypes'
  BY <1>1, <1>2, <1>3, MessageFields DEF PathInv, LinkTypes
<1>6. /\ work' \in Queues /\ \A c \in Boards : IsInjective(work'[c])
      /\ \A c \in Boards : ReadDue(c)' => ReadDue(c)
  BY <1>1 DEF PathInv, BoardTypes, ReadDue
<1>7. UNCHANGED <<sync, txq, thread, buf>>
  BY <1>1
<1> QED BY <1>3, <1>4, <1>5, <1>6, <1>7, QuietStep

\* What a state satisfying the invariant says of its parts.
LEMMA Parts ==
  ASSUME PathInv
  PROVE  /\ txq \in [Boards -> Seq(Hits)] /\ \A c \in Boards : Len(txq[c]) <= Depth
         /\ work \in Queues /\ \A c \in Boards : IsInjective(work[c])
         /\ thread \in [Boards -> [at : Places, msg : Messages]]
         /\ buf \in [Boards -> Messages] /\ rx \in [Boards -> Messages]
         /\ LinkTypes /\ HandoffFindsItsEdge
         /\ \A c \in Boards : /\ thread[c].msg \in Messages /\ Current(thread[c].msg, origin, since)
                              /\ Current(rx[c], origin, since)
                              /\ ReadDue(c) => Current(buf[c], origin, since)
                              /\ thread[c].at = "pulse" => buf[c] = thread[c].msg
BY DEF PathInv, BoardTypes, LinkTypes, MatchInv, HeldInv

LEMMA DequeuePath ==
  ASSUME PathInv, NEW b \in Boards, Dequeue(b)
  PROVE  PathInv'
<1> DEFINE next == Head(work[b])
           m == thread[b].msg
<1>1. /\ thread[b].at = "idle" /\ thread' = [thread EXCEPT ![b].at = next]
      /\ work[b] # <<>> /\ work' = [work EXCEPT ![b] = Tail(@)]
      /\ UNCHANGED <<sync, txq, buf, rx, done, tests, taken, unread, replaced>>
  BY DEF Dequeue, Goto, links, history
<1>2. work[b] \in Seq(Items) /\ work \in Queues /\ \A c \in Boards : IsInjective(work[c])
  BY Parts DEF Queues
<1>3. /\ Tail(work[b]) \in Seq(Items) /\ next \in Items /\ next \in ToSet(work[b])
      /\ ToSet(Tail(work[b])) \subseteq ToSet(work[b]) /\ IsInjective(Tail(work[b]))
  BY <1>1, <1>2, TailParts
<1>4. /\ work' \in Queues /\ \A c \in Boards : IsInjective(work'[c])
      /\ \A c \in Boards : ToSet(work'[c]) \subseteq ToSet(work[c])
  BY <1>1, <1>2, <1>3 DEF Queues
<1>5. next \in Places /\ next # "pulse" /\ m \in Messages /\ Current(m, origin, since)
  BY <1>3, Parts DEF Items, Places
<1>6. Moves(b, next, m)
  BY <1>1 DEF Moves
<1>7. thread'[b].at = next /\ \A c \in Boards \ {b} : thread'[c] = thread[c]
  BY <1>5, <1>6, Moved
<1>8. \A c \in Boards : ReadDue(c)' => ReadDue(c)
  BY <1>3, <1>4, <1>7, MasterOfSlave DEF ReadDue
<1>9. \A c \in Boards : Current(rx'[c], origin, since)
                        /\ (ReadDue(c)' => Current(buf'[c], origin, since))
  BY <1>1, <1>8, Parts
<1>10. LinkTypes' /\ HandoffFindsItsEdge'
  BY <1>1, Parts DEF LinkTypes, HandoffFindsItsEdge
<1>11. /\ txq' \in [Boards -> Seq(Hits)] /\ \A c \in Boards : Len(txq'[c]) <= Depth
       /\ \A c \in Boards : ToSet(txq'[c]) \subseteq ToSet(txq[c])
       /\ \A c \in Boards \ {b} : buf'[c] = buf[c]
  BY <1>1, Parts
<1>12. UNCHANGED sync
  BY <1>1
<1> HIDE DEF next, m
<1> QED BY <1>4, <1>5, <1>6, <1>9, <1>10, <1>11, <1>12, ThreadStep

\* A step of a thread that only moves on, perhaps with another message.
LEMMA MoveOn ==
  ASSUME PathInv, NEW b \in Boards, NEW next \in Places, NEW m \in Messages, Moves(b, next, m),
         next \notin {"pulse", "read"}, Current(m, origin, since),
         UNCHANGED <<sync, work, buf>>,
         txq' \in [Boards -> Seq(Hits)], \A c \in Boards : Len(txq'[c]) <= Depth,
         \A c \in Boards : ToSet(txq'[c]) \subseteq ToSet(txq[c]),
         LinkTypes', HandoffFindsItsEdge', \A c \in Boards : Current(rx'[c], origin, since)
  PROVE  PathInv'
<1>1. thread'[b].at = next /\ \A c \in Boards \ {b} : thread'[c] = thread[c]
  BY Moved
<1>2. work' \in Queues /\ \A c \in Boards : IsInjective(work'[c])
  BY Parts
<1>3. \A c \in Boards : ReadDue(c)' => ReadDue(c)
  BY <1>1, MasterOfSlave DEF ReadDue
<1>4. /\ \A c \in Boards : ReadDue(c)' => Current(buf'[c], origin, since)
      /\ \A c \in Boards \ {b} : buf'[c] = buf[c]
  BY <1>3, Parts
<1>5. UNCHANGED sync
  OBVIOUS
<1> QED BY <1>2, <1>4, <1>5, ThreadStep

LEMMA PopPath ==
  ASSUME PathInv, NEW b \in Boards, PopEmpty(b) \/ PopAndAge(b) \/ StartTest(b)
  PROVE  PathInv'
<1>1. UNCHANGED <<sync, work, buf, rx, done, tests, taken, unread, replaced>>
  BY DEF PopEmpty, PopAndAge, StartTest, links, history
<1>2. LinkTypes' /\ HandoffFindsItsEdge' /\ \A c \in Boards : Current(rx'[c], origin, since)
  BY <1>1, Parts DEF LinkTypes, HandoffFindsItsEdge
<1>3. UNCHANGED <<sync, work, buf>>
  BY <1>1
<1>4. CASE PopEmpty(b)
  <2>1. thread' = [thread EXCEPT ![b].at = "idle"] /\ txq' = txq
    BY <1>4 DEF PopEmpty, Goto
  <2>2. Moves(b, "idle", thread[b].msg) /\ "idle" \in Places
    BY <2>1 DEF Moves, Places
  <2>3. /\ txq' \in [Boards -> Seq(Hits)] /\ \A c \in Boards : Len(txq'[c]) <= Depth
        /\ \A c \in Boards : ToSet(txq'[c]) \subseteq ToSet(txq[c])
    BY <2>1, Parts
  <2> QED BY <1>2, <1>3, <2>2, <2>3, Parts, MoveOn
<1>5. CASE PopAndAge(b)
  <2> DEFINE h == Head(txq[b])
             m == Handoff(h, since[h])
  <2>1. /\ thread' = [thread EXCEPT ![b] = [at |-> "offer", msg |-> m]]
        /\ txq[b] # <<>> /\ txq' = [txq EXCEPT ![b] = Tail(@)]
    BY <1>5 DEF PopAndAge, GotoWith
  <2>2. txq[b] \in Seq(Hits) /\ Len(txq[b]) \in Nat /\ Len(txq[b]) <= Depth /\ Depth \in Nat
    BY Parts, LenProperties, BoundAssumption
  <2>3. /\ Tail(txq[b]) \in Seq(Hits) /\ Len(Tail(txq[b])) = Len(txq[b]) - 1
        /\ h \in Hits /\ h \in ToSet(txq[b]) /\ ToSet(Tail(txq[b])) \subseteq ToSet(txq[b])
    BY <2>1, <2>2, TailParts
  <2>4. /\ txq' \in [Boards -> Seq(Hits)] /\ \A c \in Boards : Len(txq'[c]) <= Depth
        /\ \A c \in Boards : ToSet(txq'[c]) \subseteq ToSet(txq[c])
    BY <2>1, <2>2, <2>3, Parts
  <2>5. h \in 1 .. Len(origin) /\ since[h] <= MaxAge
    BY <2>3 DEF PathInv, MatchInv, QueuedInv
  <2>6. since[h] \in Ages /\ since[h] \in Nat /\ MaxDelay \in Nat
    BY <2>3, AgeBounds, BoundAssumption DEF PathInv, SyncTypes
  <2> HIDE DEF h
  <2>7. m \in Messages /\ m.hit = h /\ m.age = since[h]
    BY <2>3, <2>6, MessageFields
  <2> HIDE DEF m
  <2>8. Current(m, origin, since)
    BY <2>5, <2>6, <2>7 DEF Current
  <2>9. Moves(b, "offer", m) /\ "offer" \in Places
    BY <2>1 DEF Moves, Places
  <2> QED BY <1>2, <1>3, <2>4, <2>7, <2>8, <2>9, MoveOn
<1>6. CASE StartTest(b)
  <2>1. thread' = [thread EXCEPT ![b] = [at |-> "offer", msg |-> Test]] /\ txq' = txq
    BY <1>6 DEF StartTest, GotoWith
  <2>2. Moves(b, "offer", Test) /\ "offer" \in Places
    BY <2>1 DEF Moves, Places
  <2>3. /\ txq' \in [Boards -> Seq(Hits)] /\ \A c \in Boards : Len(txq'[c]) <= Depth
        /\ \A c \in Boards : ToSet(txq'[c]) \subseteq ToSet(txq[c])
    BY <2>1, Parts
  <2> QED BY <1>2, <1>3, <2>2, <2>3, MessageFields, NotHandoff, MoveOn
<1> QED BY <1>4, <1>5, <1>6

LEMMA OfferPath ==
  ASSUME PathInv, NEW b \in Boards, Offer(b)
  PROVE  PathInv'
<1> DEFINE m == thread[b].msg
<1>1. /\ thread[b].at = "offer" /\ thread' = [thread EXCEPT ![b].at = "pulse"]
      /\ buf' = [buf EXCEPT ![b] = m] /\ unread' = [unread EXCEPT ![b] = TRUE]
      /\ replaced' = IF unread[b] THEN replaced \cup ({buf[b].hit} \cap Hits) ELSE replaced
      /\ UNCHANGED <<sync, txq, work, rx, done, tests, taken>>
  BY DEF Offer, Goto
<1>2. m \in Messages /\ Current(m, origin, since)
  BY Parts
<1>3. Moves(b, "pulse", m) /\ "pulse" \in Places
  BY <1>1 DEF Moves, Places
<1>4. thread'[b].at = "pulse" /\ \A c \in Boards \ {b} : thread'[c] = thread[c]
  BY <1>2, <1>3, Moved
<1>5. buf' \in [Boards -> Messages] /\ buf'[b] = m /\ \A c \in Boards \ {b} : buf'[c] = buf[c]
  BY <1>1, <1>2, Parts
<1>6. \A c \in Boards : ReadDue(c)' => ReadDue(c)
  BY <1>1, <1>4, MasterOfSlave DEF ReadDue
<1>7. \A c \in Boards : Current(rx'[c], origin, since)
                        /\ (ReadDue(c)' => Current(buf'[c], origin, since))
  <2> TAKE c \in Boards
  <2> HIDE DEF m
  <2>1. CASE c = b
    BY <1>1, <1>2, <1>5, <2>1, Parts
  <2>2. CASE c # b
    BY <1>1, <1>5, <1>6, <2>2, Parts
  <2> QED BY <2>1, <2>2
<1>8. LinkTypes' /\ HandoffFindsItsEdge'
  <2>1. unread' \in [Boards -> BOOLEAN] /\ replaced' \subseteq Hits
    BY <1>1, Parts DEF LinkTypes
  <2> QED BY <1>1, <1>5, <2>1, Parts DEF LinkTypes, HandoffFindsItsEdge
<1>9. /\ txq' \in [Boards -> Seq(Hits)] /\ \A c \in Boards : Len(txq'[c]) <= Depth
      /\ \A c \in Boards : ToSet(txq'[c]) \subseteq ToSet(txq[c])
      /\ work' \in Queues /\ \A c \in Boards : IsInjective(work'[c])
      /\ UNCHANGED sync
  BY <1>1, Parts
<1> HIDE DEF m
<1> QED BY <1>2, <1>3, <1>5, <1>7, <1>8, <1>9, ThreadStep

LEMMA PulsePath ==
  ASSUME PathInv, NEW b \in Boards, PulseReq(b)
  PROVE  PathInv'
<1> DEFINE m == thread[b].msg
<1>1. /\ thread[b].at = "pulse" /\ thread' = [thread EXCEPT ![b].at = "write"]
      /\ work' = Submit(Up[b], "read")
      /\ UNCHANGED <<sync, txq, buf, rx, done, tests, taken, unread, replaced>>
  BY DEF PulseReq, Goto, links, history
<1>2. m \in Messages /\ Current(m, origin, since) /\ buf[b] = m
  BY <1>1, Parts
<1>3. Moves(b, "write", m) /\ "write" \in Places
  BY <1>1 DEF Moves, Places
<1>4. thread'[b].at = "write" /\ \A c \in Boards \ {b} : thread'[c] = thread[c]
  BY <1>2, <1>3, Moved
<1>5. /\ work' \in Queues /\ \A c \in Boards : IsInjective(work'[c])
      /\ \A c \in Boards : \A x \in ToSet(work'[c]) : x \in ToSet(work[c]) \/ c = Up[b]
  <2>1. work \in Queues /\ "read" \in Items /\ \A c \in Boards : IsInjective(work[c])
    BY Parts DEF Items
  <2> QED BY <1>1, <2>1, MasterOfSlave, SubmitInjective
<1>6. \A c \in Boards : ReadDue(c)' => ReadDue(c) \/ c = b
  BY <1>4, <1>5, MasterOfSlave DEF ReadDue
<1>7. \A c \in Boards : Current(rx'[c], origin, since)
                        /\ (ReadDue(c)' => Current(buf'[c], origin, since))
  <2> HIDE DEF m
  <2> QED BY <1>1, <1>2, <1>6, Parts
<1>8. LinkTypes' /\ HandoffFindsItsEdge'
  BY <1>1, Parts DEF LinkTypes, HandoffFindsItsEdge
<1>9. /\ txq' \in [Boards -> Seq(Hits)] /\ \A c \in Boards : Len(txq'[c]) <= Depth
      /\ \A c \in Boards : ToSet(txq'[c]) \subseteq ToSet(txq[c])
      /\ \A c \in Boards \ {b} : buf'[c] = buf[c]
      /\ UNCHANGED sync
  BY <1>1, Parts
<1> HIDE DEF m
<1> QED BY <1>2, <1>3, <1>5, <1>7, <1>8, <1>9, ThreadStep

\* Down is a bijection: the board below b has b above it.
LEMMA SlaveOfMaster ==
  ASSUME NEW b \in Boards
  PROVE  Down[b] \in Boards /\ Up[Down[b]] = b
BY RingAssumption DEF Up

LEMMA WritePath ==
  ASSUME PathInv, NEW b \in Boards, Write(b)
  PROVE  PathInv'
<1> DEFINE m == thread[b].msg
           next == AfterWrite(m)
<1>1. /\ thread' = [thread EXCEPT ![b] = [at |-> next, msg |-> None]]
      /\ IF done[Down[b]] THEN UNCHANGED <<rx, done>>
         ELSE /\ rx' = [rx EXCEPT ![Down[b]] = m]
              /\ done' = [done EXCEPT ![Down[b]] = TRUE]
      /\ UNCHANGED <<sync, txq, work, buf, tests, taken, unread, replaced>>
  BY DEF Write, GotoWith, history
<1>2. m \in Messages /\ Current(m, origin, since)
  BY Parts
<1>3. next \in Places /\ next \notin {"pulse", "read"} /\ Moves(b, next, None)
  BY <1>1 DEF AfterWrite, Places, Moves
<1> HIDE DEF m, next
<1>4. /\ rx' \in [Boards -> Messages] /\ done' \in [Boards -> BOOLEAN]
      /\ \A c \in Boards : Current(rx'[c], origin, since)
  <2>1. Down[b] \in Boards /\ rx \in [Boards -> Messages] /\ done \in [Boards -> BOOLEAN]
    BY SlaveOfMaster, Parts DEF LinkTypes
  <2>2. CASE done[Down[b]]
    BY <1>1, <2>1, <2>2, Parts
  <2>3. CASE ~done[Down[b]]
    <3>1. rx' = [rx EXCEPT ![Down[b]] = m] /\ done' = [done EXCEPT ![Down[b]] = TRUE]
      BY <1>1, <2>3
    <3> QED BY <1>2, <2>1, <3>1, Parts
  <2> QED BY <2>2, <2>3
<1>5. LinkTypes' /\ HandoffFindsItsEdge'
  BY <1>1, <1>4, Parts DEF LinkTypes, HandoffFindsItsEdge
<1>6. /\ txq' \in [Boards -> Seq(Hits)] /\ \A c \in Boards : Len(txq'[c]) <= Depth
      /\ \A c \in Boards : ToSet(txq'[c]) \subseteq ToSet(txq[c])
      /\ UNCHANGED <<sync, work, buf>>
  BY <1>1, Parts
<1> QED BY <1>3, <1>4, <1>5, <1>6, MessageFields, NotHandoff, MoveOn

LEMMA ReadBeginPath ==
  ASSUME PathInv, NEW b \in Boards, ReadBegin(b)
  PROVE  PathInv'
<1> DEFINE m == buf[Down[b]]
<1>1. /\ thread[b].at = "read" /\ thread' = [thread EXCEPT ![b] = [at |-> "reading", msg |-> m]]
      /\ UNCHANGED <<sync, txq, work, buf, rx, done, tests, taken, unread, replaced>>
  BY DEF ReadBegin, GotoWith, links, history
<1>2. m \in Messages /\ Current(m, origin, since)
  <2>1. Down[b] \in Boards /\ Up[Down[b]] = b
    BY SlaveOfMaster
  <2>2. ReadDue(Down[b])
    BY <1>1, <2>1 DEF ReadDue
  <2> QED BY <2>1, <2>2, Parts
<1>3. "reading" \in Places /\ Moves(b, "reading", m)
  BY <1>1 DEF Places, Moves
<1>4. LinkTypes' /\ HandoffFindsItsEdge' /\ \A c \in Boards : Current(rx'[c], origin, since)
  BY <1>1, Parts DEF LinkTypes, HandoffFindsItsEdge
<1>5. /\ txq' \in [Boards -> Seq(Hits)] /\ \A c \in Boards : Len(txq'[c]) <= Depth
      /\ \A c \in Boards : ToSet(txq'[c]) \subseteq ToSet(txq[c])
      /\ UNCHANGED <<sync, work, buf>>
  BY <1>1, Parts
<1> HIDE DEF m
<1> QED BY <1>2, <1>3, <1>4, <1>5, MoveOn

LEMMA ReadEndPath ==
  ASSUME PathInv, NEW b \in Boards, ReadEnd(b)
  PROVE  PathInv'
<1> DEFINE whole == buf[Down[b]] = thread[b].msg
           m == IF whole THEN thread[b].msg ELSE None
<1>1. /\ thread' = [thread EXCEPT ![b] = [at |-> "idle", msg |-> None]]
      /\ Take(b, m) /\ unread' = [unread EXCEPT ![Down[b]] = @ /\ ~whole]
      /\ done' = [done EXCEPT ![Down[b]] = TRUE]
      /\ UNCHANGED <<sync, txq, work, buf, rx, tests, replaced>>
  BY DEF ReadEnd, GotoWith
<1>2. m \in Messages /\ Current(m, origin, since)
  BY Parts, MessageFields, NotHandoff
<1>3. "idle" \in Places /\ Moves(b, "idle", None)
  BY <1>1 DEF Places, Moves
<1>4. unread' \in [Boards -> BOOLEAN] /\ done' \in [Boards -> BOOLEAN]
  <2>1. unread \in [Boards -> BOOLEAN] /\ done \in [Boards -> BOOLEAN]
    BY Parts DEF LinkTypes
  <2>2. (unread[Down[b]] /\ ~whole) \in BOOLEAN
    OBVIOUS
  <2> HIDE DEF whole
  <2> QED BY <1>1, <2>1, <2>2
<1> HIDE DEF m
<1>5. taken' \subseteq Boards \X Hits \X (0 .. Unmatched) /\ HandoffFindsItsEdge'
  BY <1>1, <1>2, TakeMatches
<1>6. LinkTypes' /\ \A c \in Boards : Current(rx'[c], origin, since)
  BY <1>1, <1>4, <1>5, Parts DEF LinkTypes
<1>7. /\ txq' \in [Boards -> Seq(Hits)] /\ \A c \in Boards : Len(txq'[c]) <= Depth
      /\ \A c \in Boards : ToSet(txq'[c]) \subseteq ToSet(txq[c])
      /\ UNCHANGED <<sync, work, buf>>
  BY <1>1, Parts
<1> QED BY <1>3, <1>5, <1>6, <1>7, MessageFields, NotHandoff, MoveOn

LEMMA ReadMissedPath ==
  ASSUME PathInv, NEW b \in Boards, ReadMissed(b)
  PROVE  PathInv'
<1>1. /\ thread' = [thread EXCEPT ![b].at = "idle"]
      /\ UNCHANGED <<sync, txq, work, buf, rx, done, tests, taken, unread, replaced>>
  BY DEF ReadMissed, Goto, links, history
<1>2. "idle" \in Places /\ Moves(b, "idle", thread[b].msg)
  BY <1>1 DEF Places, Moves
<1>3. LinkTypes' /\ HandoffFindsItsEdge' /\ \A c \in Boards : Current(rx'[c], origin, since)
  BY <1>1, Parts DEF LinkTypes, HandoffFindsItsEdge
<1>4. /\ txq' \in [Boards -> Seq(Hits)] /\ \A c \in Boards : Len(txq'[c]) <= Depth
      /\ \A c \in Boards : ToSet(txq'[c]) \subseteq ToSet(txq[c])
      /\ UNCHANGED <<sync, work, buf>>
  BY <1>1, Parts
<1> QED BY <1>2, <1>3, <1>4, Parts, MoveOn

LEMMA NextPath == PathInv /\ [Next]_vars => PathInv'
<1> SUFFICES ASSUME PathInv, [Next]_vars PROVE PathInv'
  OBVIOUS
<1>1. CASE UNCHANGED vars
  <2>1. /\ UNCHANGED <<sync, txq, thread, buf>>
        /\ UNCHANGED <<work, rx, done, tests, taken, unread, replaced>>
    BY <1>1 DEF vars, links, history
  <2>2. /\ work' \in Queues /\ \A c \in Boards : IsInjective(work'[c])
        /\ \A c \in Boards : ReadDue(c)' => ReadDue(c)
        /\ \A c \in Boards : Current(rx'[c], origin, since)
    BY <2>1, Parts DEF ReadDue
  <2>3. LinkTypes' /\ HandoffFindsItsEdge'
    BY <2>1, Parts DEF LinkTypes, HandoffFindsItsEdge
  <2> QED BY <2>1, <2>2, <2>3, QuietStep
<1>2. CASE Heartbeat
  BY <1>2, EdgePath DEF Heartbeat
<1>3. CASE Tick
  BY <1>3, TickPath
<1>4. ASSUME NEW b \in Boards, Thread(b) PROVE PathInv'
  BY <1>4, DequeuePath, PopPath, OfferPath, PulsePath, WritePath, ReadBeginPath, ReadEndPath,
     ReadMissedPath DEF Thread
<1>5. ASSUME NEW b \in Boards, HitDropped(b) PROVE PathInv'
  BY <1>5, EdgePath DEF HitDropped
<1> QED BY <1>1, <1>2, <1>3, <1>4, <1>5, HitPath, LinkTestPath, HandlerPath DEF Next

LEMMA PathTypes == PathInv => TypeOK
<1> SUFFICES ASSUME PathInv PROVE TypeOK
  OBVIOUS
<1>1. /\ origin \in Seq(Boards) /\ Len(origin) <= MaxHits /\ since \in [Hits -> Ages]
      /\ Len(edges) <= Recent
      /\ \A i \in DOMAIN edges : edges[i] \in [of : 0 .. MaxHits, age : Ages]
  BY EdgeFields DEF PathInv, SyncTypes, EdgeRecord
<1>2. \A b \in Boards :
        /\ txq[b] \in Seq(Hits) /\ Len(txq[b]) <= Depth
        /\ work[b] \in Seq({"tx", "read", "test"}) /\ IsInjective(work[b])
  BY Parts DEF Queues, Items
<1>3. thread \in [Boards -> [at : {"idle", "tx", "test", "offer", "pulse", "write", "read",
                                   "reading"}, msg : Messages]]
  BY Parts DEF Places
<1> QED BY <1>1, <1>2, <1>3 DEF PathInv, LinkTypes, TypeOK

(* Every variable has its type, whatever the ring and the bounds: the    *)
(* transmit queues never exceed their depth, no work item is queued      *)
(* twice, and at most Recent edges are kept.                             *)
THEOREM TypeCorrect == Spec => []TypeOK
<1> QED BY InitPath, NextPath, PathTypes, PTL DEF Spec

(* A handoff is matched with the edge of its own hit on every board that *)
(* takes it, however many hits, heartbeats, tests and reads interleave:  *)
(* what peer_anchor.h promises of the age it fills in when it sends.     *)
THEOREM EdgeIsItsOwn == Spec => []HandoffFindsItsEdge
<1>1. PathInv => HandoffFindsItsEdge
  BY DEF PathInv, MatchInv
<1> QED BY InitPath, NextPath, <1>1, PTL DEF Spec
=============================================================================
