------------------------------ MODULE PeerPath ------------------------------
(***************************************************************************)
(* How a connection caught by one board reaches the other two              *)
(* (tri_coord.c, peer_link.c, sync_line.c, peer_anchor.h).                 *)
(*                                                                         *)
(* The boards form a ring: each is the SPI master of the board downstream  *)
(* and the SPI slave of the board upstream.  A board that catches a        *)
(* CONNECT_IND pulls the SYNC line, which all boards capture, and queues a *)
(* handoff.  Its work-queue thread offers the handoff upstream (one buffer *)
(* and a REQ pulse that asks the master to read it) and writes it          *)
(* downstream.  A receiver recognises the edge of the hit among the edges  *)
(* it captured by the age the handoff carries.                             *)
(*                                                                         *)
(* One unit of time is the tolerance of the match (3 ms) or less; the four *)
(* time bases differ by constants, so only ages are kept.                  *)
(***************************************************************************)
EXTENDS Integers, Sequences, SequencesExt

CONSTANTS
  Boards, Down,      \* Down[b]: the board whose master b is
  Depth,             \* PEER_TXQ_DEPTH
  Recent,            \* SYNC_LINE_RECENT_MAX
  Tol,               \* PEER_ANCHOR_MATCH_TOL_US
  Gap,               \* no two edges are closer than this (peer_anchor.h)
  MaxDelay,          \* from filling in the age to taking the handoff
  MaxAge,            \* from the hit to taking the handoff
  Testers,           \* boards told to test their links
  MaxHits, MaxTests, \* bounds on connections caught and link tests, over all boards
  PromptRearm        \* a slave port is re-armed before the next transaction starts

Hits == 1 .. MaxHits
Up == [b \in Boards |-> CHOOSE u \in Boards : Down[u] = b]

ASSUME RingAssumption ==
  /\ Down \in [Boards -> Boards]
  /\ \A b \in Boards : Down[b] # b /\ \E u \in Boards : Down[u] = b
  /\ \A b, c \in Boards : Down[b] = Down[c] => b = c
  /\ Testers \subseteq Boards /\ PromptRearm \in BOOLEAN
ASSUME BoundAssumption ==
  /\ Depth \in Nat \ {0} /\ Recent \in Nat \ {0} /\ Tol \in Nat /\ Gap \in Nat
  /\ MaxDelay \in Nat /\ MaxAge \in Nat /\ MaxHits \in Nat /\ MaxTests \in Nat
  /\ Gap <= MaxAge + Tol + 1    \* the line falls quiet again
\* What the match relies on: a handoff is taken soon after its age was filled in, no
\* other edge is as close, and its own edge is still among the captured ones.
ASSUME TimingAssumption ==
  /\ MaxDelay <= Tol /\ 2 * MaxDelay < Gap /\ MaxAge < Recent * Gap

MaxKept == MaxAge + Tol + 1   \* no age above this is told from it
Ages == 0 .. MaxKept

Unmatched == MaxHits + 1

None == [kind |-> "none", hit |-> 0, age |-> 0]
Test == [kind |-> "hit", hit |-> 0, age |-> 0]    \* the self-test's HIT
Handoff(h, a) == [kind |-> "handoff", hit |-> h, age |-> a]
Messages == {None, Test} \cup {Handoff(h, a) : h \in Hits, a \in Ages}

VARIABLES
  origin,    \* the boards of the hits handed off, in order: hit h is that of origin[h]
  since,     \* how long ago each hit's edge was
  edges,     \* the captured edges, newest first: the same on each board
  txq,       \* the hits in each board's transmit queue
  work,      \* items submitted to each board's work queue, in order
  thread,    \* what its thread is doing, and the message it holds
  buf,       \* spis_tx_buf: what the upstream master reads
  rx, done,  \* spis_rx_buf, and whether a transaction waits for its handler
  tests,     \* self-tests so far
  taken,     \* handoffs given to the follower: <<board, hit, edge matched>>
  unread,    \* history: the content of buf has not been read since it was offered
  replaced   \* history: hits whose offer was replaced before it was read

sync == <<origin, since, edges>>
links == <<buf, rx, done>>
history == <<taken, unread, replaced>>
vars == <<sync, txq, work, thread, links, tests, history>>

Submit(b, item) ==    \* k_work_submit: an item in the queue is not queued twice
  IF item \in ToSet(work[b]) THEN work ELSE [work EXCEPT ![b] = Append(@, item)]

Goto(b, here, next) ==
  /\ thread[b].at = here
  /\ thread' = [thread EXCEPT ![b].at = next]
GotoWith(b, here, next, m) ==
  /\ thread[b].at = here
  /\ thread' = [thread EXCEPT ![b] = [at |-> next, msg |-> m]]

-----------------------------------------------------------------------------
(* The SYNC line, and what a receiver makes of it. *)

Quiet == edges # <<>> => edges[1].age >= Gap

Captured(e) == SubSeq(<<[of |-> e, age |-> 0]>> \o edges, 1,
                      IF Len(edges) < Recent THEN Len(edges) + 1 ELSE Recent)

Err(i, age) == IF edges[i].age < age THEN age - edges[i].age ELSE edges[i].age - age

\* peer_anchor_match: the closest capture within the tolerance, the newest of equals.
Match(age) ==
  LET near == {i \in DOMAIN edges : Err(i, age) <= Tol}
      best(i) == \A j \in near :
        IF i <= j THEN Err(i, age) <= Err(j, age) ELSE Err(i, age) < Err(j, age)
  IN  IF near = {} THEN Unmatched ELSE edges[CHOOSE i \in near : best(i)].of

Take(b, m) ==    \* on_peer_recv: a HIT is only counted
  taken' = taken \cup
    (IF m.kind = "handoff" THEN {<<b, m.hit, Match(m.age)>>} ELSE {})

-----------------------------------------------------------------------------
(* Interrupts: the radio's, the slave port's; and the timers. *)

\* Mutation: a full transmit queue is not noticed.
HitUnbounded(b) ==
  /\ Quiet /\ Len(origin) < MaxHits
  /\ LET h == Len(origin) + 1 IN
       /\ origin' = Append(origin, b)
       /\ since' = [since EXCEPT ![h] = 0]
       /\ edges' = Captured(h)
       /\ txq' = [txq EXCEPT ![b] = Append(@, h)]
  /\ work' = Submit(b, "tx")
  /\ UNCHANGED <<thread, links, tests, history>>

\* A CONNECT_IND on this board's channel.
Hit(b) ==
  /\ Quiet /\ Len(origin) < MaxHits /\ Len(txq[b]) < Depth
  /\ LET h == Len(origin) + 1 IN
       /\ origin' = Append(origin, b)
       /\ since' = [since EXCEPT ![h] = 0]
       /\ edges' = Captured(h)
       /\ txq' = [txq EXCEPT ![b] = Append(@, h)]
  /\ work' = Submit(b, "tx")
  /\ UNCHANGED <<thread, links, tests, history>>

HitDropped(b) ==
  /\ Quiet /\ Len(txq[b]) >= Depth
  /\ edges' = Captured(0)
  /\ UNCHANGED <<origin, since, txq, work, thread, links, tests, history>>

Heartbeat ==
  /\ Quiet
  /\ edges' = Captured(0)
  /\ UNCHANGED <<origin, since, txq, work, thread, links, tests, history>>

LinkTest(b) ==
  /\ b \in Testers /\ tests < MaxTests
  /\ tests' = tests + 1
  /\ work' = Submit(b, "test")
  /\ UNCHANGED <<sync, txq, thread, links, history>>

\* Mutation: the buffer is cleared before it is looked at.
SpisHandlerClears(b) ==
  /\ done[b]
  /\ rx' = [rx EXCEPT ![b] = None]
  /\ done' = [done EXCEPT ![b] = FALSE]
  /\ UNCHANGED <<sync, txq, work, thread, buf, tests, history>>

SpisHandler(b) ==
  /\ done[b]
  /\ Take(b, rx[b])
  /\ rx' = [rx EXCEPT ![b] = None]
  /\ done' = [done EXCEPT ![b] = FALSE]
  /\ UNCHANGED <<sync, txq, work, thread, buf, tests, unread, replaced>>

-----------------------------------------------------------------------------
(* The work-queue thread. *)

Dequeue(b) ==
  /\ work[b] # <<>>
  /\ Goto(b, "idle", Head(work[b]))
  /\ work' = [work EXCEPT ![b] = Tail(@)]
  /\ UNCHANGED <<sync, txq, links, tests, history>>

PopEmpty(b) ==
  /\ txq[b] = <<>>
  /\ Goto(b, "tx", "idle")
  /\ UNCHANGED <<sync, txq, work, links, tests, history>>

\* Mutation: the age is left as it was encoded.
PopNoAge(b) ==
  /\ txq[b] # <<>>
  /\ GotoWith(b, "tx", "offer", Handoff(Head(txq[b]), 0))
  /\ txq' = [txq EXCEPT ![b] = Tail(@)]
  /\ UNCHANGED <<sync, work, links, tests, history>>

PopAndAge(b) ==
  /\ txq[b] # <<>>
  /\ LET h == Head(txq[b]) IN GotoWith(b, "tx", "offer", Handoff(h, since[h]))
  /\ txq' = [txq EXCEPT ![b] = Tail(@)]
  /\ UNCHANGED <<sync, work, links, tests, history>>

StartTest(b) ==
  /\ GotoWith(b, "test", "offer", Test)
  /\ UNCHANGED <<sync, txq, work, links, tests, history>>

Offer(b) ==    \* peer_link_send_upstream
  /\ Goto(b, "offer", "pulse")
  /\ buf' = [buf EXCEPT ![b] = thread[b].msg]
  /\ unread' = [unread EXCEPT ![b] = TRUE]
  /\ replaced' = IF unread[b] THEN replaced \cup ({buf[b].hit} \cap Hits) ELSE replaced
  /\ UNCHANGED <<sync, txq, work, rx, done, tests, taken>>

\* Mutation: a request is ignored while the master's thread is reading.
PulseReqUnlessReading(b) ==
  /\ Goto(b, "pulse", "write")
  /\ work' = IF thread[Up[b]].at = "reading" THEN work ELSE Submit(Up[b], "read")
  /\ UNCHANGED <<sync, txq, links, tests, history>>

PulseReq(b) ==
  /\ Goto(b, "pulse", "write")
  /\ work' = Submit(Up[b], "read")
  /\ UNCHANGED <<sync, txq, links, tests, history>>

AfterWrite(m) == IF m.kind = "handoff" THEN "tx" ELSE "idle"

\* peer_link_send: a slave whose handler is still due misses the transaction.
Write(b) ==
  /\ PromptRearm => ~done[Down[b]]
  /\ GotoWith(b, "write", AfterWrite(thread[b].msg), None)
  /\ IF done[Down[b]] THEN UNCHANGED <<rx, done>>
     ELSE /\ rx' = [rx EXCEPT ![Down[b]] = thread[b].msg]
          /\ done' = [done EXCEPT ![Down[b]] = TRUE]
  /\ UNCHANGED <<sync, txq, work, buf, tests, history>>

\* req_work_fn: the first bytes of the slave's buffer ...
ReadBegin(b) ==
  /\ ~done[Down[b]]
  /\ GotoWith(b, "read", "reading", buf[Down[b]])
  /\ UNCHANGED <<sync, txq, work, links, tests, history>>

\* ... and the rest, which may be of another message by now: the checksum tells.
ReadEnd(b) ==
  /\ GotoWith(b, "reading", "idle", None)
  /\ LET whole == buf[Down[b]] = thread[b].msg IN
       /\ Take(b, IF whole THEN thread[b].msg ELSE None)
       /\ unread' = [unread EXCEPT ![Down[b]] = @ /\ ~whole]
  /\ done' = [done EXCEPT ![Down[b]] = TRUE]
  /\ UNCHANGED <<sync, txq, work, buf, rx, tests, replaced>>

ReadMissed(b) ==
  /\ ~PromptRearm /\ done[Down[b]]
  /\ Goto(b, "read", "idle")
  /\ UNCHANGED <<sync, txq, work, links, tests, history>>

-----------------------------------------------------------------------------
(* Time passes, but a handoff is taken within its bounds. *)

ReadDue(b) == "read" \in ToSet(work[Up[b]]) \/ thread[Up[b]].at = "read"

Held == {thread[b].msg : b \in Boards} \cup {rx[b] : b \in Boards}
          \cup {buf[b] : b \in {c \in Boards : ReadDue(c)}}

Older(a) == IF a < MaxKept THEN a + 1 ELSE a

Tick ==
  /\ \A b \in Boards : \A h \in ToSet(txq[b]) : since[h] < MaxAge
  /\ \A m \in Held : m.kind = "handoff" =>
       since[m.hit] < MaxAge /\ since[m.hit] - m.age < MaxDelay
  /\ since' = [h \in Hits |-> Older(since[h])]
  /\ edges' = [i \in DOMAIN edges |-> [edges[i] EXCEPT !.age = Older(@)]]
  /\ UNCHANGED <<origin, txq, work, thread, links, tests, history>>

-----------------------------------------------------------------------------
Init ==
  /\ origin = <<>> /\ since = [h \in Hits |-> MaxKept] /\ edges = <<>>
  /\ txq = [b \in Boards |-> <<>>]
  /\ work = [b \in Boards |-> <<>>]
  /\ thread = [b \in Boards |-> [at |-> "idle", msg |-> None]]
  /\ buf = [b \in Boards |-> None]
  /\ rx = [b \in Boards |-> None] /\ done = [b \in Boards |-> FALSE]
  /\ tests = 0 /\ taken = {} /\ replaced = {}
  /\ unread = [b \in Boards |-> FALSE]

Thread(b) ==
  \/ Dequeue(b) \/ PopEmpty(b) \/ PopAndAge(b) \/ StartTest(b)
  \/ Offer(b) \/ PulseReq(b) \/ Write(b) \/ ReadBegin(b) \/ ReadEnd(b) \/ ReadMissed(b)

Next ==
  \/ Heartbeat \/ Tick
  \/ \E b \in Boards : Hit(b) \/ HitDropped(b) \/ LinkTest(b) \/ SpisHandler(b) \/ Thread(b)

Spec == Init /\ [][Next]_vars

\* The work queue runs what is submitted; a pending interrupt is taken.
FairSpec == Spec /\ \A b \in Boards : WF_vars(Thread(b)) /\ WF_vars(SpisHandler(b))

-----------------------------------------------------------------------------
\* Every variable has its type.
TypeOK ==
  /\ origin \in Seq(Boards) /\ Len(origin) <= MaxHits
  /\ since \in [Hits -> Ages]
  /\ Len(edges) <= Recent
  /\ \A i \in DOMAIN edges : edges[i] \in [of : 0 .. MaxHits, age : Ages]
  /\ \A b \in Boards :
       /\ txq[b] \in Seq(Hits) /\ Len(txq[b]) <= Depth
       /\ work[b] \in Seq({"tx", "read", "test"}) /\ IsInjective(work[b])
  /\ thread \in [Boards -> [at : {"idle", "tx", "test", "offer", "pulse", "write", "read", "reading"},
                             msg : Messages]]
  /\ buf \in [Boards -> Messages] /\ rx \in [Boards -> Messages]
  /\ done \in [Boards -> BOOLEAN] /\ unread \in [Boards -> BOOLEAN]
  /\ tests \in 0 .. MaxTests
  /\ taken \subseteq Boards \X Hits \X (0 .. Unmatched)
  /\ replaced \subseteq Hits

\* A handoff is taken over with the edge of its own hit, however long it queued: the
\* age the sender fills in leads to that edge and to no other (peer_anchor.h).
HandoffFindsItsEdge == \A t \in taken : t[3] = t[2]

\* What a slave has offered and its master has not read, somebody will come for: the
\* REQ is about to be pulled, or the read is queued, starting, or under way (peer_link.h).
NoLostOffer ==
  \A b \in Boards : unread[b] =>
    \/ thread[b].at = "pulse"
    \/ ReadDue(b)
    \/ thread[Up[b]].at = "reading" /\ thread[Up[b]].msg = buf[b]

\* A connection handed off is taken by the board downstream, and by the board upstream
\* unless its sender offered something else before the master came (tri_coord.c:
\* "hand the connection parameters to the other two boards").
HandoffReachesBoth ==
  \A h \in Hits : \A b \in Boards :
    (h \in DOMAIN origin /\ b # origin[h]) ~>
      \/ \E e \in 0 .. Unmatched : <<b, h, e>> \in taken
      \/ h \in replaced /\ b = Up[origin[h]]
=============================================================================
