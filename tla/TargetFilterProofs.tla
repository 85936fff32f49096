------------------------- MODULE TargetFilterProofs -------------------------
(***************************************************************************)
(* The invariant of TargetFilter, for any addresses, keys and cache size.  *)
(***************************************************************************)
EXTENDS TargetFilter, TLAPS

\* What apply_target(mac) has done when it is at step pc.
Stage(pc, mac) ==
  /\ pc = "fol hi" => fol.lo = mac
  /\ pc \in {"fol on", "main off", "main mac", "main on"} => fol.lo = mac /\ fol.hi = mac
  /\ pc \in {"main off", "main mac", "main on"} => fol.active
  /\ pc \in {"main mac", "main on"} => ~main.active
  /\ pc = "main on" => main.mac = mac

\* Filter and follower agree except while one of two contexts writes them,
\* and what that one has written so far is known.
AgreeInv ==
  /\ Stage(usb.pc, usb.mac)
  /\ Stage(thr.pc, thr.addr)
  /\ usb.pc = "main clear" => ~fol.active
  /\ usb.pc \notin ApplySteps \cup {"main clear"} /\ thr.pc \notin ApplySteps => Agree

\* The thread holds an address only under the IRK and while no command runs.
ThreadInv == thr.pc \notin {"idle", "scan"} => usb.pc = "idle" /\ irk.on

\* Without an IRK there is nothing to resolve.
PendingInv ==
  /\ usb.pc \in {"reset", "irk copy", "irk on"} => ~irk.on
  /\ ~irk.on /\ usb.pc # "reset" => \A i \in Entries : cache[i].state # "PENDING"

\* Verdicts in the cache, and the one the thread is about to write, are those
\* of the key, which changes only while there are none.
VerdictInv ==
  /\ \A i \in Entries :
       /\ cache[i].state = "MATCH" => Resolves(irk.key, cache[i].addr)
       /\ cache[i].state = "NOMATCH" => ~Resolves(irk.key, cache[i].addr)
  /\ usb.pc = "irk copy" => \A i \in Entries : cache[i].state = "UNKNOWN"
  /\ thr.pc = "compute" => thr.key = irk.key
  /\ thr.pc \in {"check", "write"} => thr.matched = Resolves(irk.key, thr.addr)
  /\ thr.pc = "write" => cache[thr.i].addr = thr.addr

Undisturbed == AgreeInv /\ ThreadInv /\ PendingInv /\ VerdictInv

IInv == TypeOK /\ (~past.disturbed => Undisturbed)

----------------------------------------------------------------------------

LEMMA FirstEntry == 1 \in Entries
BY FilterAssumption DEF Entries

\* The thread's states when it holds no address.
LEMMA Typed == Idle \in ThreadState /\ \A i \in Entries : Scan(i) \in ThreadState
BY FirstEntry DEF Idle, Scan, ThreadState, ThrSteps, MaybeAddr, MaybeKey

LEMMA InitInv == Init => IInv
<1> SUFFICES ASSUME Init PROVE IInv
  OBVIOUS
<1> USE FilterAssumption DEF Init
<1>1. TypeOK
  <2>1. main \in [mac : MaybeAddr, active : BOOLEAN]
        /\ fol \in [lo : MaybeAddr, hi : MaybeAddr, active : BOOLEAN]
        /\ irk \in [key : MaybeKey, on : BOOLEAN]
    BY DEF MaybeAddr, MaybeKey
  <2>2. cache \in [Entries -> Entry] /\ cursor \in Entries
    BY FirstEntry DEF Entry, Empty
  <2>3. usb \in UsbCommand
    BY DEF UsbCommand, UsbSteps, NoCommand, MaybeAddr, MaybeKey
  <2>4. thr \in ThreadState
    BY Typed
  <2>5. turn \in DOMAIN Own
    <3>1. Own \in Seq(Rpas) /\ Len(Own) > 0
      BY FilterAssumption
    <3> QED BY <3>1
  <2> QED BY <2>1, <2>2, <2>3, <2>4, <2>5 DEF TypeOK
<1>2. AgreeInv
  BY DEF AgreeInv, Stage, Agree, NoCommand, Idle, ApplySteps
<1>3. ThreadInv /\ PendingInv
  BY DEF ThreadInv, PendingInv, Idle, Empty
<1>4. VerdictInv
  BY DEF VerdictInv, Idle, NoCommand, Empty
<1> QED BY <1>1, <1>2, <1>3, <1>4 DEF IInv, Undisturbed

LEMMA NewAddressKeeps == IInv /\ NewAddress => IInv'
<1> SUFFICES ASSUME IInv, NewAddress PROVE IInv'
  OBVIOUS
<1> USE DEF NewAddress
<1>1. TypeOK'
  <2> USE DEF IInv, TypeOK
  <2>1. turn' \in DOMAIN Own
    OBVIOUS
  <2>2. past' \in [disturbed : BOOLEAN, displaced : BOOLEAN]
    OBVIOUS
  <2> QED BY <2>1, <2>2
<1>2. ASSUME ~past'.disturbed PROVE Undisturbed'
  <2>1. TypeOK /\ Undisturbed
    BY <1>2 DEF IInv, TypeOK
  <2>2. AgreeInv'
    BY <1>2, <2>1 DEF TypeOK, UsbCommand, ThreadState, ApplySteps, Undisturbed, AgreeInv,
       ThreadInv, Stage, Agree
  <2>3. ThreadInv'
    BY <1>2, <2>1 DEF TypeOK, UsbCommand, ThreadState, ApplySteps, Undisturbed,
       ThreadInv, PendingInv
  <2>4. PendingInv'
    BY <1>2, <2>1 DEF TypeOK, UsbCommand, ThreadState, ApplySteps, Undisturbed,
       PendingInv, ThreadInv
  <2>5. VerdictInv'
    BY <1>2, <2>1 DEF TypeOK, UsbCommand, ThreadState, ApplySteps, Undisturbed,
       VerdictInv, ThreadInv
  <2> QED BY <2>2, <2>3, <2>4, <2>5 DEF Undisturbed
<1> QED BY <1>1, <1>2 DEF IInv

LEMMA CancelTargetKeeps == IInv /\ CancelTarget => IInv'
<1> SUFFICES ASSUME IInv, CancelTarget PROVE IInv'
  OBVIOUS
<1> USE DEF CancelTarget, Command, Disturbs
<1>1. TypeOK'
  <2> USE DEF IInv, TypeOK
  <2>1. usb' \in UsbCommand
    BY DEF UsbCommand, UsbSteps, ApplySteps, MaybeAddr, MaybeKey
  <2>2. past' \in [disturbed : BOOLEAN, displaced : BOOLEAN]
    OBVIOUS
  <2> QED BY <2>1, <2>2
<1>2. ASSUME ~past'.disturbed PROVE Undisturbed'
  <2>1. TypeOK /\ Undisturbed
    BY <1>2 DEF IInv, TypeOK
  <2>2. AgreeInv'
    BY <1>2, <2>1 DEF TypeOK, UsbCommand, ThreadState, ApplySteps, Undisturbed, AgreeInv,
       ThreadInv, Stage, Agree
  <2>3. ThreadInv'
    BY <1>2, <2>1 DEF TypeOK, UsbCommand, ThreadState, ApplySteps, Undisturbed,
       ThreadInv, PendingInv
  <2>4. PendingInv'
    BY <1>2, <2>1 DEF TypeOK, UsbCommand, ThreadState, ApplySteps, Undisturbed,
       PendingInv, ThreadInv
  <2>5. VerdictInv'
    BY <1>2, <2>1 DEF TypeOK, UsbCommand, ThreadState, ApplySteps, Undisturbed,
       VerdictInv, ThreadInv
  <2> QED BY <2>2, <2>3, <2>4, <2>5 DEF Undisturbed
<1> QED BY <1>1, <1>2 DEF IInv

LEMMA UsbClearKeeps == IInv /\ UsbClear => IInv'
<1> SUFFICES ASSUME IInv, UsbClear PROVE IInv'
  OBVIOUS
<1> USE DEF UsbClear
<1>1. TypeOK'
  <2> USE DEF IInv, TypeOK
  <2>1. main' \in [mac : MaybeAddr, active : BOOLEAN]
    OBVIOUS
  <2>2. fol' \in [lo : MaybeAddr, hi : MaybeAddr, active : BOOLEAN]
    OBVIOUS
  <2>3. usb' \in UsbCommand
    BY DEF UsbCommand, UsbSteps, ApplySteps, MaybeAddr, MaybeKey
  <2> QED BY <2>1, <2>2, <2>3
<1>2. ASSUME ~past'.disturbed PROVE Undisturbed'
  <2>1. TypeOK /\ Undisturbed
    BY <1>2 DEF IInv, TypeOK
  <2>2. AgreeInv'
    <3>1. thr.pc \notin ApplySteps
      BY <2>1 DEF Undisturbed, ThreadInv, ApplySteps
    <3>2. CASE usb.pc = "fol clear"
      <4>1. usb'.pc = "main clear" /\ ~fol'.active
        BY <2>1, <3>2 DEF TypeOK, UsbCommand
      <4> QED BY <3>1, <4>1 DEF AgreeInv, Stage, ApplySteps
    <3>3. CASE usb.pc = "main clear"
      <4>1. usb'.pc = "irk off" /\ ~fol'.active /\ ~main'.active
        BY <2>1, <3>3 DEF TypeOK, UsbCommand, Undisturbed, AgreeInv
      <4> QED BY <2>1, <3>1, <4>1 DEF TypeOK, AgreeInv, Stage, Agree, ApplySteps
    <3> QED BY <3>2, <3>3
  <2>3. ThreadInv'
    BY <1>2, <2>1 DEF TypeOK, UsbCommand, ThreadState, ApplySteps, Undisturbed,
       ThreadInv, PendingInv
  <2>4. PendingInv'
    BY <1>2, <2>1 DEF TypeOK, UsbCommand, ThreadState, ApplySteps, Undisturbed,
       PendingInv, ThreadInv
  <2>5. VerdictInv'
    BY <1>2, <2>1 DEF TypeOK, UsbCommand, ThreadState, ApplySteps, Undisturbed,
       VerdictInv, ThreadInv
  <2> QED BY <2>2, <2>3, <2>4, <2>5 DEF Undisturbed
<1> QED BY <1>1, <1>2 DEF IInv

LEMMA UsbIrkOffKeeps == IInv /\ UsbIrkOff => IInv'
<1> SUFFICES ASSUME IInv, UsbIrkOff PROVE IInv'
  OBVIOUS
<1> USE DEF UsbIrkOff
<1>1. TypeOK'
  <2> USE DEF IInv, TypeOK
  <2>1. irk' \in [key : MaybeKey, on : BOOLEAN]
    BY DEF MaybeKey
  <2>2. usb' \in UsbCommand
    BY DEF UsbCommand, UsbSteps, ApplySteps, MaybeAddr, MaybeKey
  <2> QED BY <2>1, <2>2
<1>2. ASSUME ~past'.disturbed PROVE Undisturbed'
  <2>1. TypeOK /\ Undisturbed
    BY <1>2 DEF IInv, TypeOK
  <2>2. AgreeInv'
    BY <1>2, <2>1 DEF TypeOK, UsbCommand, ThreadState, ApplySteps, Undisturbed, AgreeInv,
       ThreadInv, Stage, Agree
  <2>3. ThreadInv'
    BY <1>2, <2>1 DEF TypeOK, UsbCommand, ThreadState, ApplySteps, Undisturbed,
       ThreadInv, PendingInv
  <2>4. PendingInv'
    BY <1>2, <2>1 DEF TypeOK, UsbCommand, ThreadState, ApplySteps, Undisturbed,
       PendingInv, ThreadInv
  <2>5. VerdictInv'
    BY <1>2, <2>1 DEF TypeOK, UsbCommand, ThreadState, ApplySteps, Undisturbed,
       VerdictInv, ThreadInv
  <2> QED BY <2>2, <2>3, <2>4, <2>5 DEF Undisturbed
<1> QED BY <1>1, <1>2 DEF IInv

LEMMA UsbResetKeeps == IInv /\ UsbReset => IInv'
<1> SUFFICES ASSUME IInv, UsbReset PROVE IInv'
  OBVIOUS
<1> USE DEF UsbReset, NoCommand, Empty
<1>1. TypeOK'
  <2> USE DEF IInv, TypeOK
  <2>1. cache' \in [Entries -> Entry]
    BY DEF Entry, Entries
  <2>2. cursor' \in Entries
    BY FirstEntry
  <2>3. usb' \in UsbCommand
    BY DEF UsbCommand, UsbSteps, ApplySteps, MaybeAddr, MaybeKey
  <2> QED BY <2>1, <2>2, <2>3
<1>2. ASSUME ~past'.disturbed PROVE Undisturbed'
  <2>1. TypeOK /\ Undisturbed
    BY <1>2 DEF IInv, TypeOK
  <2>2. AgreeInv'
    BY <1>2, <2>1 DEF TypeOK, UsbCommand, ThreadState, ApplySteps, Undisturbed, AgreeInv,
       ThreadInv, Stage, Agree
  <2>3. ThreadInv'
    BY <1>2, <2>1 DEF TypeOK, UsbCommand, ThreadState, ApplySteps, Undisturbed,
       ThreadInv, PendingInv
  <2>4. PendingInv'
    BY <1>2, <2>1 DEF TypeOK, UsbCommand, ThreadState, ApplySteps, Undisturbed,
       PendingInv, ThreadInv
  <2>5. VerdictInv'
    BY <1>2, <2>1 DEF TypeOK, UsbCommand, ThreadState, ApplySteps, Undisturbed,
       VerdictInv, ThreadInv
  <2> QED BY <2>2, <2>3, <2>4, <2>5 DEF Undisturbed
<1> QED BY <1>1, <1>2 DEF IInv

LEMMA UsbIrkCopyKeeps == IInv /\ UsbIrkCopy => IInv'
<1> SUFFICES ASSUME IInv, UsbIrkCopy PROVE IInv'
  OBVIOUS
<1> USE DEF UsbIrkCopy
<1>1. TypeOK'
  <2> USE DEF IInv, TypeOK
  <2>1. irk' \in [key : MaybeKey, on : BOOLEAN]
    <3>1. usb.key \in MaybeKey
      BY DEF UsbCommand
    <3> QED BY <3>1
  <2>2. usb' \in UsbCommand
    BY DEF UsbCommand, UsbSteps, ApplySteps, MaybeAddr, MaybeKey
  <2> QED BY <2>1, <2>2
<1>2. ASSUME ~past'.disturbed PROVE Undisturbed'
  <2>1. TypeOK /\ Undisturbed
    BY <1>2 DEF IInv, TypeOK
  <2>2. AgreeInv'
    BY <1>2, <2>1 DEF TypeOK, UsbCommand, ThreadState, ApplySteps, Undisturbed, AgreeInv,
       ThreadInv, Stage, Agree
  <2>3. ThreadInv'
    BY <1>2, <2>1 DEF TypeOK, UsbCommand, ThreadState, ApplySteps, Undisturbed,
       ThreadInv, PendingInv
  <2>4. PendingInv'
    BY <1>2, <2>1 DEF TypeOK, UsbCommand, ThreadState, ApplySteps, Undisturbed,
       PendingInv, ThreadInv
  <2>5. VerdictInv'
    BY <1>2, <2>1 DEF TypeOK, UsbCommand, ThreadState, ApplySteps, Undisturbed,
       VerdictInv, ThreadInv
  <2> QED BY <2>2, <2>3, <2>4, <2>5 DEF Undisturbed
<1> QED BY <1>1, <1>2 DEF IInv

LEMMA UsbIrkOnKeeps == IInv /\ UsbIrkOn => IInv'
<1> SUFFICES ASSUME IInv, UsbIrkOn PROVE IInv'
  OBVIOUS
<1> USE DEF UsbIrkOn, NoCommand
<1>1. TypeOK'
  <2> USE DEF IInv, TypeOK
  <2>1. irk' \in [key : MaybeKey, on : BOOLEAN]
    BY DEF MaybeKey
  <2>2. usb' \in UsbCommand
    BY DEF UsbCommand, UsbSteps, ApplySteps, MaybeAddr, MaybeKey
  <2> QED BY <2>1, <2>2
<1>2. ASSUME ~past'.disturbed PROVE Undisturbed'
  <2>1. TypeOK /\ Undisturbed
    BY <1>2 DEF IInv, TypeOK
  <2>2. AgreeInv'
    BY <1>2, <2>1 DEF TypeOK, UsbCommand, ThreadState, ApplySteps, Undisturbed, AgreeInv,
       ThreadInv, Stage, Agree
  <2>3. ThreadInv'
    BY <1>2, <2>1 DEF TypeOK, UsbCommand, ThreadState, ApplySteps, Undisturbed,
       ThreadInv, PendingInv
  <2>4. PendingInv'
    BY <1>2, <2>1 DEF TypeOK, UsbCommand, ThreadState, ApplySteps, Undisturbed,
       PendingInv, ThreadInv
  <2>5. VerdictInv'
    BY <1>2, <2>1 DEF TypeOK, UsbCommand, ThreadState, ApplySteps, Undisturbed,
       VerdictInv, ThreadInv
  <2> QED BY <2>2, <2>3, <2>4, <2>5 DEF Undisturbed
<1> QED BY <1>1, <1>2 DEF IInv

LEMMA ThrBeginKeeps == IInv /\ ThrBegin => IInv'
<1> SUFFICES ASSUME IInv, ThrBegin PROVE IInv'
  OBVIOUS
<1> USE DEF ThrBegin, Scan, Idle
<1>1. TypeOK'
  <2> USE DEF IInv, TypeOK
  <2>1. thr' \in ThreadState
    BY Typed DEF ThreadState, ThrSteps
  <2> QED BY <2>1
<1>2. ASSUME ~past'.disturbed PROVE Undisturbed'
  <2>1. TypeOK /\ Undisturbed
    BY <1>2 DEF IInv, TypeOK
  <2>2. AgreeInv'
    BY <1>2, <2>1 DEF TypeOK, UsbCommand, ThreadState, ApplySteps, Undisturbed, AgreeInv,
       ThreadInv, Stage, Agree
  <2>3. ThreadInv'
    BY <1>2, <2>1 DEF TypeOK, UsbCommand, ThreadState, ApplySteps, Undisturbed,
       ThreadInv, PendingInv
  <2>4. PendingInv'
    BY <1>2, <2>1 DEF TypeOK, UsbCommand, ThreadState, ApplySteps, Undisturbed,
       PendingInv, ThreadInv
  <2>5. VerdictInv'
    BY <1>2, <2>1 DEF TypeOK, UsbCommand, ThreadState, ApplySteps, Undisturbed,
       VerdictInv, ThreadInv
  <2> QED BY <2>2, <2>3, <2>4, <2>5 DEF Undisturbed
<1> QED BY <1>1, <1>2 DEF IInv

LEMMA ThrScanKeeps == IInv /\ ThrScan => IInv'
<1> SUFFICES ASSUME IInv, ThrScan PROVE IInv'
  OBVIOUS
<1> USE DEF ThrScan, Scan, Idle
<1>1. TypeOK'
  <2>1. thr.i \in Entries /\ thr.i # Size => thr.i + 1 \in Entries
    BY FilterAssumption DEF Entries
  <2>2. thr' \in ThreadState
    BY <2>1, Typed DEF IInv, TypeOK, ThreadState, Idle, Scan
  <2> QED BY <2>2 DEF IInv, TypeOK
<1>2. ASSUME ~past'.disturbed PROVE Undisturbed'
  <2>1. TypeOK /\ Undisturbed
    BY <1>2 DEF IInv, TypeOK
  <2>2. AgreeInv'
    BY <1>2, <2>1 DEF TypeOK, UsbCommand, ThreadState, ApplySteps, Undisturbed, AgreeInv,
       ThreadInv, Stage, Agree
  <2>3. ThreadInv'
    BY <1>2, <2>1 DEF TypeOK, UsbCommand, ThreadState, Undisturbed, ThreadInv, PendingInv
  <2>4. PendingInv'
    BY <1>2, <2>1 DEF TypeOK, UsbCommand, ThreadState, Undisturbed, PendingInv, ThreadInv
  <2>5. VerdictInv'
    BY <1>2, <2>1 DEF TypeOK, UsbCommand, ThreadState, ApplySteps, Undisturbed,
       VerdictInv, ThreadInv
  <2> QED BY <2>2, <2>3, <2>4, <2>5 DEF Undisturbed
<1> QED BY <1>1, <1>2 DEF IInv

LEMMA ThrPickKeeps == IInv /\ ThrPick => IInv'
<1> SUFFICES ASSUME IInv, ThrPick PROVE IInv'
  OBVIOUS
<1> USE DEF ThrPick
<1>1. TypeOK'
  <2>1. cache[thr.i].addr \in MaybeAddr /\ irk.key \in MaybeKey
    BY DEF IInv, TypeOK, ThreadState, Entry, MaybeAddr, Addrs
  <2>2. thr' \in ThreadState
    BY <2>1 DEF IInv, TypeOK, ThreadState, ThrSteps
  <2> QED BY <2>2 DEF IInv, TypeOK
<1>2. ASSUME ~past'.disturbed PROVE Undisturbed'
  <2>1. TypeOK /\ Undisturbed
    BY <1>2 DEF IInv, TypeOK
  <2>2. AgreeInv'
    BY <1>2, <2>1 DEF TypeOK, UsbCommand, ThreadState, ApplySteps, Undisturbed, AgreeInv,
       ThreadInv, Stage, Agree
  <2>3. ThreadInv'
    BY <1>2, <2>1 DEF TypeOK, UsbCommand, ThreadState, Undisturbed, ThreadInv, PendingInv
  <2>4. PendingInv'
    BY <1>2, <2>1 DEF TypeOK, UsbCommand, ThreadState, Undisturbed, PendingInv, ThreadInv
  <2>5. VerdictInv'
    BY <1>2, <2>1 DEF TypeOK, UsbCommand, ThreadState, ApplySteps, Undisturbed,
       VerdictInv, ThreadInv
  <2> QED BY <2>2, <2>3, <2>4, <2>5 DEF Undisturbed
<1> QED BY <1>1, <1>2 DEF IInv

LEMMA ThrComputeKeeps == IInv /\ ThrCompute => IInv'
<1> SUFFICES ASSUME IInv, ThrCompute PROVE IInv'
  OBVIOUS
<1> USE DEF ThrCompute
<1>1. TypeOK'
  <2>1. PICK key \in {thr.key, irk.key} :
          thr' = [thr EXCEPT !.pc = "check", !.key = None, !.matched = Resolves(key, thr.addr)]
    OBVIOUS
  <2>2. Resolves(key, thr.addr) \in BOOLEAN
    BY DEF Resolves
  <2>3. thr' \in ThreadState
    BY <2>1, <2>2 DEF IInv, TypeOK, ThreadState, ThrSteps, MaybeKey
  <2> QED BY <2>3 DEF IInv, TypeOK
<1>2. ASSUME ~past'.disturbed PROVE Undisturbed'
  <2>1. TypeOK /\ Undisturbed
    BY <1>2 DEF IInv, TypeOK
  <2>2. AgreeInv'
    BY <1>2, <2>1 DEF TypeOK, UsbCommand, ThreadState, ApplySteps, Undisturbed, AgreeInv,
       ThreadInv, Stage, Agree
  <2>3. ThreadInv'
    BY <1>2, <2>1 DEF TypeOK, UsbCommand, ThreadState, Undisturbed, ThreadInv, PendingInv
  <2>4. PendingInv'
    BY <1>2, <2>1 DEF TypeOK, UsbCommand, ThreadState, Undisturbed, PendingInv, ThreadInv
  <2>5. VerdictInv'
    <3>1. thr.key = irk.key
      BY <2>1 DEF Undisturbed, VerdictInv
    <3>2. thr' = [thr EXCEPT !.pc = "check", !.key = None,
                             !.matched = Resolves(irk.key, thr.addr)]
      BY <3>1
    <3>3. thr'.pc = "check" /\ thr'.matched = Resolves(irk.key, thr'.addr)
      BY <2>1, <3>2 DEF TypeOK, ThreadState
    <3>4. UNCHANGED <<irk, cache, usb>>
      OBVIOUS
    <3> HIDE DEF ThrCompute
    <3> QED BY <2>1, <3>3, <3>4 DEF Undisturbed, VerdictInv
  <2> QED BY <2>2, <2>3, <2>4, <2>5 DEF Undisturbed
<1> QED BY <1>1, <1>2 DEF IInv

LEMMA ThrCheckKeeps == IInv /\ ThrCheck => IInv'
<1> SUFFICES ASSUME IInv, ThrCheck PROVE IInv'
  OBVIOUS
<1> USE DEF ThrCheck
<1>1. TypeOK'
  <2>1. thr' \in ThreadState
    BY DEF IInv, TypeOK, ThreadState, ThrSteps
  <2> QED BY <2>1 DEF IInv, TypeOK
<1>2. ASSUME ~past'.disturbed PROVE Undisturbed'
  <2>1. TypeOK /\ Undisturbed
    BY <1>2 DEF IInv, TypeOK
  <2>2. AgreeInv'
    BY <1>2, <2>1 DEF TypeOK, UsbCommand, ThreadState, ApplySteps, Undisturbed, AgreeInv,
       ThreadInv, Stage, Agree
  <2>3. ThreadInv'
    BY <1>2, <2>1 DEF TypeOK, UsbCommand, ThreadState, Undisturbed, ThreadInv, PendingInv
  <2>4. PendingInv'
    BY <1>2, <2>1 DEF TypeOK, UsbCommand, ThreadState, Undisturbed, PendingInv, ThreadInv
  <2>5. VerdictInv'
    <3>1. thr'.addr = thr.addr /\ thr'.matched = thr.matched /\ thr'.i = thr.i
          /\ thr'.pc \in {"write", "judge"}
      BY <2>1 DEF TypeOK, ThreadState
    <3>2. thr'.pc = "write" => cache[thr.i].addr = thr.addr
      BY <2>1 DEF TypeOK, ThreadState
    <3>3. UNCHANGED <<irk, cache, usb>> /\ thr.pc = "check"
      OBVIOUS
    <3> HIDE DEF ThrCheck
    <3> QED BY <2>1, <3>1, <3>2, <3>3 DEF Undisturbed, VerdictInv
  <2> QED BY <2>2, <2>3, <2>4, <2>5 DEF Undisturbed
<1> QED BY <1>1, <1>2 DEF IInv

LEMMA ThrWriteKeeps == IInv /\ ThrWrite => IInv'
<1> SUFFICES ASSUME IInv, ThrWrite PROVE IInv'
  OBVIOUS
<1> USE DEF ThrWrite
<1>1. TypeOK'
  <2>1. thr' \in ThreadState
    BY DEF IInv, TypeOK, ThreadState, ThrSteps
  <2>2. cache' \in [Entries -> Entry]
    <3>1. thr.i \in Entries /\ cache[thr.i] \in Entry
      BY DEF IInv, TypeOK, ThreadState
    <3>2. [cache[thr.i] EXCEPT !.state = IF thr.matched THEN "MATCH" ELSE "NOMATCH"] \in Entry
      BY <3>1 DEF Entry
    <3> QED BY <3>1, <3>2 DEF IInv, TypeOK
  <2> QED BY <2>1, <2>2 DEF IInv, TypeOK
<1>2. ASSUME ~past'.disturbed PROVE Undisturbed'
  <2>1. TypeOK /\ Undisturbed
    BY <1>2 DEF IInv, TypeOK
  <2>2. AgreeInv'
    BY <1>2, <2>1 DEF TypeOK, UsbCommand, ThreadState, ApplySteps, Undisturbed, AgreeInv,
       ThreadInv, Stage, Agree
  <2>3. ThreadInv'
    BY <1>2, <2>1 DEF TypeOK, UsbCommand, ThreadState, Undisturbed, ThreadInv, PendingInv
  <2>4. PendingInv'
    <3>1. irk.on /\ UNCHANGED irk
      BY <2>1 DEF Undisturbed, ThreadInv
    <3> QED BY <3>1 DEF PendingInv
  <2>5. VerdictInv'
    <3> DEFINE v == IF thr.matched THEN "MATCH" ELSE "NOMATCH"
    <3>1. /\ thr.i \in Entries /\ thr.matched = Resolves(irk.key, thr.addr)
          /\ cache[thr.i].addr = thr.addr
      BY <2>1 DEF TypeOK, ThreadState, Undisturbed, VerdictInv
    <3>2. /\ cache'[thr.i].addr = thr.addr /\ cache'[thr.i].state = v
          /\ \A i \in Entries \ {thr.i} : cache'[i] = cache[i]
      BY <2>1, <3>1 DEF TypeOK, Entry
    <3>3. thr'.pc = "judge" /\ usb.pc = "idle" /\ UNCHANGED <<irk, usb>>
      BY <2>1 DEF TypeOK, ThreadState
    <3> HIDE DEF ThrWrite
    <3> QED BY <2>1, <3>1, <3>2, <3>3 DEF Undisturbed, VerdictInv
  <2> QED BY <2>2, <2>3, <2>4, <2>5 DEF Undisturbed
<1> QED BY <1>1, <1>2 DEF IInv

LEMMA ThrJudgeKeeps == IInv /\ ThrJudge => IInv'
<1> SUFFICES ASSUME IInv, ThrJudge PROVE IInv'
  OBVIOUS
<1> USE DEF ThrJudge, Scan, Idle
<1>1. TypeOK'
  <2>1. Scan(1) \in ThreadState
    BY FirstEntry, Typed
  <2>2. [thr EXCEPT !.pc = "fol lo"] \in ThreadState
    BY DEF IInv, TypeOK, ThreadState, ThrSteps, ApplySteps
  <2>3. thr' \in ThreadState
    BY <2>1, <2>2 DEF Scan, Idle
  <2> QED BY <2>3 DEF IInv, TypeOK
<1>2. ASSUME ~past'.disturbed PROVE Undisturbed'
  <2>1. TypeOK /\ Undisturbed
    BY <1>2 DEF IInv, TypeOK
  <2>2. AgreeInv'
    BY <1>2, <2>1 DEF TypeOK, UsbCommand, ThreadState, ApplySteps, Undisturbed, AgreeInv,
       ThreadInv, Stage, Agree
  <2>3. ThreadInv'
    BY <1>2, <2>1 DEF TypeOK, UsbCommand, ThreadState, Undisturbed, ThreadInv, PendingInv
  <2>4. PendingInv'
    BY <1>2, <2>1 DEF TypeOK, UsbCommand, ThreadState, Undisturbed, PendingInv, ThreadInv
  <2>5. VerdictInv'
    BY <1>2, <2>1 DEF TypeOK, UsbCommand, ThreadState, ApplySteps, Undisturbed,
       VerdictInv, ThreadInv
  <2> QED BY <2>2, <2>3, <2>4, <2>5 DEF Undisturbed
<1> QED BY <1>1, <1>2 DEF IInv

\* One step of apply_target: the types, and what has been done so far.
LEMMA ApplyEffect ==
  ASSUME TypeOK, NEW pc \in ApplySteps, NEW mac \in MaybeAddr, ApplyStep(pc, mac)
  PROVE  /\ main' \in [mac : MaybeAddr, active : BOOLEAN]
         /\ fol' \in [lo : MaybeAddr, hi : MaybeAddr, active : BOOLEAN]
         /\ pc # "main on" => NextApplyStep(pc) \in ApplySteps
         /\ Stage(pc, mac) /\ pc = "main on" => Agree'
         /\ Stage(pc, mac) /\ pc # "main on" => Stage(NextApplyStep(pc), mac)'
<1> USE DEF ApplyStep
<1>1. main' \in [mac : MaybeAddr, active : BOOLEAN]
  BY DEF TypeOK
<1>2. fol' \in [lo : MaybeAddr, hi : MaybeAddr, active : BOOLEAN]
  BY DEF TypeOK
<1>3. pc # "main on" => NextApplyStep(pc) \in ApplySteps
  BY DEF ApplySteps, NextApplyStep
<1>4. Stage(pc, mac) /\ pc = "main on" => Agree'
  BY DEF TypeOK, Stage, Agree
<1>5. Stage(pc, mac) /\ pc # "main on" => Stage(NextApplyStep(pc), mac)'
  <2> SUFFICES ASSUME Stage(pc, mac), pc # "main on"
               PROVE  Stage(NextApplyStep(pc), mac)'
    OBVIOUS
  <2>1. CASE pc = "fol lo"
    BY <2>1 DEF TypeOK, Stage, NextApplyStep
  <2>2. CASE pc = "fol hi"
    BY <2>2 DEF TypeOK, Stage, NextApplyStep
  <2>3. CASE pc = "fol on"
    BY <2>3 DEF TypeOK, Stage, NextApplyStep
  <2>4. CASE pc = "main off"
    BY <2>4 DEF TypeOK, Stage, NextApplyStep
  <2>5. CASE pc = "main mac"
    BY <2>5 DEF TypeOK, Stage, NextApplyStep
  <2> QED BY <2>1, <2>2, <2>3, <2>4, <2>5 DEF ApplySteps
<1> QED BY <1>1, <1>2, <1>3, <1>4, <1>5

LEMMA UsbApplyKeeps == IInv /\ UsbApply => IInv'
<1> SUFFICES ASSUME IInv, UsbApply PROVE IInv'
  OBVIOUS
<1>1. /\ usb.pc \in ApplySteps /\ ApplyStep(usb.pc, usb.mac)
      /\ usb' = IF usb.pc = "main on" THEN NoCommand
                ELSE [usb EXCEPT !.pc = NextApplyStep(usb.pc)]
      /\ UNCHANGED <<irk, cache, cursor, thr, turn, past>>
  BY DEF UsbApply, IInv, TypeOK, UsbCommand
<1>2. usb \in UsbCommand /\ usb.mac \in MaybeAddr
  BY DEF IInv, TypeOK, UsbCommand
<1>0. PICK pc \in ApplySteps, mac \in MaybeAddr :
        pc = usb.pc /\ mac = usb.mac /\ ApplyStep(pc, mac)
  BY <1>1, <1>2
<1>3. /\ usb.pc = "main on" => usb'.pc = "idle" /\ usb' \in UsbCommand
      /\ usb.pc # "main on" =>
           /\ usb'.pc = NextApplyStep(usb.pc) /\ usb'.pc \in ApplySteps
           /\ usb'.mac = usb.mac /\ usb' \in UsbCommand
  BY <1>0, <1>1, <1>2, ApplyEffect DEF IInv, NoCommand, UsbCommand, UsbSteps, MaybeAddr, MaybeKey
<1>4. TypeOK'
  BY <1>0, <1>1, <1>2, <1>3, ApplyEffect DEF IInv, TypeOK
<1>5. ASSUME ~past'.disturbed PROVE Undisturbed'
  <2>1. Undisturbed /\ thr.pc \in {"idle", "scan"}
    BY <1>1, <1>5 DEF IInv, Undisturbed, ThreadInv, ApplySteps
  <2>2. AgreeInv'
    <3>1. CASE usb.pc = "main on"
      <4>1. Agree' /\ usb'.pc = "idle"
        BY <1>0, <1>3, <2>1, <3>1, ApplyEffect DEF IInv, Undisturbed, AgreeInv
      <4> QED BY <1>1, <2>1, <4>1 DEF AgreeInv, Stage, ApplySteps
    <3>2. CASE usb.pc # "main on"
      <4>1. Stage(NextApplyStep(pc), mac)'
        BY <1>0, <2>1, <3>2, ApplyEffect DEF IInv, Undisturbed, AgreeInv
      <4>2. usb'.pc \in ApplySteps /\ usb'.pc = NextApplyStep(pc) /\ usb'.mac = mac
        BY <1>0, <1>1, <1>3, <3>2
      <4> QED BY <1>1, <2>1, <4>1, <4>2 DEF AgreeInv, Stage, ApplySteps
    <3> QED BY <3>1, <3>2
  <2>3. ThreadInv' /\ PendingInv' /\ VerdictInv'
    BY <1>1, <1>3, <2>1 DEF Undisturbed, ThreadInv, PendingInv, VerdictInv, ApplySteps
  <2> QED BY <2>2, <2>3 DEF Undisturbed
<1> QED BY <1>4, <1>5 DEF IInv

LEMMA ThrApplyKeeps == IInv /\ ThrApply => IInv'
<1> SUFFICES ASSUME IInv, ThrApply PROVE IInv'
  OBVIOUS
<1>1. /\ usb.pc = "idle" /\ thr.pc \in ApplySteps /\ ApplyStep(thr.pc, thr.addr)
      /\ thr' = IF thr.pc = "main on" THEN Scan(1)
                ELSE [thr EXCEPT !.pc = NextApplyStep(thr.pc)]
      /\ UNCHANGED <<irk, cache, cursor, usb, turn, past>>
  BY DEF ThrApply, IInv, TypeOK, ThreadState
<1>2. thr \in ThreadState /\ thr.addr \in MaybeAddr
  BY DEF IInv, TypeOK, ThreadState
<1>0. PICK pc \in ApplySteps, mac \in MaybeAddr :
        pc = thr.pc /\ mac = thr.addr /\ ApplyStep(pc, mac)
  BY <1>1, <1>2
<1>3. /\ thr.pc = "main on" => thr'.pc = "scan" /\ thr' \in ThreadState
      /\ thr.pc # "main on" =>
           /\ thr'.pc = NextApplyStep(thr.pc) /\ thr'.pc \in ApplySteps
           /\ thr'.addr = thr.addr /\ thr' \in ThreadState
  <2>1. CASE thr.pc = "main on"
    BY <1>1, <2>1, FirstEntry, Typed DEF Scan, Idle
  <2>2. CASE thr.pc # "main on"
    BY <1>0, <1>1, <1>2, <2>2, ApplyEffect DEF IInv, ThreadState, ThrSteps
  <2> QED BY <2>1, <2>2
<1>4. TypeOK'
  BY <1>0, <1>1, <1>2, <1>3, ApplyEffect DEF IInv, TypeOK
<1>5. ASSUME ~past'.disturbed PROVE Undisturbed'
  <2>1. Undisturbed /\ irk.on
    BY <1>1, <1>5 DEF IInv, Undisturbed, ThreadInv, ApplySteps
  <2>2. AgreeInv'
    <3>1. CASE thr.pc = "main on"
      <4>1. Agree' /\ thr'.pc = "scan"
        BY <1>0, <1>3, <2>1, <3>1, ApplyEffect DEF IInv, Undisturbed, AgreeInv
      <4> QED BY <1>1, <2>1, <4>1 DEF AgreeInv, Stage, ApplySteps
    <3>2. CASE thr.pc # "main on"
      <4>1. Stage(NextApplyStep(pc), mac)'
        BY <1>0, <2>1, <3>2, ApplyEffect DEF IInv, Undisturbed, AgreeInv
      <4>2. thr'.pc \in ApplySteps /\ thr'.pc = NextApplyStep(pc) /\ thr'.addr = mac
        BY <1>0, <1>1, <1>3, <3>2
      <4> QED BY <1>1, <2>1, <4>1, <4>2 DEF AgreeInv, Stage, ApplySteps
    <3> QED BY <3>1, <3>2
  <2>3. ThreadInv' /\ PendingInv' /\ VerdictInv'
    BY <1>1, <1>3, <2>1 DEF Undisturbed, ThreadInv, PendingInv, VerdictInv, ApplySteps
  <2> QED BY <2>2, <2>3 DEF Undisturbed
<1> QED BY <1>4, <1>5 DEF IInv

LEMMA SetTargetKeeps ==
  ASSUME IInv, NEW mac \in Named, SetTarget(mac)
  PROVE  IInv'
<1>1. /\ usb.pc = "idle" /\ ~past.disturbed
      /\ usb' = [pc |-> "fol lo", mac |-> mac, key |-> None]
      /\ past'.disturbed = Disturbs /\ past' \in [disturbed : BOOLEAN, displaced : BOOLEAN]
      /\ UNCHANGED <<main, fol, irk, cache, cursor, thr, turn>>
  BY DEF SetTarget, Command, Disturbs, IInv, TypeOK
<1>2. usb' \in UsbCommand
  BY <1>1, FilterAssumption DEF UsbCommand, UsbSteps, ApplySteps, MaybeAddr, MaybeKey
<1>3. TypeOK'
  BY <1>1, <1>2 DEF IInv, TypeOK
<1>4. ASSUME ~past'.disturbed PROVE Undisturbed'
  <2>1. Undisturbed /\ thr.pc \in {"idle", "scan"}
    BY <1>1, <1>4 DEF IInv, Disturbs
  <2>2. AgreeInv'
    BY <1>1, <2>1 DEF Undisturbed, AgreeInv, Stage, Agree, ApplySteps
  <2>3. ThreadInv' /\ PendingInv' /\ VerdictInv'
    BY <1>1, <2>1 DEF Undisturbed, ThreadInv, PendingInv, VerdictInv
  <2> QED BY <2>2, <2>3 DEF Undisturbed
<1> QED BY <1>3, <1>4 DEF IInv

LEMMA SetIrkKeeps ==
  ASSUME IInv, NEW key \in MaybeKey, SetIrk(key)
  PROVE  IInv'
<1>1. /\ usb.pc = "idle" /\ ~past.disturbed
      /\ usb' = [pc |-> "irk off", mac |-> None, key |-> key]
      /\ past'.disturbed = Disturbs /\ past' \in [disturbed : BOOLEAN, displaced : BOOLEAN]
      /\ UNCHANGED <<main, fol, irk, cache, cursor, thr, turn>>
  BY DEF SetIrk, Command, Disturbs, IInv, TypeOK
<1>2. usb' \in UsbCommand
  BY <1>1, FilterAssumption DEF UsbCommand, UsbSteps, ApplySteps, MaybeAddr, MaybeKey
<1>3. TypeOK'
  BY <1>1, <1>2 DEF IInv, TypeOK
<1>4. ASSUME ~past'.disturbed PROVE Undisturbed'
  <2>1. Undisturbed /\ thr.pc \in {"idle", "scan"}
    BY <1>1, <1>4 DEF IInv, Disturbs
  <2>2. AgreeInv'
    BY <1>1, <2>1 DEF Undisturbed, AgreeInv, Stage, Agree, ApplySteps
  <2>3. ThreadInv' /\ PendingInv' /\ VerdictInv'
    BY <1>1, <2>1 DEF Undisturbed, ThreadInv, PendingInv, VerdictInv
  <2> QED BY <2>2, <2>3 DEF Undisturbed
<1> QED BY <1>3, <1>4 DEF IInv

\* Reusing the entry the thread is writing is a disturbance.
LEMMA HearKeeps ==
  ASSUME IInv, NEW a \in Rpas, Hear(a)
  PROVE  IInv'
<1>1. /\ irk.on
      /\ cache' = [cache EXCEPT ![cursor] = [addr |-> a, state |-> "PENDING"]]
      /\ cursor' = CursorAfter(cursor)
      /\ past' = [past EXCEPT !.disturbed =
                    past.disturbed \/ (thr.pc = "write" /\ thr.i = cursor)]
      /\ UNCHANGED <<main, fol, irk, usb, thr, turn>>
  BY DEF Hear, Record, IInv, TypeOK
<1>2. cursor \in Entries /\ cursor' \in Entries
  <2>1. cursor \in Entries /\ Size \in Nat \ {0}
    BY FilterAssumption DEF IInv, TypeOK
  <2>2. (cursor % Size) + 1 \in 1..Size
    BY <2>1 DEF Entries
  <2> QED BY <1>1, <2>1, <2>2 DEF CursorAfter, Entries
<1>3. TypeOK'
  <2>1. cache' \in [Entries -> Entry]
    BY <1>1, <1>2 DEF IInv, TypeOK, Entry
  <2>2. past' \in [disturbed : BOOLEAN, displaced : BOOLEAN]
    BY <1>1 DEF IInv, TypeOK
  <2> QED BY <1>1, <1>2, <2>1, <2>2 DEF IInv, TypeOK
<1>4. ASSUME ~past'.disturbed PROVE Undisturbed'
  <2>1. Undisturbed /\ ~(thr.pc = "write" /\ thr.i = cursor)
    BY <1>1, <1>4 DEF IInv, TypeOK
  <2>2. AgreeInv' /\ ThreadInv' /\ PendingInv'
    BY <1>1, <2>1 DEF Undisturbed, AgreeInv, ThreadInv, PendingInv, Stage, Agree
  <2>3. VerdictInv'
    <3>1. cache'[cursor].state = "PENDING"
      BY <1>1, <1>2 DEF IInv, TypeOK
    <3>2. \A i \in Entries \ {cursor} : cache'[i] = cache[i]
      BY <1>1 DEF IInv, TypeOK
    <3>3. usb.pc # "irk copy"
      BY <1>1, <2>1 DEF Undisturbed, PendingInv
    <3>4. thr.i \in Entries
      BY DEF IInv, TypeOK, ThreadState
    <3> QED BY <1>1, <2>1, <3>1, <3>2, <3>3, <3>4 DEF Undisturbed, VerdictInv
  <2> QED BY <2>2, <2>3 DEF Undisturbed
<1> QED BY <1>3, <1>4 DEF IInv

----------------------------------------------------------------------------

LEMMA NextKeeps == IInv /\ [Next]_vars => IInv'
<1> SUFFICES ASSUME IInv, [Next]_vars PROVE IInv'
  OBVIOUS
<1>1. CASE \E a \in Rpas : Hear(a)
  BY <1>1, HearKeeps
<1>2. CASE NewAddress
  BY <1>2, NewAddressKeeps
<1>3. CASE \E mac \in Named : SetTarget(mac)
  BY <1>3, SetTargetKeeps
<1>4. CASE CancelTarget
  BY <1>4, CancelTargetKeeps
<1>5. CASE \E key \in Irks \cup {None} : SetIrk(key)
  BY <1>5, SetIrkKeeps DEF MaybeKey
<1>6. CASE Usb
  BY <1>6, UsbApplyKeeps, UsbClearKeeps, UsbIrkOffKeeps, UsbResetKeeps, UsbIrkCopyKeeps,
     UsbIrkOnKeeps DEF Usb
<1>7. CASE Thread
  BY <1>7, ThrBeginKeeps, ThrScanKeeps, ThrPickKeeps, ThrComputeKeeps, ThrCheckKeeps,
     ThrWriteKeeps, ThrJudgeKeeps, ThrApplyKeeps DEF Thread
<1>8. CASE UNCHANGED vars
  <2>1. TypeOK'
    BY <1>8 DEF vars, IInv, TypeOK
  <2>2. AgreeInv => AgreeInv'
    BY <1>8 DEF vars, AgreeInv, Stage, Agree
  <2>3. ThreadInv /\ PendingInv /\ VerdictInv => ThreadInv' /\ PendingInv' /\ VerdictInv'
    BY <1>8 DEF vars, ThreadInv, PendingInv, VerdictInv
  <2> QED BY <1>8, <2>1, <2>2, <2>3 DEF vars, IInv, Undisturbed
<1> QED BY <1>1, <1>2, <1>3, <1>4, <1>5, <1>6, <1>7, <1>8 DEF Next

\* In every reachable state the invariant holds.
THEOREM InvariantHolds == Spec => []IInv
BY InitInv, NextKeeps, PTL DEF Spec

\* Addresses, keys, entries and steps have their types, and the cache's
\* cursor stays within it.
THEOREM TypeCorrect == Spec => []TypeOK
<1>1. IInv => TypeOK
  BY DEF IInv
<1> QED BY <1>1, InvariantHolds, PTL

\* Whatever the receive interrupt and the capture thread do between the
\* stores of apply_target, filter and follower have the same target again
\* when it returns.
THEOREM OneTarget == Spec => []TargetsAgree
<1>1. IInv => TargetsAgree
  BY DEF IInv, Undisturbed, AgreeInv, TargetsAgree, Quiet, ApplySteps
<1> QED BY <1>1, InvariantHolds, PTL

\* No verdict of an earlier IRK survives in the cache, and none is written for
\* another address than the one resolved (resolve_pending_rpas).
THEOREM VerdictsAreRight == Spec => []VerdictIsRight
<1>1. IInv => VerdictIsRight
  BY DEF IInv, Undisturbed, VerdictInv, VerdictIsRight
<1> QED BY <1>1, InvariantHolds, PTL

\* The thread cannot bring back a target after it was cancelled: it holds
\* none whose IRK is not in force.
THEOREM CancelledStaysAway == Spec => CancelSticks
<1> DEFINE A == ~main.active /\ main.active' /\ ~past.disturbed =>
                  usb.pc = "main on" \/ irk.on
<1>1. IInv /\ [Next]_vars => [A]_vars
  <2> SUFFICES ASSUME IInv, Next, ~main.active, main.active', ~past.disturbed
               PROVE  usb.pc = "main on" \/ irk.on
    BY DEF vars
  <2>1. ThreadInv /\ main \in [mac : MaybeAddr, active : BOOLEAN]
    BY DEF IInv, TypeOK, Undisturbed
  <2>2. UsbApply \/ ThrApply \/ UsbClear \/ UNCHANGED main
    BY DEF Next, Usb, Thread, Hear, NewAddress, SetTarget, CancelTarget, SetIrk, Command,
           UsbIrkOff, UsbReset, UsbIrkCopy, UsbIrkOn, ThrBegin, ThrScan, ThrPick,
           ThrCompute, ThrCheck, ThrWrite, ThrJudge
  <2>3. CASE UsbApply
    BY <2>1, <2>3 DEF UsbApply, ApplyStep
  <2>4. CASE ThrApply
    BY <2>1, <2>4 DEF ThrApply, ThreadInv, ApplySteps
  <2>5. CASE UsbClear
    BY <2>1, <2>5 DEF UsbClear
  <2> QED BY <2>2, <2>3, <2>4, <2>5
<1> QED BY <1>1, InvariantHolds, PTL DEF Spec, CancelSticks
=============================================================================
