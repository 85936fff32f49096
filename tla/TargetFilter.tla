----------------------------- MODULE TargetFilter -----------------------------
(***************************************************************************)
(* The target's identity (main.c, rpa_resolve.h): the address the receive  *)
(* filter lets through, the address the follower follows, and the IRK by   *)
(* which the target is recognised when it changes its address.             *)
(*                                                                         *)
(* Three contexts share this state without a lock.  The receive interrupt  *)
(* preempts all (Hear, one step).  A USB command preempts the capture      *)
(* thread and runs to its end before the thread goes on, the interrupt in  *)
(* between its steps.  The capture thread resolves pending addresses.      *)
(***************************************************************************)
EXTENDS Integers, Sequences

CONSTANTS
  Rpas,       \* resolvable private addresses in earshot
  Statics,    \* addresses that are not resolvable
  Named,      \* addresses the host may name
  Irks,       \* keys the host may set
  Key,        \* Key[a]: the IRK that resolves the address a
  Own,        \* the addresses the target device takes, one after the other
  Size,       \* RPA_CACHE_SIZE
  None

Addrs == Rpas \cup Statics

ASSUME FilterAssumption ==
  /\ Rpas \cap Statics = {} /\ None \notin Addrs /\ None \notin Irks
  /\ Named \subseteq Addrs
  /\ Key \in [Rpas -> Irks]
  /\ Own \in Seq(Rpas) /\ Len(Own) > 0
  /\ Size \in Nat \ {0}

VARIABLES
  main,    \* target_mac, target_active
  fol,     \* f.target_mac, copied bytewise (its first and last bytes), f.target_active
  irk,     \* target_irk, irk_active
  cache,   \* rpa_cache.e
  cursor,  \* rpa_cache.next
  usb,     \* the host command under way: its next step and its argument
  thr,     \* resolve_pending_rpas: its next step and its locals
  turn,    \* the target device uses Own[turn]
  past     \* history, for the properties only:
           \*   disturbed: a command came while the thread held an address, or
           \*     the interrupt reused the entry it was writing
           \*   displaced: the host named an address while the IRK was set, or
           \*     the device changed an address that was not resolved yet

vars == <<main, fol, irk, cache, cursor, usb, thr, turn, past>>

Entries == 1..Size
NoCommand == [pc |-> "idle", mac |-> None, key |-> None]

\* The thread outside its loop, and in it looking at entry i.
Idle == [pc |-> "idle", i |-> 1, addr |-> None, key |-> None, matched |-> FALSE]
Scan(i) == [Idle EXCEPT !.pc = "scan", !.i = i]

Empty == [addr |-> None, state |-> "UNKNOWN"]

\* rpa_matches_irk
Resolves(key, a) == a \in Rpas /\ key = Key[a]

----------------------------------------------------------------------------
(* apply_target(mac), a step for each store another context may come       *)
(* before: the follower's bytes and its flag, then main's flag, bytes and  *)
(* flag again.                                                             *)

ApplySteps == {"fol lo", "fol hi", "fol on", "main off", "main mac", "main on"}

NextApplyStep(step) ==
  CASE step = "fol lo" -> "fol hi"
    [] step = "fol hi" -> "fol on"
    [] step = "fol on" -> "main off"
    [] step = "main off" -> "main mac"
    [] step = "main mac" -> "main on"

ApplyStep(step, mac) ==
  /\ fol' = CASE step = "fol lo" -> [fol EXCEPT !.lo = mac]
              [] step = "fol hi" -> [fol EXCEPT !.hi = mac]
              [] step = "fol on" -> [fol EXCEPT !.active = TRUE]
              [] OTHER -> fol
  /\ main' = CASE step = "main off" -> [main EXCEPT !.active = FALSE]
               [] step = "main mac" -> [main EXCEPT !.mac = mac]
               [] step = "main on" -> [main EXCEPT !.active = TRUE]
               [] OTHER -> main

Init ==
  /\ main = [mac |-> None, active |-> FALSE]
  /\ fol = [lo |-> None, hi |-> None, active |-> FALSE]
  /\ irk = [key |-> None, on |-> FALSE]
  /\ cache = [i \in Entries |-> Empty]
  /\ cursor = 1
  /\ usb = NoCommand
  /\ thr = Idle
  /\ turn = 1
  /\ past = [disturbed |-> FALSE, displaced |-> FALSE]

----------------------------------------------------------------------------
(* The receive interrupt.                                                  *)

\* Mutation: the cursor does not wrap.
CursorAfterNoWrap(i) == i + 1

CursorAfter(i) == (i % Size) + 1

Known(a) == \E i \in Entries : cache[i].state # "UNKNOWN" /\ cache[i].addr = a

\* rpa_cache_lookup of an address never seen
Record(a) ==
  /\ cache' = [cache EXCEPT ![cursor] = [addr |-> a, state |-> "PENDING"]]
  /\ cursor' = CursorAfter(cursor)
  /\ past' = [past EXCEPT !.disturbed = @ \/ (thr.pc = "write" /\ thr.i = cursor)]

InEarshot(a) == (\E n \in DOMAIN Own : Own[n] = a) => Own[turn] = a

\* adv_pdu_is_target of a PDU from a, where it looks into the cache
Hear(a) ==
  /\ InEarshot(a) /\ irk.on /\ a \in Rpas
  /\ ~(main.active /\ main.mac = a)
  /\ ~Known(a)
  /\ Record(a)
  /\ UNCHANGED <<main, fol, irk, usb, thr, turn>>

Unresolved(a) ==
  \/ \E i \in Entries : cache[i] = [addr |-> a, state |-> "PENDING"]
  \/ thr.addr = a

\* The device takes its next address; it does not come back to an old one.
NewAddress ==
  /\ turn < Len(Own) /\ turn' = turn + 1
  /\ past' = [past EXCEPT !.displaced = @ \/ Unresolved(Own[turn])]
  /\ UNCHANGED <<main, fol, irk, cache, cursor, usb, thr>>

----------------------------------------------------------------------------
(* The host's commands.                                                    *)

\* The bound: of a history already set aside nothing more is asked.
Command(pc, mac, key) ==
  /\ usb.pc = "idle" /\ ~past.disturbed
  /\ usb' = [pc |-> pc, mac |-> mac, key |-> key]
  /\ UNCHANGED <<main, fol, irk, cache, cursor, thr, turn>>

Disturbs == thr.pc \notin {"idle", "scan"}

SetTarget(mac) ==
  /\ Command("fol lo", mac, None)
  /\ past' = [disturbed |-> Disturbs, displaced |-> irk.on]

\* Mutation: the follower keeps its target.
CancelTargetMainOnly ==
  /\ Command("main clear", None, None)
  /\ past' = [disturbed |-> Disturbs, displaced |-> FALSE]

CancelTarget ==
  /\ Command("fol clear", None, None)
  /\ past' = [disturbed |-> Disturbs, displaced |-> FALSE]

SetIrk(key) ==
  /\ Command("irk off", None, key)
  /\ past' = [disturbed |-> Disturbs, displaced |-> FALSE]

UsbApply ==
  /\ usb.pc \in ApplySteps
  /\ ApplyStep(usb.pc, usb.mac)
  /\ usb' = IF usb.pc = "main on" THEN NoCommand ELSE [usb EXCEPT !.pc = NextApplyStep(@)]
  /\ UNCHANGED <<irk, cache, cursor, thr, turn, past>>

\* apply_target(NULL); "cancel target" clears the IRK as well
UsbClear ==
  /\ usb.pc \in {"fol clear", "main clear"}
  /\ IF usb.pc = "fol clear"
     THEN fol' = [fol EXCEPT !.active = FALSE] /\ UNCHANGED main
     ELSE main' = [main EXCEPT !.active = FALSE] /\ UNCHANGED fol
  /\ usb' = [usb EXCEPT !.pc = IF @ = "fol clear" THEN "main clear" ELSE "irk off"]
  /\ UNCHANGED <<irk, cache, cursor, thr, turn, past>>

UsbIrkOff ==
  /\ usb.pc = "irk off"
  /\ irk' = [irk EXCEPT !.on = FALSE]
  /\ usb' = [usb EXCEPT !.pc = "reset"]
  /\ UNCHANGED <<main, fol, cache, cursor, thr, turn, past>>

\* Mutation: what the old IRK resolved stays in the cache.
UsbResetCursor ==
  /\ usb.pc = "reset"
  /\ cursor' = 1
  /\ usb' = IF usb.key = None THEN NoCommand ELSE [usb EXCEPT !.pc = "irk copy"]
  /\ UNCHANGED <<main, fol, irk, cache, thr, turn, past>>

\* rpa_cache_reset
UsbReset ==
  /\ usb.pc = "reset"
  /\ cache' = [i \in Entries |-> Empty]
  /\ cursor' = 1
  /\ usb' = IF usb.key = None THEN NoCommand ELSE [usb EXCEPT !.pc = "irk copy"]
  /\ UNCHANGED <<main, fol, irk, thr, turn, past>>

UsbIrkCopy ==
  /\ usb.pc = "irk copy"
  /\ irk' = [irk EXCEPT !.key = usb.key]
  /\ usb' = [usb EXCEPT !.pc = "irk on"]
  /\ UNCHANGED <<main, fol, cache, cursor, thr, turn, past>>

UsbIrkOn ==
  /\ usb.pc = "irk on"
  /\ irk' = [irk EXCEPT !.on = TRUE]
  /\ usb' = NoCommand
  /\ UNCHANGED <<main, fol, cache, cursor, thr, turn, past>>

----------------------------------------------------------------------------
(* The capture thread: resolve_pending_rpas.                               *)

\* The flag is tested once; the loop goes on until a pass over the entries
\* finds none pending.
ThrBegin ==
  /\ usb.pc = "idle" /\ thr.pc = "idle"
  /\ irk.on
  /\ thr' = Scan(1)
  /\ UNCHANGED <<main, fol, irk, cache, cursor, usb, turn, past>>

ThrScan ==
  /\ usb.pc = "idle" /\ thr.pc = "scan"
  /\ cache[thr.i].state # "PENDING"
  /\ thr' = IF thr.i = Size THEN Idle ELSE Scan(thr.i + 1)
  /\ UNCHANGED <<main, fol, irk, cache, cursor, usb, turn, past>>

ThrPick ==
  /\ usb.pc = "idle" /\ thr.pc = "scan"
  /\ cache[thr.i].state = "PENDING"
  /\ thr' = [thr EXCEPT !.pc = "compute", !.addr = cache[thr.i].addr, !.key = irk.key]
  /\ UNCHANGED <<main, fol, irk, cache, cursor, usb, turn, past>>

\* The AES reads the key at some time between the pick and the verdict.
ThrCompute ==
  /\ usb.pc = "idle" /\ thr.pc = "compute"
  /\ \E key \in {thr.key, irk.key} :
       thr' = [thr EXCEPT !.pc = "check", !.key = None, !.matched = Resolves(key, thr.addr)]
  /\ UNCHANGED <<main, fol, irk, cache, cursor, usb, turn, past>>

\* "only write the result back if it is still the same address"
ThrCheck ==
  /\ usb.pc = "idle" /\ thr.pc = "check"
  /\ thr' = [thr EXCEPT !.pc =
               IF cache[thr.i] = [addr |-> thr.addr, state |-> "PENDING"]
               THEN "write" ELSE "judge"]
  /\ UNCHANGED <<main, fol, irk, cache, cursor, usb, turn, past>>

ThrWrite ==
  /\ usb.pc = "idle" /\ thr.pc = "write"
  /\ cache' = [cache EXCEPT ![thr.i].state = IF thr.matched THEN "MATCH" ELSE "NOMATCH"]
  /\ thr' = [thr EXCEPT !.pc = "judge"]
  /\ UNCHANGED <<main, fol, irk, cursor, usb, turn, past>>

\* Mutation: only a board without a target takes one.
ThrJudgeFirstOnly ==
  /\ usb.pc = "idle" /\ thr.pc = "judge"
  /\ thr' = IF thr.matched /\ ~main.active THEN [thr EXCEPT !.pc = "fol lo"] ELSE Scan(1)
  /\ UNCHANGED <<main, fol, irk, cache, cursor, usb, turn, past>>

ThrJudge ==
  /\ usb.pc = "idle" /\ thr.pc = "judge"
  /\ thr' = IF thr.matched /\ ~(main.active /\ main.mac = thr.addr)
            THEN [thr EXCEPT !.pc = "fol lo"] ELSE Scan(1)
  /\ UNCHANGED <<main, fol, irk, cache, cursor, usb, turn, past>>

ThrApply ==
  /\ usb.pc = "idle" /\ thr.pc \in ApplySteps
  /\ ApplyStep(thr.pc, thr.addr)
  /\ thr' = IF thr.pc = "main on" THEN Scan(1) ELSE [thr EXCEPT !.pc = NextApplyStep(@)]
  /\ UNCHANGED <<irk, cache, cursor, usb, turn, past>>

----------------------------------------------------------------------------

Usb == UsbApply \/ UsbClear \/ UsbIrkOff \/ UsbReset \/ UsbIrkCopy \/ UsbIrkOn

Thread ==
  \/ ThrBegin \/ ThrScan \/ ThrPick \/ ThrCompute \/ ThrCheck \/ ThrWrite \/ ThrJudge \/ ThrApply

Next ==
  \/ \E a \in Rpas : Hear(a)
  \/ NewAddress
  \/ \E mac \in Named : SetTarget(mac)
  \/ CancelTarget
  \/ \E key \in Irks \cup {None} : SetIrk(key)
  \/ Usb
  \/ Thread

Spec == Init /\ [][Next]_vars

\* Commands end, the capture thread runs on (it wakes every 50 ms and is
\* preempted for a while only), the target device goes on advertising.
Fairness ==
  /\ WF_vars(Usb) /\ SF_vars(Thread)
  /\ \A n \in DOMAIN Own : SF_vars(turn = n /\ Hear(Own[n]))

LiveSpec == Spec /\ Fairness

----------------------------------------------------------------------------

MaybeAddr == Addrs \cup {None}
MaybeKey == Irks \cup {None}

Entry == [addr : Rpas \cup {None}, state : {"UNKNOWN", "PENDING", "MATCH", "NOMATCH"}]

UsbSteps ==
  ApplySteps \cup {"idle", "fol clear", "main clear", "irk off", "reset", "irk copy", "irk on"}

ThrSteps ==
  ApplySteps \cup {"idle", "scan", "compute", "check", "write", "judge"}

UsbCommand == [pc : UsbSteps, mac : MaybeAddr, key : MaybeKey]

ThreadState ==
  [pc : ThrSteps, i : Entries, addr : MaybeAddr, key : MaybeKey, matched : BOOLEAN]

TypeOK ==
  /\ main \in [mac : MaybeAddr, active : BOOLEAN]
  /\ fol \in [lo : MaybeAddr, hi : MaybeAddr, active : BOOLEAN]
  /\ irk \in [key : MaybeKey, on : BOOLEAN]
  /\ cache \in [Entries -> Entry]
  /\ cursor \in Entries
  /\ usb \in UsbCommand
  /\ thr \in ThreadState
  /\ turn \in DOMAIN Own
  /\ past \in [disturbed : BOOLEAN, displaced : BOOLEAN]

Quiet == usb.pc = "idle" /\ thr.pc \notin ApplySteps

Agree ==
  /\ main.active = fol.active
  /\ main.active => fol.lo = main.mac /\ fol.hi = main.mac

\* What the filter lets through is what the follower follows: "applies to
\* both the follower filter and the RX-interrupt advertising filter"
\* (main.c:113), a command while the thread held an address set aside.
TargetsAgree == Quiet /\ ~past.disturbed => Agree

\* The same, whenever the commands come.
TargetsAlwaysAgree == Quiet => Agree

\* A verdict in the cache is that of the IRK now set (rpa_resolve.h: "resolves
\* with the current IRK", "only write the result back if it is still the
\* same address").
VerdictIsRight ==
  usb.pc = "idle" /\ irk.on /\ ~past.disturbed =>
    \A i \in Entries :
      /\ cache[i].state = "MATCH" => Resolves(irk.key, cache[i].addr)
      /\ cache[i].state = "NOMATCH" => ~Resolves(irk.key, cache[i].addr)

\* A target that was cancelled does not come back by itself: only the host
\* names one, or the IRK it has set and not cleared (host_iface.h:
\* "HOST_CMD_SET_TARGET with all zeros clears the IRK as well").
CancelSticks ==
  [][~main.active /\ main.active' /\ ~past.disturbed =>
       usb.pc = "main on" \/ irk.on]_vars

\* "A privacy device is not lost when it changes address" (host_iface.h): the
\* address it uses becomes the target of both, if it did not change again
\* before that, the host did not name another since, and fewer addresses are
\* in earshot than the cache has entries.
TargetTracksRpa ==
  \A n \in DOMAIN Own :
    (turn = n /\ irk.on /\ Resolves(irk.key, Own[n])) ~>
      \/ Agree /\ main.active /\ main.mac = Own[n]
      \/ turn # n \/ ~irk.on \/ ~Resolves(irk.key, Own[n])
      \/ past.disturbed \/ past.displaced

\* The same, when it changes its address again at any time.
PrivacyDeviceKept ==
  \A n \in DOMAIN Own :
    (turn = n /\ irk.on /\ Resolves(irk.key, Own[n])) ~>
      \/ Agree /\ main.active /\ main.mac = Own[n]
      \/ turn # n \/ ~irk.on \/ ~Resolves(irk.key, Own[n])
      \/ past.disturbed
=============================================================================
