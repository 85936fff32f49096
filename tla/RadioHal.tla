------------------------------- MODULE RadioHal -------------------------------
(***************************************************************************)
(* The radio HAL (radio_nrf52.c, radio_nrf54l.c): the receiver, its double *)
(* buffer and its two PHYs, and the one-shot timer line of radio_sched_at. *)
(*                                                                         *)
(* The receive, timer and kick handlers have one priority: a handler is    *)
(* never interrupted by another, but hardware goes on while it runs (the   *)
(* receive handler takes two steps, the packet callback being the second). *)
(* USB commands and the main thread run below them, a few accesses at a    *)
(* time, and only while no handler is pending.                             *)
(*                                                                         *)
(* What the callbacks decide is the follower's affair: here they retune    *)
(* the receiver and schedule in every way conn_follower.c does.            *)
(***************************************************************************)
EXTENDS Integers

CONSTANTS
  Chips,      \* subset of {"nrf52", "nrf54l"}
  CentralPhys, PeripheralPhys,   \* PHYs a link may use in either direction
  Horizon,    \* a callback is scheduled at most this many ticks ahead
  Commands    \* of the host: subset of {"start", "stop"}

ASSUME HalAssumption ==
  /\ Chips \subseteq {"nrf52", "nrf54l"}
  /\ Horizon \in Nat \ {0}
  /\ Commands \subseteq {"start", "stop"}

VARIABLES
  chip,
  hw,      \* the RADIO peripheral
  drv,     \* the driver's variables
  busy,    \* the buffer in the packet callback's hands, or NoBuffer
  timer,   \* TIMER1's compare line and sched_cb (its callbacks numbered in turn)
  usb,     \* the host command being executed
  held,    \* the PHY a START has read, or NoPhy
  dog,     \* the main thread is about to re-issue RXEN
  torn,    \* history: a handler stopped or restarted the receiver between two
           \* steps of a command, or it was stopped between the watchdog's two,
           \* and no handler has stopped it while it ran since
  late     \* history: a handler used turn and PHY while a START was about to
           \* set them, and none has set them since

vars == <<chip, hw, drv, busy, timer, usb, held, dog, torn, late>>

NoBuffer == 2
NoPhy == "none"

\* The steps of a START up to which it sets the turn and the PHY.
PhySteps == {"start: buffer", "start: turn", "start: test", "start: mode", "start: note"}

\* Mutation: the index is advanced, not toggled.
NextBuffer(i) == i + 1

OtherBuffer(i) == 1 - i

Off == 0            \* no match lies ahead: the line is disabled, or its time has passed

----------------------------------------------------------------------------
(* The peripheral.                                                         *)

RxEn(h) == IF h.state = "Disabled" THEN [h EXCEPT !.state = "RampUp"] ELSE h

\* TASKS_DISABLE; the driver relies on its event in the Disabled state too.
Disable(h) ==
  IF h.state = "Disabled" THEN [h EXCEPT !.disabled = TRUE]
  ELSE [h EXCEPT !.state = "RampDown"]

RampedDown(h) == [h EXCEPT !.state = "Disabled", !.disabled = TRUE]

\* EVENTS_END, EVENTS_PHYEND: the short to DISABLE; at once on the nRF52.
Ended(h) ==
  LET e == [h EXCEPT !.end = TRUE, !.pending = TRUE]
  IN  CASE ~h.shorts -> [e EXCEPT !.state = "Idle"]
        [] h.shorts /\ chip = "nrf52" -> RampedDown(e)
        [] OTHER -> [e EXCEPT !.state = "RampDown"]

RampUpDone ==
  /\ hw.state = "RampUp"
  /\ hw' = IF hw.shorts THEN [hw EXCEPT !.state = "Rx", !.dma = hw.ptr]
           ELSE [hw EXCEPT !.state = "Idle"]
  /\ UNCHANGED <<chip, drv, busy, timer, usb, held, dog, torn, late>>

RampDownDone ==
  /\ hw.state = "RampDown"
  /\ hw' = RampedDown(hw)
  /\ UNCHANGED <<chip, drv, busy, timer, usb, held, dog, torn, late>>

PacketEnds ==
  /\ hw.state = "Rx"
  /\ hw' = Ended(hw)
  /\ UNCHANGED <<chip, drv, busy, timer, usb, held, dog, torn, late>>

\* The counter reaches CC[0]: the match reaches the interrupt controller.
Tick ==
  /\ timer.left # Off
  /\ timer' = IF timer.left = 1 THEN [timer EXCEPT !.left = Off, !.pending = TRUE]
              ELSE [timer EXCEPT !.left = @ - 1]
  /\ UNCHANGED <<chip, hw, drv, busy, usb, held, dog, torn, late>>

----------------------------------------------------------------------------
(* The driver's calls, made from a handler: nothing else of the software   *)
(* runs in between.                                                        *)

Mode(d) == IF d.turn % 2 = 1 THEN d.alt ELSE d.primary

\* radio_rx_stop: the wait for DISABLED included
Stopped(h, d) ==
  IF ~d.running THEN h
  ELSE [h EXCEPT !.shorts = FALSE, !.state = "Disabled", !.disabled = FALSE]

\* radio_rx_start of a receiver that is stopped
Started(h) ==
  RxEn([h EXCEPT !.ptr = 0, !.end = FALSE, !.disabled = FALSE, !.shorts = TRUE])

\* radio_set_phy, radio_set_alt_phy, radio_rx_start: the receiver has the
\* primary PHY by then
Restart(d, primary, alt) ==
  [d EXCEPT !.running = TRUE, !.idx = 0, !.turn = 0,
            !.primary = primary, !.alt = alt, !.cur = primary]

\* Mutation: a time already past is left to the compare register.
SchedAtNoFallback(t, left) ==
  [t EXCEPT !.cb = 1 - @, !.armed = TRUE, !.left = left]

\* radio_sched_at; a match that has reached the NVIC stays there
SchedAt(t, left) ==
  [t EXCEPT !.cb = 1 - @, !.armed = TRUE, !.left = left,
            !.pending = @ \/ left = Off]

\* radio_sched_cancel, and what timer1_isr does first.  The compare interrupt
\* is enabled while a callback is armed, and only then.
Disarmed(t) == [t EXCEPT !.armed = FALSE, !.left = Off, !.pending = FALSE]

\* A restart of a running receiver stops it first, and leaves nothing of what
\* was torn.
Retune ==
  /\ \E primary \in CentralPhys, alt \in PeripheralPhys :
       /\ drv' = Restart(drv, primary, alt)
       /\ hw' = Started([Stopped(hw, drv) EXCEPT !.mode = primary])
  /\ torn' = (usb # "idle" \/ (torn /\ ~drv.running))
  /\ late' = (usb \in PhySteps)

\* The next advertising channel: radio_rx_start alone, on a symmetric PHY.
Rotate ==
  /\ drv.running /\ drv.alt = drv.primary
  /\ drv' = Restart(drv, drv.primary, drv.alt)
  /\ LET mode == IF drv.cur # drv.primary THEN drv.primary ELSE hw.mode
     IN  hw' = Started([Stopped(hw, drv) EXCEPT !.mode = mode])
  /\ torn' = (usb # "idle")
  /\ late' = (late \/ usb \in PhySteps)

\* A window is closed and the next opens soon: no scan in between.
Halt ==
  /\ drv' = [drv EXCEPT !.running = FALSE]
  /\ hw' = Stopped(hw, drv)
  /\ torn' = (usb # "idle" \/ dog \/ (torn /\ ~drv.running))
  /\ UNCHANGED late

\* Events start and end here (serve_open, serve_close, enter_scan_radio, the
\* rotation of channels): the receiver is restarted or, until the callback
\* that is scheduled, halted.  Guarding one channel needs no callback.
Serve(t) ==
  \/ Retune /\ timer' = t
  \/ /\ Retune \/ Rotate \/ Halt
     /\ \E left \in 0..Horizon : timer' = SchedAt(t, left)

\* arm_next alone: the receiver stays as it is.
Replan ==
  /\ \E left \in 0..Horizon : timer' = SchedAt(timer, left)
  /\ UNCHANGED <<hw, drv, torn, late>>

----------------------------------------------------------------------------
(* The handlers.                                                           *)

Init ==
  /\ chip \in Chips
  /\ \E p \in CentralPhys :
       /\ hw = [state |-> "RampUp", shorts |-> TRUE, end |-> FALSE, disabled |-> FALSE,
                pending |-> FALSE, ptr |-> 0, dma |-> 0, mode |-> p]
       /\ drv = [running |-> TRUE, idx |-> 0, turn |-> 0, primary |-> p,
                 alt |-> p, cur |-> p]
  /\ busy = NoBuffer
  /\ timer = [cb |-> 0, armed |-> TRUE, left |-> Horizon, pending |-> FALSE]
  /\ usb = "idle" /\ held = NoPhy
  /\ dog = FALSE
  /\ torn = FALSE /\ late = FALSE

\* The PHY of the next packet, applied only when the two differ.
NextPhy(d, old) == IF d.alt # d.primary THEN Mode([d EXCEPT !.turn = @ + 1]) ELSE old

\* Mutation: the buffers are swapped after the packet was handled.
RadioIsrSwapsLate ==
  /\ busy = NoBuffer /\ hw.pending /\ hw.end
  /\ busy' = drv.idx
  /\ drv' = [drv EXCEPT !.turn = (@ + 1) % 2, !.cur = NextPhy(drv, @)]
  /\ LET h == [hw EXCEPT !.pending = FALSE, !.end = FALSE, !.mode = NextPhy(drv, @)]
     IN  hw' = IF drv.running THEN RxEn(h) ELSE h
  /\ late' = (late \/ usb \in PhySteps)
  /\ UNCHANGED <<chip, timer, usb, held, dog, torn>>

\* radio_isr up to the callback.  The nRF54L waits for DISABLED, but not for
\* ever; RXEN is lost on a receiver that is still ramping down.
RadioIsr ==
  /\ busy = NoBuffer /\ hw.pending /\ hw.end
  /\ busy' = drv.idx
  /\ drv' = [drv EXCEPT !.turn = (@ + 1) % 2, !.idx = OtherBuffer(@),
                        !.cur = NextPhy(drv, @)]
  /\ LET h == [hw EXCEPT !.pending = FALSE, !.end = FALSE, !.ptr = OtherBuffer(drv.idx),
                         !.mode = NextPhy(drv, @)]
     IN  \E waited \in {h, IF h.state = "RampDown" THEN RampedDown(h) ELSE h} :
           hw' = CASE ~drv.running -> h
                   [] drv.running /\ chip = "nrf52" -> RxEn(h)
                   [] OTHER -> RxEn([waited EXCEPT !.disabled = FALSE])
  /\ late' = (late \/ usb \in PhySteps)
  /\ UNCHANGED <<chip, timer, usb, held, dog, torn>>

\* A request that its event no longer backs.
RadioIsrSpurious ==
  /\ busy = NoBuffer /\ hw.pending /\ ~hw.end
  /\ hw' = [hw EXCEPT !.pending = FALSE]
  /\ UNCHANGED <<chip, drv, busy, timer, usb, held, dog, torn, late>>

\* packet_cb: the packet is copied before a receiver restarted in here has
\* ramped up.
PacketCb ==
  /\ busy # NoBuffer
  /\ busy' = NoBuffer
  /\ \/ UNCHANGED <<hw, drv, timer, torn, late>>
     \/ Replan
     \/ Serve(timer)
     \/ Serve(Disarmed(timer))
  /\ UNCHANGED <<chip, usb, held, dog>>

\* timer1_isr: an early return on a missing compare event would lose the
\* callbacks whose time had passed when they were scheduled.
TimerIsr ==
  /\ busy = NoBuffer /\ timer.pending
  /\ IF timer.armed THEN Serve(Disarmed(timer))
     ELSE timer' = Disarmed(timer) /\ UNCHANGED <<hw, drv, torn, late>>
  /\ UNCHANGED <<chip, busy, usb, held, dog>>

\* kick_isr: a mailbox is consumed, a slot built (arm_next).
KickIsr ==
  /\ busy = NoBuffer
  /\ Replan \/ Serve(timer)
  /\ UNCHANGED <<chip, busy, usb, held, dog>>

----------------------------------------------------------------------------
(* Below the handlers.                                                     *)

Below == busy = NoBuffer /\ ~hw.pending /\ ~timer.pending

Step(from, to) ==
  /\ Below /\ usb = from /\ usb' = to
  /\ torn' = (torn \/ (usb = "idle" /\ dog))

\* HOST_CMD_STOP: radio_rx_stop
UsbStop ==
  /\ "stop" \in Commands
  /\ drv.running /\ Step("idle", "stop: shorts")
  /\ drv' = [drv EXCEPT !.running = FALSE]
  /\ UNCHANGED <<chip, hw, busy, timer, held, dog, late>>

UsbStopShorts ==
  /\ Step("stop: shorts", "stop: event")
  /\ hw' = [hw EXCEPT !.shorts = FALSE]
  /\ UNCHANGED <<chip, drv, busy, timer, held, dog, late>>

UsbStopEvent ==
  /\ Step("stop: event", "stop: disable")
  /\ hw' = [hw EXCEPT !.disabled = FALSE]
  /\ UNCHANGED <<chip, drv, busy, timer, held, dog, late>>

UsbStopDisable ==
  /\ Step("stop: disable", "stop: wait")
  /\ hw' = Disable(hw)
  /\ UNCHANGED <<chip, drv, busy, timer, held, dog, late>>

\* while (EVENTS_DISABLED == 0)
UsbStopWait ==
  /\ hw.disabled /\ Step("stop: wait", "idle")
  /\ hw' = [hw EXCEPT !.disabled = FALSE]
  /\ UNCHANGED <<chip, drv, busy, timer, held, dog, late>>

\* HOST_CMD_START: radio_rx_start, which does nothing to a running receiver.
UsbStart ==
  /\ "start" \in Commands
  /\ ~drv.running /\ Step("idle", "start: buffer")
  /\ UNCHANGED <<chip, hw, drv, busy, timer, held, dog, late>>

UsbStartBuffer ==
  /\ Step("start: buffer", "start: turn")
  /\ drv' = [drv EXCEPT !.idx = 0]
  /\ hw' = [hw EXCEPT !.ptr = 0]
  /\ UNCHANGED <<chip, busy, timer, held, dog, late>>

UsbStartTurn ==
  /\ Step("start: turn", "start: test")
  /\ drv' = [drv EXCEPT !.turn = 0]
  /\ UNCHANGED <<chip, hw, busy, timer, held, dog, late>>

\* Mutation: the test looks at the peripheral's PHY.
UsbStartTestAlt ==
  /\ Step("start: test", IF drv.cur # drv.alt THEN "start: mode" ELSE "start: events")
  /\ held' = IF drv.cur # drv.alt THEN drv.primary ELSE NoPhy
  /\ UNCHANGED <<chip, hw, drv, busy, timer, dog, late>>

\* if (current_phy != primary_phy) radio_apply_phy(primary_phy): the test and
\* the argument, RADIO.MODE, current_phy
UsbStartTest ==
  /\ Step("start: test", IF drv.cur # drv.primary THEN "start: mode" ELSE "start: events")
  /\ held' = IF drv.cur # drv.primary THEN drv.primary ELSE NoPhy
  /\ UNCHANGED <<chip, hw, drv, busy, timer, dog, late>>

UsbStartMode ==
  /\ Step("start: mode", "start: note")
  /\ hw' = [hw EXCEPT !.mode = held]
  /\ UNCHANGED <<chip, drv, busy, timer, held, dog, late>>

UsbStartNote ==
  /\ Step("start: note", "start: events")
  /\ drv' = [drv EXCEPT !.cur = held]
  /\ held' = NoPhy
  /\ UNCHANGED <<chip, hw, busy, timer, dog, late>>

UsbStartEvents ==
  /\ Step("start: events", "start: running")
  /\ hw' = [hw EXCEPT !.end = FALSE, !.disabled = FALSE, !.shorts = TRUE]
  /\ UNCHANGED <<chip, drv, busy, timer, held, dog, late>>

UsbStartRunning ==
  /\ Step("start: running", "start: rxen")
  /\ drv' = [drv EXCEPT !.running = TRUE]
  /\ UNCHANGED <<chip, hw, busy, timer, held, dog, late>>

UsbStartRxEn ==
  /\ Step("start: rxen", "idle")
  /\ hw' = RxEn(hw)
  /\ UNCHANGED <<chip, drv, busy, timer, held, dog, late>>

\* Mutation: the watchdog looks for a receiver that idles.
DogTestIdle ==
  /\ Below /\ usb = "idle" /\ ~dog
  /\ drv.running /\ hw.state = "Idle"
  /\ dog' = TRUE
  /\ UNCHANGED <<chip, hw, drv, busy, timer, usb, held, torn, late>>

\* radio_rx_recover in the main loop: its test, and later its RXEN.
DogTest ==
  /\ Below /\ usb = "idle" /\ ~dog
  /\ drv.running /\ hw.state = "Disabled"
  /\ dog' = TRUE
  /\ UNCHANGED <<chip, hw, drv, busy, timer, usb, held, torn, late>>

DogRxEn ==
  /\ Below /\ usb = "idle" /\ dog
  /\ dog' = FALSE
  /\ hw' = RxEn(hw)
  /\ UNCHANGED <<chip, drv, busy, timer, usb, held, torn, late>>

----------------------------------------------------------------------------

Hardware == RampUpDone \/ RampDownDone \/ Tick
Handlers == RadioIsr \/ RadioIsrSpurious \/ PacketCb \/ TimerIsr
Usb ==
  \/ UsbStopShorts \/ UsbStopEvent \/ UsbStopDisable \/ UsbStopWait
  \/ UsbStartBuffer \/ UsbStartTurn \/ UsbStartTest \/ UsbStartMode
  \/ UsbStartNote \/ UsbStartEvents \/ UsbStartRunning \/ UsbStartRxEn
Dog == DogTest \/ DogRxEn

Next ==
  Hardware \/ PacketEnds \/ Handlers \/ KickIsr \/ UsbStop \/ UsbStart \/ Usb \/ Dog

Spec == Init /\ [][Next]_vars

\* Hardware and handlers do not stop; code below them gets the processor
\* again and again, a handler that is not running being no obstacle for ever.
\* Packets, kicks and commands are never owed.
Fairness ==
  /\ WF_vars(RampUpDone \/ RampDownDone) /\ WF_vars(Tick)
  /\ WF_vars(RadioIsr \/ RadioIsrSpurious) /\ WF_vars(PacketCb) /\ SF_vars(TimerIsr)
  /\ SF_vars(Usb) /\ SF_vars(Dog)

LiveSpec == Spec /\ Fairness

----------------------------------------------------------------------------

Phys == CentralPhys \cup PeripheralPhys

StopSteps == {"stop: shorts", "stop: event", "stop: disable", "stop: wait"}
StartSteps == PhySteps \cup {"start: events", "start: running"}

Peripheral ==
  [state : {"Disabled", "RampUp", "Idle", "Rx", "RampDown"}, shorts : BOOLEAN,
   end : BOOLEAN, disabled : BOOLEAN, pending : BOOLEAN, ptr : {0, 1}, dma : {0, 1},
   mode : Phys]

Driver ==
  [running : BOOLEAN, idx : {0, 1}, turn : {0, 1},
   primary : Phys, alt : Phys, cur : Phys]

Timer == [cb : {0, 1}, armed : BOOLEAN, left : 0..Horizon, pending : BOOLEAN]

TypeOK ==
  /\ chip \in Chips
  /\ hw \in Peripheral
  /\ drv \in Driver
  /\ busy \in {0, 1, NoBuffer}
  /\ timer \in Timer
  /\ usb \in {"idle", "start: rxen"} \cup StopSteps \cup StartSteps
  /\ held \in Phys \cup {NoPhy}
  /\ dog \in BOOLEAN /\ torn \in BOOLEAN /\ late \in BOOLEAN

\* "The buffer the callback is processing is never touched by hardware"
\* (radio_nrf52.c:17).
BufferUntouched ==
  /\ hw.state = "Rx" => hw.dma # busy
  /\ hw.end /\ drv.running /\ ~torn => hw.dma = drv.idx

\* Within an event the central's packets are received on its PHY, the
\* peripheral's on theirs, and each is reported with the PHY it came on,
\* whatever event came before and wherever it was stopped: only a handler that
\* takes turns while a START is about to set them may leave them wrong.
PhyTakesTurns ==
  hw.state = "Rx" /\ usb \notin PhySteps /\ ~late =>
    hw.mode = Mode(drv) /\ drv.cur = hw.mode

\* "Each start of reception begins on the master-direction PHY"
\* (radio_nrf52.c:443), a START that runs into a handler's included.
PhyNeverOvertaken == hw.state = "Rx" /\ drv.running => hw.mode = Mode(drv)

\* The receiver that should be running is, or comes back: the watchdog makes
\* up for an RXEN the hardware did not accept.
ReceptionResumes ==
  (drv.running /\ ~torn) ~> (hw.state = "Rx" \/ ~drv.running \/ torn)

\* A scheduled callback is dispatched, replaced or cancelled, its time having
\* passed when it was scheduled or not (of the two numbers callbacks take in
\* turn, one speaks for both).
CallbackComes ==
  (timer.armed /\ timer.cb = 0) ~> ~(timer.armed /\ timer.cb = 0)

\* "When the TIMER1 count reaches at_us, call cb" (radio_hal.h).
NeverEarly == timer.pending /\ timer.armed => timer.left = Off

\* "Ramp-down takes only a few tens of us, busy-wait is fine"
\* (radio_nrf52.c:489).
StopReturns == usb = "stop: wait" ~> usb # "stop: wait"
=============================================================================
