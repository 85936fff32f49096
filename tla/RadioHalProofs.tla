---------------------------- MODULE RadioHalProofs ----------------------------
(***************************************************************************)
(* The invariant of RadioHal, for either chip, any PHYs and any horizon.   *)
(***************************************************************************)
EXTENDS RadioHal, TLAPS

\* A request to the receive handler is pending as long as its event is set,
\* and the packet's reception has ended.
EndIsPending ==
  hw.end => hw.pending /\ hw.state \in {"Disabled", "Idle", "RampDown"}

\* While the callback holds a buffer the hardware has the other one.
BufferApart ==
  busy # NoBuffer => hw.ptr # busy /\ (hw.state = "Rx" => hw.dma # busy)

\* The receiver has the PHY of its turn, and so has the driver, from the end of
\* a START's PHY steps to the next, unless a handler came between them.
PhyInv ==
  ~late =>
    /\ usb \notin {"start: mode", "start: note"} => drv.cur = hw.mode
    /\ usb \notin PhySteps => hw.mode = Mode(drv)
    /\ usb \in {"start: test", "start: mode", "start: note"} => drv.turn = 0
    /\ usb \in {"start: mode", "start: note"} => held = drv.primary
    /\ usb = "start: note" => hw.mode = held

HeldInv == usb \in {"start: mode", "start: note"} => held \in Phys

\* A running receiver fills the buffer the driver expects it to.
BufferInv ==
  ~torn /\ drv.running =>
    hw.ptr = drv.idx /\ (hw.state = "Rx" \/ hw.end => hw.dma = drv.idx)

\* A receiver that is halted is disabled.
HaltInv == ~torn /\ ~drv.running /\ usb = "idle" => hw.state = "Disabled"

DogInv == ~torn /\ dog => drv.running /\ usb = "idle"

StopInv ==
  ~torn /\ usb \in StopSteps =>
    /\ ~drv.running
    /\ usb # "stop: shorts" => ~hw.shorts
    /\ usb \in {"stop: disable", "stop: wait"} /\ hw.disabled => hw.state = "Disabled"

StartInv ==
  ~torn /\ usb \in StartSteps \cup {"start: rxen"} =>
    /\ hw.state = "Disabled" /\ ~hw.pending
    /\ drv.running <=> usb = "start: rxen"
    /\ usb # "start: buffer" => hw.ptr = drv.idx

----------------------------------------------------------------------------

\* Whatever a command was interrupted by.
Reception == EndIsPending /\ BufferApart /\ PhyInv /\ HeldInv

\* As long as no handler came between two steps of a command.
Whole == BufferInv /\ HaltInv /\ DogInv /\ StopInv /\ StartInv

IInv == TypeOK /\ Reception /\ Whole

LEMMA InitInv == Init => IInv
<1> SUFFICES ASSUME Init PROVE IInv
  OBVIOUS
<1> USE HalAssumption DEF Init
<1>1. PICK p \in CentralPhys :
        /\ hw = [state |-> "RampUp", shorts |-> TRUE, end |-> FALSE, disabled |-> FALSE,
                 pending |-> FALSE, ptr |-> 0, dma |-> 0, mode |-> p]
        /\ drv = [running |-> TRUE, idx |-> 0, turn |-> 0, primary |-> p,
                  alt |-> p, cur |-> p]
  OBVIOUS
<1>2. TypeOK
  <2>1. hw \in Peripheral /\ drv \in Driver
    BY <1>1 DEF Peripheral, Driver, Phys
  <2>2. timer \in Timer
    BY DEF Timer
  <2> QED BY <2>1, <2>2 DEF TypeOK
<1>3. Reception
  BY <1>1 DEF Reception, EndIsPending, BufferApart, PhyInv, HeldInv, PhySteps, NoBuffer, Mode
<1>4. Whole
  BY <1>1 DEF Whole, BufferInv, HaltInv, DogInv, StopInv, StartInv, StopSteps, StartSteps,
     PhySteps
<1> QED BY <1>2, <1>3, <1>4 DEF IInv

----------------------------------------------------------------------------
(* What the calls return.                                                  *)

LEMMA PeripheralTypes ==
  ASSUME NEW h \in Peripheral
  PROVE  RxEn(h) \in Peripheral /\ Disable(h) \in Peripheral
         /\ RampedDown(h) \in Peripheral /\ Ended(h) \in Peripheral
BY DEF Peripheral, RxEn, Disable, RampedDown, Ended

LEMMA TimerTypes ==
  ASSUME NEW t \in Timer, NEW left \in 0..Horizon
  PROVE  SchedAt(t, left) \in Timer /\ Disarmed(t) \in Timer
<1>1. 0 \in 0..Horizon
  BY HalAssumption
<1>2. 1 - t.cb \in {0, 1}
  BY DEF Timer
<1> QED BY <1>1, <1>2 DEF Timer, SchedAt, Disarmed, Off

LEMMA RampUpDoneKeeps == IInv /\ RampUpDone => IInv'
<1> SUFFICES ASSUME IInv, RampUpDone PROVE IInv'
  OBVIOUS
<1> USE DEF IInv, RampUpDone
<1>1. TypeOK'
  <2>1. hw' \in Peripheral
    BY DEF TypeOK, Peripheral
  <2> QED BY <2>1 DEF TypeOK
<1>2. Reception'
  BY DEF TypeOK, Peripheral, Driver, Reception, EndIsPending, BufferApart, PhyInv,
     HeldInv, PhySteps, Mode, NoBuffer
<1>3. Whole'
  BY DEF TypeOK, Peripheral, Driver, Reception, EndIsPending, Whole, BufferInv,
     HaltInv, DogInv, StopInv, StartInv, StopSteps, StartSteps, PhySteps
<1> QED BY <1>1, <1>2, <1>3

LEMMA RampDownDoneKeeps == IInv /\ RampDownDone => IInv'
<1> SUFFICES ASSUME IInv, RampDownDone PROVE IInv'
  OBVIOUS
<1> USE DEF IInv, RampDownDone, RampedDown
<1>1. TypeOK'
  <2>1. hw' \in Peripheral
    BY DEF TypeOK, Peripheral
  <2> QED BY <2>1 DEF TypeOK
<1>2. Reception'
  BY DEF TypeOK, Peripheral, Driver, Reception, EndIsPending, BufferApart, PhyInv,
     HeldInv, PhySteps, Mode, NoBuffer
<1>3. Whole'
  BY DEF TypeOK, Peripheral, Driver, Reception, EndIsPending, Whole, BufferInv,
     HaltInv, DogInv, StopInv, StartInv, StopSteps, StartSteps, PhySteps
<1> QED BY <1>1, <1>2, <1>3

LEMMA PacketEndsKeeps == IInv /\ PacketEnds => IInv'
<1> SUFFICES ASSUME IInv, PacketEnds PROVE IInv'
  OBVIOUS
<1> USE DEF IInv, PacketEnds, Ended, RampedDown
<1>1. TypeOK'
  <2>1. hw' \in Peripheral
    BY DEF TypeOK, Peripheral
  <2> QED BY <2>1 DEF TypeOK
<1>2. Reception'
  BY DEF TypeOK, Peripheral, Driver, Reception, EndIsPending, BufferApart, PhyInv,
     HeldInv, PhySteps, Mode, NoBuffer
<1>3. Whole'
  BY DEF TypeOK, Peripheral, Driver, Reception, EndIsPending, Whole, BufferInv,
     HaltInv, DogInv, StopInv, StartInv, StopSteps, StartSteps, PhySteps
<1> QED BY <1>1, <1>2, <1>3

LEMMA RadioIsrSpuriousKeeps == IInv /\ RadioIsrSpurious => IInv'
<1> SUFFICES ASSUME IInv, RadioIsrSpurious PROVE IInv'
  OBVIOUS
<1> USE DEF IInv, RadioIsrSpurious
<1>1. TypeOK'
  <2>1. hw' \in Peripheral
    BY DEF TypeOK, Peripheral
  <2> QED BY <2>1 DEF TypeOK
<1>2. Reception'
  BY DEF TypeOK, Peripheral, Driver, Reception, EndIsPending, BufferApart, PhyInv,
     HeldInv, PhySteps, Mode, NoBuffer
<1>3. Whole'
  BY DEF TypeOK, Peripheral, Driver, Reception, EndIsPending, Whole, BufferInv,
     HaltInv, DogInv, StopInv, StartInv, StopSteps, StartSteps, PhySteps
<1> QED BY <1>1, <1>2, <1>3

LEMMA UsbStopKeeps == IInv /\ UsbStop => IInv'
<1> SUFFICES ASSUME IInv, UsbStop PROVE IInv'
  OBVIOUS
<1> USE DEF IInv, UsbStop, Step, Below
<1>1. TypeOK'
  <2>1. usb' \in {"idle", "start: rxen"} \cup StopSteps \cup StartSteps /\ torn' \in BOOLEAN
    BY DEF TypeOK, StopSteps, StartSteps, PhySteps
  <2>2. hw' \in Peripheral /\ drv' \in Driver
    BY DEF TypeOK, Peripheral, Driver
  <2> QED BY <2>1, <2>2 DEF TypeOK
<1>2. Reception'
  BY DEF TypeOK, Peripheral, Driver, Reception, EndIsPending, BufferApart, PhyInv,
     HeldInv, PhySteps, Mode, NoBuffer
<1>3. Whole'
  BY DEF TypeOK, Peripheral, Driver, Reception, EndIsPending, Whole, BufferInv,
     HaltInv, DogInv, StopInv, StartInv, StopSteps, StartSteps, PhySteps
<1> QED BY <1>1, <1>2, <1>3

LEMMA UsbStopShortsKeeps == IInv /\ UsbStopShorts => IInv'
<1> SUFFICES ASSUME IInv, UsbStopShorts PROVE IInv'
  OBVIOUS
<1> USE DEF IInv, UsbStopShorts, Step, Below
<1>1. TypeOK'
  <2>1. usb' \in {"idle", "start: rxen"} \cup StopSteps \cup StartSteps /\ torn' \in BOOLEAN
    BY DEF TypeOK, StopSteps, StartSteps, PhySteps
  <2>2. hw' \in Peripheral /\ drv' \in Driver
    BY DEF TypeOK, Peripheral, Driver
  <2> QED BY <2>1, <2>2 DEF TypeOK
<1>2. Reception'
  BY DEF TypeOK, Peripheral, Driver, Reception, EndIsPending, BufferApart, PhyInv,
     HeldInv, PhySteps, Mode, NoBuffer
<1>3. Whole'
  BY DEF TypeOK, Peripheral, Driver, Reception, EndIsPending, Whole, BufferInv,
     HaltInv, DogInv, StopInv, StartInv, StopSteps, StartSteps, PhySteps
<1> QED BY <1>1, <1>2, <1>3

LEMMA UsbStopEventKeeps == IInv /\ UsbStopEvent => IInv'
<1> SUFFICES ASSUME IInv, UsbStopEvent PROVE IInv'
  OBVIOUS
<1> USE DEF IInv, UsbStopEvent, Step, Below
<1>1. TypeOK'
  <2>1. usb' \in {"idle", "start: rxen"} \cup StopSteps \cup StartSteps /\ torn' \in BOOLEAN
    BY DEF TypeOK, StopSteps, StartSteps, PhySteps
  <2>2. hw' \in Peripheral /\ drv' \in Driver
    BY DEF TypeOK, Peripheral, Driver
  <2> QED BY <2>1, <2>2 DEF TypeOK
<1>2. Reception'
  BY DEF TypeOK, Peripheral, Driver, Reception, EndIsPending, BufferApart, PhyInv,
     HeldInv, PhySteps, Mode, NoBuffer
<1>3. Whole'
  BY DEF TypeOK, Peripheral, Driver, Reception, EndIsPending, Whole, BufferInv,
     HaltInv, DogInv, StopInv, StartInv, StopSteps, StartSteps, PhySteps
<1> QED BY <1>1, <1>2, <1>3

LEMMA UsbStopDisableKeeps == IInv /\ UsbStopDisable => IInv'
<1> SUFFICES ASSUME IInv, UsbStopDisable PROVE IInv'
  OBVIOUS
<1> USE DEF IInv, UsbStopDisable, Step, Below, Disable
<1>1. TypeOK'
  <2>1. usb' \in {"idle", "start: rxen"} \cup StopSteps \cup StartSteps /\ torn' \in BOOLEAN
    BY DEF TypeOK, StopSteps, StartSteps, PhySteps
  <2>2. hw' \in Peripheral /\ drv' \in Driver
    BY DEF TypeOK, Peripheral, Driver
  <2> QED BY <2>1, <2>2 DEF TypeOK
<1>2. Reception'
  BY DEF TypeOK, Peripheral, Driver, Reception, EndIsPending, BufferApart, PhyInv,
     HeldInv, PhySteps, Mode, NoBuffer
<1>3. Whole'
  BY DEF TypeOK, Peripheral, Driver, Reception, EndIsPending, Whole, BufferInv,
     HaltInv, DogInv, StopInv, StartInv, StopSteps, StartSteps, PhySteps
<1> QED BY <1>1, <1>2, <1>3

LEMMA UsbStopWaitKeeps == IInv /\ UsbStopWait => IInv'
<1> SUFFICES ASSUME IInv, UsbStopWait PROVE IInv'
  OBVIOUS
<1> USE DEF IInv, UsbStopWait, Step, Below
<1>1. TypeOK'
  <2>1. usb' \in {"idle", "start: rxen"} \cup StopSteps \cup StartSteps /\ torn' \in BOOLEAN
    BY DEF TypeOK, StopSteps, StartSteps, PhySteps
  <2>2. hw' \in Peripheral /\ drv' \in Driver
    BY DEF TypeOK, Peripheral, Driver
  <2> QED BY <2>1, <2>2 DEF TypeOK
<1>2. Reception'
  BY DEF TypeOK, Peripheral, Driver, Reception, EndIsPending, BufferApart, PhyInv,
     HeldInv, PhySteps, Mode, NoBuffer
<1>3. Whole'
  BY DEF TypeOK, Peripheral, Driver, Reception, EndIsPending, Whole, BufferInv,
     HaltInv, DogInv, StopInv, StartInv, StopSteps, StartSteps, PhySteps
<1> QED BY <1>1, <1>2, <1>3

LEMMA UsbStartKeeps == IInv /\ UsbStart => IInv'
<1> SUFFICES ASSUME IInv, UsbStart PROVE IInv'
  OBVIOUS
<1> USE DEF IInv, UsbStart, Step, Below
<1>1. TypeOK'
  <2>1. usb' \in StartSteps /\ torn' \in BOOLEAN
    BY DEF TypeOK, StartSteps, PhySteps
  <2> QED BY <2>1 DEF TypeOK
<1>2. Reception'
  BY DEF TypeOK, Peripheral, Driver, Reception, EndIsPending, BufferApart, PhyInv,
     HeldInv, PhySteps, Mode, NoBuffer
<1>3. Whole'
  BY DEF TypeOK, Peripheral, Driver, Reception, EndIsPending, Whole, BufferInv,
     HaltInv, DogInv, StopInv, StartInv, StopSteps, StartSteps, PhySteps
<1> QED BY <1>1, <1>2, <1>3

LEMMA UsbStartBufferKeeps == IInv /\ UsbStartBuffer => IInv'
<1> SUFFICES ASSUME IInv, UsbStartBuffer PROVE IInv'
  OBVIOUS
<1> USE DEF IInv, UsbStartBuffer, Step, Below
<1>1. TypeOK'
  <2>1. usb' \in {"idle", "start: rxen"} \cup StopSteps \cup StartSteps /\ torn' \in BOOLEAN
    BY DEF TypeOK, StopSteps, StartSteps, PhySteps
  <2>2. hw' \in Peripheral /\ drv' \in Driver
    BY DEF TypeOK, Peripheral, Driver
  <2> QED BY <2>1, <2>2 DEF TypeOK
<1>2. Reception'
  BY DEF TypeOK, Peripheral, Driver, Reception, EndIsPending, BufferApart, PhyInv,
     HeldInv, PhySteps, Mode, NoBuffer
<1>3. Whole'
  BY DEF TypeOK, Peripheral, Driver, Reception, EndIsPending, Whole, BufferInv,
     HaltInv, DogInv, StopInv, StartInv, StopSteps, StartSteps, PhySteps
<1> QED BY <1>1, <1>2, <1>3

LEMMA UsbStartEventsKeeps == IInv /\ UsbStartEvents => IInv'
<1> SUFFICES ASSUME IInv, UsbStartEvents PROVE IInv'
  OBVIOUS
<1> USE DEF IInv, UsbStartEvents, Step, Below
<1>1. TypeOK'
  <2>1. usb' \in {"idle", "start: rxen"} \cup StopSteps \cup StartSteps /\ torn' \in BOOLEAN
    BY DEF TypeOK, StopSteps, StartSteps, PhySteps
  <2>2. hw' \in Peripheral /\ drv' \in Driver
    BY DEF TypeOK, Peripheral, Driver
  <2> QED BY <2>1, <2>2 DEF TypeOK
<1>2. Reception'
  BY DEF TypeOK, Peripheral, Driver, Reception, EndIsPending, BufferApart, PhyInv,
     HeldInv, PhySteps, Mode, NoBuffer
<1>3. Whole'
  BY DEF TypeOK, Peripheral, Driver, Reception, EndIsPending, Whole, BufferInv,
     HaltInv, DogInv, StopInv, StartInv, StopSteps, StartSteps, PhySteps
<1> QED BY <1>1, <1>2, <1>3

LEMMA UsbStartRunningKeeps == IInv /\ UsbStartRunning => IInv'
<1> SUFFICES ASSUME IInv, UsbStartRunning PROVE IInv'
  OBVIOUS
<1> USE DEF IInv, UsbStartRunning, Step, Below
<1>1. TypeOK'
  <2>1. usb' \in {"idle", "start: rxen"} \cup StopSteps \cup StartSteps /\ torn' \in BOOLEAN
    BY DEF TypeOK, StopSteps, StartSteps, PhySteps
  <2>2. hw' \in Peripheral /\ drv' \in Driver
    BY DEF TypeOK, Peripheral, Driver
  <2> QED BY <2>1, <2>2 DEF TypeOK
<1>2. Reception'
  BY DEF TypeOK, Peripheral, Driver, Reception, EndIsPending, BufferApart, PhyInv,
     HeldInv, PhySteps, Mode, NoBuffer
<1>3. Whole'
  BY DEF TypeOK, Peripheral, Driver, Reception, EndIsPending, Whole, BufferInv,
     HaltInv, DogInv, StopInv, StartInv, StopSteps, StartSteps, PhySteps
<1> QED BY <1>1, <1>2, <1>3

LEMMA UsbStartRxEnKeeps == IInv /\ UsbStartRxEn => IInv'
<1> SUFFICES ASSUME IInv, UsbStartRxEn PROVE IInv'
  OBVIOUS
<1> USE DEF IInv, UsbStartRxEn, Step, Below, RxEn
<1>1. TypeOK'
  <2>1. usb' \in {"idle", "start: rxen"} \cup StopSteps \cup StartSteps /\ torn' \in BOOLEAN
    BY DEF TypeOK, StopSteps, StartSteps, PhySteps
  <2>2. hw' \in Peripheral /\ drv' \in Driver
    BY DEF TypeOK, Peripheral, Driver
  <2> QED BY <2>1, <2>2 DEF TypeOK
<1>2. Reception'
  BY DEF TypeOK, Peripheral, Driver, Reception, EndIsPending, BufferApart, PhyInv,
     HeldInv, PhySteps, Mode, NoBuffer
<1>3. Whole'
  BY DEF TypeOK, Peripheral, Driver, Reception, EndIsPending, Whole, BufferInv,
     HaltInv, DogInv, StopInv, StartInv, StopSteps, StartSteps, PhySteps
<1> QED BY <1>1, <1>2, <1>3

LEMMA DogTestKeeps == IInv /\ DogTest => IInv'
<1> SUFFICES ASSUME IInv, DogTest PROVE IInv'
  OBVIOUS
<1> USE DEF IInv, DogTest, Below
<1>1. TypeOK'
  BY DEF TypeOK, Peripheral, Driver, StopSteps, StartSteps, PhySteps
<1>2. Reception'
  BY DEF TypeOK, Peripheral, Driver, Reception, EndIsPending, BufferApart, PhyInv,
     HeldInv, PhySteps, Mode, NoBuffer
<1>3. Whole'
  BY DEF TypeOK, Peripheral, Driver, Reception, EndIsPending, Whole, BufferInv,
     HaltInv, DogInv, StopInv, StartInv, StopSteps, StartSteps, PhySteps
<1> QED BY <1>1, <1>2, <1>3

LEMMA DogRxEnKeeps == IInv /\ DogRxEn => IInv'
<1> SUFFICES ASSUME IInv, DogRxEn PROVE IInv'
  OBVIOUS
<1> USE DEF IInv, DogRxEn, Below, RxEn
<1>1. TypeOK'
  BY DEF TypeOK, Peripheral, Driver, StopSteps, StartSteps, PhySteps
<1>2. Reception'
  BY DEF TypeOK, Peripheral, Driver, Reception, EndIsPending, BufferApart, PhyInv,
     HeldInv, PhySteps, Mode, NoBuffer
<1>3. Whole'
  BY DEF TypeOK, Peripheral, Driver, Reception, EndIsPending, Whole, BufferInv,
     HaltInv, DogInv, StopInv, StartInv, StopSteps, StartSteps, PhySteps
<1> QED BY <1>1, <1>2, <1>3

LEMMA TickKeeps == IInv /\ Tick => IInv'
<1> SUFFICES ASSUME IInv, Tick PROVE IInv'
  OBVIOUS
<1> USE DEF IInv, Tick
<1>1. TypeOK'
  <2>1. timer.left - 1 \in 0..Horizon /\ 0 \in 0..Horizon
    <3>1. timer.left \in 0..Horizon /\ timer.left # 0
      BY DEF TypeOK, Timer, Off
    <3>2. Horizon \in Nat
      BY HalAssumption
    <3> QED BY <3>1, <3>2
  <2>2. timer' \in Timer
    BY <2>1 DEF TypeOK, Timer, Off
  <2> QED BY <2>2 DEF TypeOK
<1>2. Reception'
  BY DEF Reception, EndIsPending, BufferApart, PhyInv, HeldInv,
     PhySteps, Mode
<1>3. Whole'
  BY DEF Whole, BufferInv, HaltInv, DogInv, StopInv, StartInv, StopSteps, StartSteps, PhySteps
<1> QED BY <1>1, <1>2, <1>3

\* The packet's buffer is the callback's, the other one the hardware's.
LEMMA RadioIsrKeeps == IInv /\ RadioIsr => IInv'
<1> SUFFICES ASSUME IInv, RadioIsr PROVE IInv'
  OBVIOUS
<1> DEFINE h == [hw EXCEPT !.pending = FALSE, !.end = FALSE, !.ptr = OtherBuffer(drv.idx),
                           !.mode = NextPhy(drv, @)]
<1>1. /\ busy = NoBuffer /\ hw.pending /\ hw.end /\ busy' = drv.idx
      /\ UNCHANGED <<chip, timer, usb, held, dog, torn>>
      /\ late' = (late \/ usb \in PhySteps)
  BY DEF RadioIsr
<1>2. /\ hw \in Peripheral /\ drv \in Driver /\ drv.idx \in {0, 1}
      /\ hw.state \in {"Disabled", "Idle", "RampDown"}
  BY <1>1 DEF IInv, TypeOK, Driver, Reception, EndIsPending
<1>3. OtherBuffer(drv.idx) \in {0, 1} /\ OtherBuffer(drv.idx) # drv.idx
  BY <1>2 DEF OtherBuffer
<1>4. /\ hw.mode \in Phys /\ drv.cur \in Phys
      /\ NextPhy(drv, hw.mode) \in Phys /\ NextPhy(drv, drv.cur) \in Phys
  <2>1. drv.primary \in Phys /\ drv.alt \in Phys /\ hw.mode \in Phys /\ drv.cur \in Phys
    BY <1>2 DEF Peripheral, Driver
  <2>2. Mode([drv EXCEPT !.turn = @ + 1]) \in {drv.primary, drv.alt}
    BY <1>2 DEF Mode, Driver
  <2> QED BY <2>1, <2>2 DEF NextPhy
<1>5. /\ h \in Peripheral /\ ~h.end /\ ~h.pending /\ h.ptr = OtherBuffer(drv.idx)
      /\ h.state = hw.state /\ h.shorts = hw.shorts
      /\ h.disabled = hw.disabled /\ h.mode = NextPhy(drv, hw.mode)
  BY <1>2, <1>3, <1>4 DEF Peripheral
<1>6. /\ drv' \in Driver /\ drv'.running = drv.running /\ drv'.idx = OtherBuffer(drv.idx)
      /\ drv'.cur = NextPhy(drv, drv.cur)
      /\ drv.cur = Mode(drv) => drv'.cur = Mode(drv')
  <2>1. drv' = [drv EXCEPT !.turn = (@ + 1) % 2, !.idx = OtherBuffer(@),
                           !.cur = NextPhy(drv, @)]
    BY DEF RadioIsr
  <2>2. drv.turn \in {0, 1}
    BY <1>2 DEF Driver
  <2>3. (drv.turn + 1) % 2 \in {0, 1} /\ ((drv.turn + 1) % 2) % 2 = (drv.turn + 1) % 2
    BY <2>2
  <2>4. Mode([drv EXCEPT !.turn = @ + 1]) =
          IF (drv.turn + 1) % 2 = 1 THEN drv.alt ELSE drv.primary
    BY <1>2 DEF Mode, Driver
  <2>5. drv' \in Driver
    BY <1>2, <1>3, <1>4, <2>1, <2>3 DEF Driver
  <2>6. /\ drv'.turn = (drv.turn + 1) % 2 /\ drv'.alt = drv.alt
        /\ drv'.primary = drv.primary
        /\ drv'.cur = NextPhy(drv, drv.cur)
        /\ drv'.running = drv.running /\ drv'.idx = OtherBuffer(drv.idx)
    BY <1>2, <2>1 DEF Driver
  <2> QED BY <2>3, <2>4, <2>5, <2>6 DEF Mode, NextPhy
<1>7. /\ hw' \in Peripheral /\ ~hw'.end /\ ~hw'.pending
      /\ hw'.ptr = OtherBuffer(drv.idx) /\ hw'.state # "Rx"
      /\ hw'.mode = NextPhy(drv, hw.mode)
      /\ ~drv.running => hw' = h
  <2>1. PICK waited \in {h, IF h.state = "RampDown" THEN RampedDown(h) ELSE h} :
          hw' = CASE ~drv.running -> h
                  [] drv.running /\ chip = "nrf52" -> RxEn(h)
                  [] OTHER -> RxEn([waited EXCEPT !.disabled = FALSE])
    BY DEF RadioIsr
  <2>2. waited \in Peripheral /\ ~waited.end /\ ~waited.pending
        /\ waited.ptr = h.ptr /\ waited.mode = h.mode
        /\ waited.state \in {"Disabled", "Idle", "RampDown"}
    BY <1>2, <1>5 DEF RampedDown, Peripheral
  <2> HIDE DEF h
  <2>3. CASE ~drv.running
    BY <2>1, <2>3, <1>2, <1>5
  <2>4. CASE drv.running /\ chip = "nrf52"
    BY <2>1, <2>4, <1>2, <1>5 DEF RxEn, Peripheral
  <2>5. CASE drv.running /\ chip # "nrf52"
    BY <2>1, <2>2, <2>5, <1>2, <1>5 DEF RxEn, Peripheral
  <2> QED BY <2>3, <2>4, <2>5, <1>2 DEF Driver
<1> HIDE DEF h
<1>8. TypeOK'
  BY <1>1, <1>2, <1>6, <1>7 DEF IInv, TypeOK
<1>9. Reception'
  BY <1>1, <1>3, <1>6, <1>7 DEF Reception, EndIsPending, BufferApart, PhyInv,
     HeldInv, IInv, PhySteps
<1>10. Whole'
  BY <1>1, <1>2, <1>5, <1>6, <1>7 DEF IInv, Whole, BufferInv, HaltInv, DogInv, StopInv,
     StartInv, StopSteps, StartSteps, PhySteps
<1> QED BY <1>8, <1>9, <1>10 DEF IInv

LEMMA FirstTurn == ASSUME NEW d PROVE d.turn = 0 => Mode(d) = d.primary
BY DEF Mode

LEMMA UsbStartTurnKeeps == IInv /\ UsbStartTurn => IInv'
<1> SUFFICES ASSUME IInv, UsbStartTurn PROVE IInv'
  OBVIOUS
<1> USE DEF IInv, UsbStartTurn, Step, Below
<1>1. TypeOK'
  <2>1. usb' \in {"idle", "start: rxen"} \cup StopSteps \cup StartSteps /\ torn' \in BOOLEAN
    BY DEF TypeOK, StopSteps, StartSteps, PhySteps
  <2>2. hw' \in Peripheral /\ drv' \in Driver /\ held' \in Phys \cup {NoPhy}
    BY DEF TypeOK, Peripheral, Driver, Reception, HeldInv
  <2> QED BY <2>1, <2>2 DEF TypeOK
<1>2. Reception'
  BY DEF TypeOK, Peripheral, Driver, Reception, EndIsPending, BufferApart, PhyInv,
     HeldInv, PhySteps, Mode, NoBuffer
<1>3. Whole'
  BY DEF TypeOK, Peripheral, Driver, Reception, EndIsPending, Whole, BufferInv,
     HaltInv, DogInv, StopInv, StartInv, StopSteps, StartSteps, PhySteps
<1> QED BY <1>1, <1>2, <1>3

LEMMA UsbStartTestKeeps == IInv /\ UsbStartTest => IInv'
<1> SUFFICES ASSUME IInv, UsbStartTest PROVE IInv'
  OBVIOUS
<1> USE DEF IInv, UsbStartTest, Step, Below
<1>1. TypeOK'
  <2>1. usb' \in {"idle", "start: rxen"} \cup StopSteps \cup StartSteps /\ torn' \in BOOLEAN
    BY DEF TypeOK, StopSteps, StartSteps, PhySteps
  <2>2. hw' \in Peripheral /\ drv' \in Driver /\ held' \in Phys \cup {NoPhy}
    BY DEF TypeOK, Peripheral, Driver, Reception, HeldInv
  <2> QED BY <2>1, <2>2 DEF TypeOK
<1>2. Reception'
  <2>1. EndIsPending' /\ BufferApart'
    BY DEF Reception, EndIsPending, BufferApart
  <2>2. HeldInv'
    BY DEF TypeOK, Driver, Reception, HeldInv
  <2>3. drv \in Driver /\ drv'.turn = drv.turn /\ drv'.primary = drv.primary
    BY DEF TypeOK, Driver
  <2>4. drv'.turn = 0 => Mode(drv') = drv'.primary
    BY FirstTurn
  <2>5. PhyInv'
    BY <2>3, <2>4 DEF TypeOK, Driver, Reception, PhyInv, PhySteps
  <2> QED BY <2>1, <2>2, <2>5 DEF Reception
<1>3. Whole'
  BY DEF TypeOK, Peripheral, Driver, Reception, EndIsPending, Whole, BufferInv,
     HaltInv, DogInv, StopInv, StartInv, StopSteps, StartSteps, PhySteps
<1> QED BY <1>1, <1>2, <1>3

LEMMA UsbStartModeKeeps == IInv /\ UsbStartMode => IInv'
<1> SUFFICES ASSUME IInv, UsbStartMode PROVE IInv'
  OBVIOUS
<1> USE DEF IInv, UsbStartMode, Step, Below
<1>1. TypeOK'
  <2>1. usb' \in {"idle", "start: rxen"} \cup StopSteps \cup StartSteps /\ torn' \in BOOLEAN
    BY DEF TypeOK, StopSteps, StartSteps, PhySteps
  <2>2. hw' \in Peripheral /\ drv' \in Driver /\ held' \in Phys \cup {NoPhy}
    BY DEF TypeOK, Peripheral, Driver, Reception, HeldInv
  <2> QED BY <2>1, <2>2 DEF TypeOK
<1>2. Reception'
  BY DEF TypeOK, Peripheral, Driver, Reception, EndIsPending, BufferApart, PhyInv,
     HeldInv, PhySteps, Mode, NoBuffer
<1>3. Whole'
  BY DEF TypeOK, Peripheral, Driver, Reception, EndIsPending, Whole, BufferInv,
     HaltInv, DogInv, StopInv, StartInv, StopSteps, StartSteps, PhySteps
<1> QED BY <1>1, <1>2, <1>3

LEMMA UsbStartNoteKeeps == IInv /\ UsbStartNote => IInv'
<1> SUFFICES ASSUME IInv, UsbStartNote PROVE IInv'
  OBVIOUS
<1> USE DEF IInv, UsbStartNote, Step, Below
<1>1. TypeOK'
  <2>1. usb' \in {"idle", "start: rxen"} \cup StopSteps \cup StartSteps /\ torn' \in BOOLEAN
    BY DEF TypeOK, StopSteps, StartSteps, PhySteps
  <2>2. hw' \in Peripheral /\ drv' \in Driver /\ held' \in Phys \cup {NoPhy}
    BY DEF TypeOK, Peripheral, Driver, Reception, HeldInv
  <2> QED BY <2>1, <2>2 DEF TypeOK
<1>2. Reception'
  <2>1. EndIsPending' /\ BufferApart'
    BY DEF Reception, EndIsPending, BufferApart
  <2>2. HeldInv'
    BY DEF TypeOK, Driver, Reception, HeldInv
  <2>3. drv \in Driver /\ drv'.turn = drv.turn /\ drv'.primary = drv.primary
    BY DEF TypeOK, Driver
  <2>4. drv'.turn = 0 => Mode(drv') = drv'.primary
    BY FirstTurn
  <2>5. PhyInv'
    BY <2>3, <2>4 DEF TypeOK, Driver, Reception, PhyInv, PhySteps
  <2> QED BY <2>1, <2>2, <2>5 DEF Reception
<1>3. Whole'
  BY DEF TypeOK, Peripheral, Driver, Reception, EndIsPending, Whole, BufferInv,
     HaltInv, DogInv, StopInv, StartInv, StopSteps, StartSteps, PhySteps
<1> QED BY <1>1, <1>2, <1>3

----------------------------------------------------------------------------
(* What the callbacks do with the receiver and the timer line.             *)

\* A receiver that a handler has restarted.
LEMMA RestartKeeps ==
  ASSUME IInv, NEW primary \in Phys, NEW alt \in Phys, NEW mode \in Phys,
         drv' = Restart(drv, primary, alt),
         hw' = Started([Stopped(hw, drv) EXCEPT !.mode = mode]),
         ~late' => mode = primary /\ usb \notin PhySteps,
         torn' = (usb # "idle" \/ (torn /\ ~drv.running)), late' \in BOOLEAN,
         busy' = NoBuffer, timer' \in Timer, UNCHANGED <<chip, usb, held, dog>>
  PROVE  IInv'
<1>1. hw \in Peripheral /\ drv \in Driver /\ torn \in BOOLEAN
  BY DEF IInv, TypeOK
<1>2. /\ drv' \in Driver /\ drv'.running /\ drv'.idx = 0 /\ drv'.turn = 0
      /\ drv'.cur = drv'.primary /\ drv'.primary = primary
  BY <1>1 DEF Restart, Driver
<1> DEFINE stopped == [Stopped(hw, drv) EXCEPT !.mode = mode]
<1>3. stopped \in Peripheral /\ stopped.mode = mode
      /\ stopped.state = Stopped(hw, drv).state
  BY <1>1 DEF Stopped, Peripheral
<1>4. hw' = Started(stopped)
  OBVIOUS
<1> HIDE DEF stopped
<1>5. hw' \in Peripheral /\ hw'.ptr = 0 /\ ~hw'.end /\ hw'.mode = mode
  <2> DEFINE ready == [stopped EXCEPT !.ptr = 0, !.end = FALSE, !.disabled = FALSE,
                                      !.shorts = TRUE]
  <2>1. ready \in Peripheral /\ ready.ptr = 0 /\ ~ready.end /\ ready.mode = mode
    BY <1>3 DEF Peripheral
  <2>2. hw' = RxEn(ready)
    BY <1>4 DEF Started
  <2> HIDE DEF ready
  <2> QED BY <2>1, <2>2 DEF RxEn, Peripheral
<1>6. ~torn' => usb = "idle" /\ hw'.state = "RampUp"
  <2>1. ~torn' => usb = "idle" /\ Stopped(hw, drv).state = "Disabled"
    BY <1>1 DEF IInv, Whole, HaltInv, Stopped, Peripheral
  <2> QED BY <2>1, <1>3, <1>4 DEF Started, RxEn, Peripheral
<1>7. TypeOK'
  BY <1>1, <1>2, <1>5 DEF IInv, TypeOK
<1>8. Reception'
  <2>1. ~late' => hw'.mode = drv'.primary /\ usb' \notin PhySteps
    BY <1>2, <1>5
  <2>2. Mode(drv') = drv'.primary
    BY <1>2 DEF Mode
  <2>3. PhyInv'
    BY <1>2, <2>1, <2>2 DEF PhyInv, PhySteps
  <2>4. HeldInv'
    BY DEF IInv, Reception, HeldInv
  <2> QED BY <1>5, <2>3, <2>4 DEF Reception, EndIsPending, BufferApart
<1>9. Whole'
  BY <1>2, <1>5, <1>6 DEF Whole, BufferInv, HaltInv, DogInv, StopInv, StartInv,
     StopSteps, StartSteps, PhySteps
<1> QED BY <1>7, <1>8, <1>9 DEF IInv

LEMMA RetuneKeeps ==
  ASSUME IInv, Retune, busy' = NoBuffer, timer' \in Timer, UNCHANGED <<chip, usb, held, dog>>
  PROVE  IInv'
<1>1. PICK primary \in CentralPhys, alt \in PeripheralPhys :
        /\ drv' = Restart(drv, primary, alt)
        /\ hw' = Started([Stopped(hw, drv) EXCEPT !.mode = primary])
  BY DEF Retune
<1>2. primary \in Phys /\ alt \in Phys
  BY DEF Phys
<1>3. late' = (usb \in PhySteps)
  BY DEF Retune
<1>4. late' \in BOOLEAN /\ (~late' => usb \notin PhySteps)
  <2>1. CASE usb \in PhySteps
    BY <1>3, <2>1
  <2>2. CASE usb \notin PhySteps
    BY <1>3, <2>2
  <2> QED BY <2>1, <2>2
<1>5. torn' = (usb # "idle" \/ (torn /\ ~drv.running))
  BY DEF Retune
<1> QED BY <1>1, <1>2, <1>4, <1>5, RestartKeeps

LEMMA RotateKeeps ==
  ASSUME IInv, Rotate, busy' = NoBuffer, timer' \in Timer, UNCHANGED <<chip, usb, held, dog>>
  PROVE  IInv'
<1> DEFINE mode == IF drv.cur # drv.primary THEN drv.primary ELSE hw.mode
<1>1. /\ drv' = Restart(drv, drv.primary, drv.alt)
      /\ hw' = Started([Stopped(hw, drv) EXCEPT !.mode = mode])
      /\ drv.running
  BY DEF Rotate
<1>2. drv.primary \in Phys /\ drv.alt \in Phys /\ hw.mode \in Phys
  BY DEF IInv, TypeOK, Driver, Peripheral
<1>3. mode \in Phys
  BY <1>2
<1>4. late' \in BOOLEAN /\ (~late' => ~late /\ usb \notin PhySteps)
      /\ torn' = (usb # "idle" \/ (torn /\ ~drv.running))
  BY <1>1 DEF Rotate, IInv, TypeOK
<1>5. ~late' => mode = drv.primary
  BY <1>4 DEF IInv, Reception, PhyInv, PhySteps
<1> HIDE DEF mode
<1> QED BY <1>1, <1>2, <1>3, <1>4, <1>5, RestartKeeps

LEMMA HaltKeeps ==
  ASSUME IInv, Halt, busy' = NoBuffer, timer' \in Timer, UNCHANGED <<chip, usb, held, dog>>
  PROVE  IInv'
<1> USE DEF Halt
<1>1. hw \in Peripheral /\ drv \in Driver /\ torn \in BOOLEAN /\ dog \in BOOLEAN
  BY DEF IInv, TypeOK
<1>2. drv' \in Driver /\ ~drv'.running /\ drv'.cur = drv.cur /\ Mode(drv') = Mode(drv)
      /\ drv'.turn = drv.turn /\ drv'.primary = drv.primary
  BY <1>1 DEF Driver, Mode
<1>3. /\ hw' \in Peripheral /\ hw'.end = hw.end /\ hw'.pending = hw.pending
      /\ hw'.mode = hw.mode
      /\ drv.running => hw'.state = "Disabled"
      /\ ~drv.running => hw' = hw
  BY <1>1 DEF Stopped, Peripheral
<1>4. ~torn' => usb = "idle" /\ ~dog /\ hw'.state = "Disabled"
  BY <1>1, <1>3 DEF IInv, Whole, HaltInv
<1>5. TypeOK'
  BY <1>1, <1>2, <1>3 DEF IInv, TypeOK
<1>6. Reception'
  BY <1>2, <1>3 DEF IInv, Reception, EndIsPending, BufferApart, PhyInv,
     HeldInv, PhySteps
<1>7. Whole'
  BY <1>2, <1>4 DEF Whole, BufferInv, HaltInv, DogInv, StopInv, StartInv, StopSteps,
     StartSteps, PhySteps
<1> QED BY <1>5, <1>6, <1>7 DEF IInv

LEMMA ServeKeeps ==
  ASSUME IInv, NEW t \in Timer, Serve(t), busy' = NoBuffer, UNCHANGED <<chip, usb, held, dog>>
  PROVE  IInv'
BY TimerTypes, RetuneKeeps, RotateKeeps, HaltKeeps DEF Serve

\* The receiver is left alone.
LEMMA ScheduleKeeps ==
  ASSUME IInv, timer' \in Timer, busy' = NoBuffer,
         UNCHANGED <<chip, hw, drv, usb, held, dog, torn, late>>
  PROVE  IInv'
<1>1. TypeOK'
  BY DEF IInv, TypeOK
<1>2. Reception'
  BY DEF IInv, Reception, EndIsPending, BufferApart, PhyInv, HeldInv,
     PhySteps, Mode
<1>3. Whole'
  BY DEF IInv, Whole, BufferInv, HaltInv, DogInv, StopInv, StartInv, StopSteps, StartSteps, PhySteps
<1> QED BY <1>1, <1>2, <1>3 DEF IInv

LEMMA ReplanKeeps ==
  ASSUME IInv, Replan, busy' = NoBuffer, UNCHANGED <<chip, usb, held, dog>>
  PROVE  IInv'
<1>1. timer' \in Timer
  BY TimerTypes DEF Replan, IInv, TypeOK
<1> QED BY <1>1, ScheduleKeeps DEF Replan

LEMMA DisarmedType == IInv => timer \in Timer /\ Disarmed(timer) \in Timer
<1>1. 0 \in 0..Horizon
  BY HalAssumption
<1> QED BY <1>1, TimerTypes DEF IInv, TypeOK

LEMMA PacketCbKeeps == IInv /\ PacketCb => IInv'
<1> SUFFICES ASSUME IInv, PacketCb PROVE IInv'
  OBVIOUS
<1>1. busy' = NoBuffer /\ UNCHANGED <<chip, usb, held, dog>>
  BY DEF PacketCb
<1>2. CASE UNCHANGED <<hw, drv, timer, torn, late>>
  BY <1>1, <1>2, DisarmedType, ScheduleKeeps
<1>3. CASE Replan
  BY <1>1, <1>3, ReplanKeeps
<1>4. CASE Serve(timer) \/ Serve(Disarmed(timer))
  BY <1>1, <1>4, DisarmedType, ServeKeeps
<1> QED BY <1>2, <1>3, <1>4 DEF PacketCb

LEMMA TimerIsrKeeps == IInv /\ TimerIsr => IInv'
<1> SUFFICES ASSUME IInv, TimerIsr PROVE IInv'
  OBVIOUS
<1>1. busy' = NoBuffer /\ UNCHANGED <<chip, usb, held, dog>>
  BY DEF TimerIsr
<1>2. CASE Serve(Disarmed(timer))
  BY <1>1, <1>2, DisarmedType, ServeKeeps
<1>3. CASE timer' = Disarmed(timer) /\ UNCHANGED <<hw, drv, torn, late>>
  BY <1>1, <1>3, DisarmedType, ScheduleKeeps
<1> QED BY <1>2, <1>3 DEF TimerIsr

LEMMA KickIsrKeeps == IInv /\ KickIsr => IInv'
<1> SUFFICES ASSUME IInv, KickIsr PROVE IInv'
  OBVIOUS
<1>1. busy' = NoBuffer /\ UNCHANGED <<chip, usb, held, dog>>
  BY DEF KickIsr
<1> QED BY <1>1, DisarmedType, ServeKeeps, ReplanKeeps DEF KickIsr

----------------------------------------------------------------------------

LEMMA NextKeeps == IInv /\ [Next]_vars => IInv'
<1> SUFFICES ASSUME IInv, [Next]_vars PROVE IInv'
  OBVIOUS
<1>1. CASE Hardware \/ PacketEnds
  BY <1>1, RampUpDoneKeeps, RampDownDoneKeeps, TickKeeps, PacketEndsKeeps DEF Hardware
<1>2. CASE Handlers \/ KickIsr
  BY <1>2, RadioIsrKeeps, RadioIsrSpuriousKeeps, PacketCbKeeps, TimerIsrKeeps, KickIsrKeeps
     DEF Handlers
<1>3. CASE UsbStop \/ UsbStart
  BY <1>3, UsbStopKeeps, UsbStartKeeps
<1>4. CASE Usb
  BY <1>4, UsbStopShortsKeeps, UsbStopEventKeeps, UsbStopDisableKeeps, UsbStopWaitKeeps,
     UsbStartBufferKeeps, UsbStartTurnKeeps, UsbStartTestKeeps, UsbStartModeKeeps,
     UsbStartNoteKeeps, UsbStartEventsKeeps, UsbStartRunningKeeps, UsbStartRxEnKeeps DEF Usb
<1>5. CASE Dog
  BY <1>5, DogTestKeeps, DogRxEnKeeps DEF Dog
<1>6. CASE UNCHANGED vars
  <2>1. TypeOK'
    BY <1>6 DEF vars, IInv, TypeOK
  <2>2. Reception'
    BY <1>6 DEF vars, IInv, Reception, EndIsPending, BufferApart, PhyInv, HeldInv,
     PhySteps, Mode
  <2>3. Whole'
    BY <1>6 DEF vars, IInv, Whole, BufferInv, HaltInv, DogInv, StopInv, StartInv,
       StopSteps, StartSteps
  <2> QED BY <2>1, <2>2, <2>3 DEF IInv
<1> QED BY <1>1, <1>2, <1>3, <1>4, <1>5, <1>6 DEF Next

\* In every reachable state the invariant holds.
THEOREM InvariantHolds == Spec => []IInv
BY InitInv, NextKeeps, PTL DEF Spec

\* Every variable of the driver and the peripheral has its type: no index
\* leaves the two buffers, whatever is interrupted by what.
THEOREM TypeCorrect == Spec => []TypeOK
<1>1. IInv => TypeOK
  BY DEF IInv
<1> QED BY <1>1, InvariantHolds, PTL

\* The hardware never writes the buffer in the callback's hands, and the
\* callback is handed the buffer the packet was received in (radio_isr).
THEOREM CallbackOwnsItsBuffer == Spec => []BufferUntouched
<1>1. IInv => BufferUntouched
  <2> SUFFICES ASSUME IInv PROVE BufferUntouched
    OBVIOUS
  <2>1. hw.dma # NoBuffer
    <3>1. hw.dma \in {0, 1}
      BY DEF IInv, TypeOK, Peripheral
    <3> QED BY <3>1 DEF NoBuffer
  <2>2. hw.state = "Rx" => hw.dma # busy
    BY <2>1 DEF IInv, Reception, BufferApart
  <2>3. hw.end /\ drv.running /\ ~torn => hw.dma = drv.idx
    BY DEF IInv, Whole, BufferInv
  <2> QED BY <2>2, <2>3 DEF BufferUntouched
<1> QED BY <1>1, InvariantHolds, PTL

\* The receiver's PHYs alternate with the packets of an event, from its first
\* on (radio_set_alt_phy), and each packet is reported with the PHY it came on,
\* however the receiver was stopped and restarted: a START must only not be
\* overtaken by a handler before it has set the PHY.
THEOREM PhysAlternate == Spec => []PhyTakesTurns
<1>1. IInv => PhyTakesTurns
  BY DEF IInv, Reception, PhyInv, PhyTakesTurns, PhySteps
<1> QED BY <1>1, InvariantHolds, PTL
=============================================================================
