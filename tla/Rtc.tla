-------------------------------- MODULE Rtc --------------------------------
(***************************************************************************)
(* The interval timer of the beacon (src/rtc.c): the thread that calls     *)
(* rtc_sleep_ticks, the interrupt handler RTC0_IRQHandler, and the         *)
(* hardware between them: the RTC0 counter and its compare register, the   *)
(* pending bit of the interrupt controller and the event register WFE      *)
(* waits on.                                                               *)
(*                                                                         *)
(* Time is the LF clock: a Tick may fall between any two steps of the      *)
(* thread or of the handler, within the two budgets MaxWork and MaxLag.    *)
(***************************************************************************)
EXTENDS Naturals

CONSTANTS
  CounterMod,  \* COUNTER wraps here (2^24 on the chip)
  MinTicks,    \* shortest and longest argument of rtc_sleep_ticks
  MaxTicks,
  MaxWork,     \* ticks the thread may spend between a clear and the next arming
  MaxLag       \* ticks that may pass between the compare and the clear

(* An advertising event (about 1.2 ms, docs/03) is far shorter than the    *)
(* shortest interval (30 ms), and the longest interval is far shorter than *)
(* the wrap of the counter (512 s).                                        *)
ASSUME RtcAssumption ==
  /\ CounterMod \in Nat /\ MinTicks \in Nat /\ MaxTicks \in Nat
  /\ MaxWork \in Nat /\ MaxLag \in Nat
  /\ MaxWork < MinTicks /\ MinTicks <= MaxTicks
  /\ MaxTicks + MaxLag < CounterMod

VARIABLES
  tpc,         \* where the thread is, see ThreadPcs
  isr,         \* where RTC0_IRQHandler is, see IsrPcs
  s_fired,     \* the flag the handler sets for the thread
  ticks,       \* the argument of the last rtc_sleep_ticks
  counter,     \* RTC0 COUNTER
  cc0,         \* RTC0 CC[0]
  evCompare0,  \* RTC0 EVENTS_COMPARE[0]
  irq,         \* RTC0's pending bit in the NVIC
  eventReg,    \* the core's event register
  wrapped      \* history: COUNTER has wrapped since it was last cleared

vars == <<tpc, isr, s_fired, ticks, counter, cc0, evCompare0, irq, eventReg,
          wrapped>>

(* "off": before rtc_init. "run": the thread is outside rtc_sleep_ticks.   *)
(* The others are the statement rtc_sleep_ticks executes next, and         *)
(* "asleep" is inside WFE.                                                 *)
ThreadPcs == {"off", "run", "arm", "ack", "loop", "wfe", "asleep", "clear"}

(* "entered": the handler has been entered. "acked": it has acknowledged   *)
(* an event. "done": it found no event. Both then return.                  *)
IsrPcs == {"idle", "entered", "acked", "done"}

TickArgs == MinTicks .. MaxTicks

TypeOK ==
  /\ tpc \in ThreadPcs
  /\ isr \in IsrPcs
  /\ s_fired \in {0, 1}
  /\ ticks \in TickArgs \cup {0}
  /\ counter \in 0 .. CounterMod - 1
  /\ cc0 \in TickArgs \cup {0}
  /\ evCompare0 \in {0, 1}
  /\ irq \in {0, 1}
  /\ eventReg \in {0, 1}
  /\ wrapped \in {0, 1}

(* Out of reset: RTC0 is stopped and .bss has been zeroed.                 *)
Init ==
  /\ tpc = "off"
  /\ isr = "idle"
  /\ s_fired = 0
  /\ ticks = 0
  /\ counter = 0
  /\ cc0 = 0
  /\ evCompare0 = 0
  /\ irq = 0
  /\ eventReg = 0
  /\ wrapped = 0

-----------------------------------------------------------------------------
(* The thread. The handler preempts it.                                    *)

ThreadAt(p) == isr = "idle" /\ tpc = p

(* TASKS_CLEAR *)
ClearCounter == counter' = 0 /\ wrapped' = 0

rtc_init ==
  /\ ThreadAt("off")
  /\ tpc' = "run"
  /\ ClearCounter
  /\ UNCHANGED <<isr, s_fired, ticks, cc0, evCompare0, irq, eventReg>>

(* Mutant: the flag of the previous sleep is left set.                     *)
SleepKeepsFlag(t) ==
  /\ ThreadAt("run")
  /\ tpc' = "arm"
  /\ ticks' = t
  /\ UNCHANGED <<isr, s_fired, counter, cc0, evCompare0, irq, eventReg, wrapped>>

(* The call rtc_sleep_ticks(t), up to its first store.                     *)
rtc_sleep_ticks(t) ==
  /\ ThreadAt("run")
  /\ tpc' = "arm"
  /\ ticks' = t
  /\ s_fired' = 0
  /\ UNCHANGED <<isr, counter, cc0, evCompare0, irq, eventReg, wrapped>>

(* Mutant: the compare is armed relative to the running counter.           *)
ArmFromNow ==
  /\ ThreadAt("arm")
  /\ tpc' = "ack"
  /\ cc0' = counter + ticks
  /\ UNCHANGED <<isr, s_fired, ticks, counter, evCompare0, irq, eventReg,
                 wrapped>>

ArmCompare ==
  /\ ThreadAt("arm")
  /\ tpc' = "ack"
  /\ cc0' = ticks
  /\ UNCHANGED <<isr, s_fired, ticks, counter, evCompare0, irq, eventReg,
                 wrapped>>

ClearEvent ==
  /\ ThreadAt("ack")
  /\ tpc' = "loop"
  /\ evCompare0' = 0
  /\ UNCHANGED <<isr, s_fired, ticks, counter, cc0, irq, eventReg, wrapped>>

(* while (!s_fired) *)
TestFired ==
  /\ ThreadAt("loop")
  /\ tpc' = IF s_fired = 0 THEN "wfe" ELSE "clear"
  /\ UNCHANGED <<isr, s_fired, ticks, counter, cc0, evCompare0, irq, eventReg,
                 wrapped>>

(* Mutant: a wait that ignores the event register.                         *)
WaitAlways ==
  /\ ThreadAt("wfe")
  /\ tpc' = "asleep"
  /\ eventReg' = 0
  /\ UNCHANGED <<isr, s_fired, ticks, counter, cc0, evCompare0, irq, wrapped>>

(* WFE consumes a set event register and falls through, or stops the core. *)
nrf_wfe ==
  /\ ThreadAt("wfe")
  /\ tpc' = IF eventReg = 1 THEN "loop" ELSE "asleep"
  /\ eventReg' = 0
  /\ UNCHANGED <<isr, s_fired, ticks, counter, cc0, evCompare0, irq, wrapped>>

(* The core leaves WFE when the event register becomes set.                *)
Wake ==
  /\ ThreadAt("asleep")
  /\ eventReg = 1
  /\ tpc' = "loop"
  /\ eventReg' = 0
  /\ UNCHANGED <<isr, s_fired, ticks, counter, cc0, evCompare0, irq, wrapped>>

(* Mutant: the counter runs on after the sleep.                            *)
ReturnWithoutClear ==
  /\ ThreadAt("clear")
  /\ tpc' = "run"
  /\ UNCHANGED <<isr, s_fired, ticks, counter, cc0, evCompare0, irq, eventReg,
                 wrapped>>

(* The last statement of rtc_sleep_ticks, and its return.                  *)
ClearAndReturn ==
  /\ ThreadAt("clear")
  /\ tpc' = "run"
  /\ ClearCounter
  /\ UNCHANGED <<isr, s_fired, ticks, cc0, evCompare0, irq, eventReg>>

-----------------------------------------------------------------------------
(* The interrupt.                                                          *)

IsrEnter ==
  /\ isr = "idle"
  /\ irq = 1
  /\ isr' = "entered"
  /\ irq' = 0
  /\ UNCHANGED <<tpc, s_fired, ticks, counter, cc0, evCompare0, eventReg,
                 wrapped>>

(* Mutant: the handler does not acknowledge the event.                     *)
HandlerWithoutAck ==
  /\ isr = "entered"
  /\ IF evCompare0 = 1 THEN s_fired' = 1 /\ isr' = "acked"
                       ELSE isr' = "done" /\ UNCHANGED s_fired
  /\ UNCHANGED <<tpc, ticks, counter, cc0, evCompare0, irq, eventReg, wrapped>>

RTC0_IRQHandler ==
  /\ isr = "entered"
  /\ \/ /\ evCompare0 = 1
        /\ evCompare0' = 0
        /\ s_fired' = 1
        /\ isr' = "acked"
     \/ /\ evCompare0 = 0
        /\ isr' = "done"
        /\ UNCHANGED <<evCompare0, s_fired>>
  /\ UNCHANGED <<tpc, ticks, counter, cc0, irq, eventReg, wrapped>>

(* The exception return sets the event register. The line is sampled       *)
(* again: it is pending if the event is (still) set, and it may be pending *)
(* once more after an acknowledge whose store has not reached RTC0 yet.    *)
IsrReturn ==
  /\ isr \in {"acked", "done"}
  /\ irq' \in IF irq = 1 \/ evCompare0 = 1 THEN {1}
              ELSE IF isr = "acked" THEN {0, 1} ELSE {0}
  /\ isr' = "idle"
  /\ eventReg' = 1
  /\ UNCHANGED <<tpc, s_fired, ticks, counter, cc0, evCompare0, wrapped>>

-----------------------------------------------------------------------------
(* The hardware.                                                           *)

(* The compare has happened and the thread has not yet seen it.            *)
Waking == evCompare0 = 1 \/ irq = 1 \/ isr # "idle" \/ s_fired = 1

(* How far the counter may be while the CPU has something to do.           *)
InBudget ==
  IF tpc \in {"run", "arm", "ack"}
    THEN counter < MaxWork
    ELSE tpc = "clear" \/ Waking => counter < cc0 + MaxLag

Tick ==
  /\ tpc # "off"
  /\ InBudget
  /\ counter' = (counter + 1) % CounterMod
  /\ wrapped' = IF counter' = 0 THEN 1 ELSE wrapped
  /\ \/ /\ counter' = cc0
        /\ evCompare0' = 1
        /\ irq' = 1
     \/ /\ counter' # cc0
        /\ UNCHANGED <<evCompare0, irq>>
  /\ UNCHANGED <<tpc, isr, s_fired, ticks, cc0, eventReg>>

(* Some other event (a debugger, another exception) sets the event         *)
(* register: the spurious wakeup the loop of rtc_sleep_ticks re-checks for.*)
OtherEvent ==
  /\ tpc # "off"
  /\ eventReg = 0
  /\ eventReg' = 1
  /\ UNCHANGED <<tpc, isr, s_fired, ticks, counter, cc0, evCompare0, irq,
                 wrapped>>

(* A reset at any moment (power cycle, reset pin, reflash) stops RTC0 and  *)
(* the core. .bss is zeroed again.                                         *)
Reset ==
  /\ tpc' = "off" /\ isr' = "idle" /\ s_fired' = 0 /\ ticks' = 0
  /\ counter' = 0 /\ cc0' = 0 /\ evCompare0' = 0 /\ irq' = 0
  /\ eventReg' = 0 /\ wrapped' = 0

-----------------------------------------------------------------------------
Thread ==
  \/ rtc_init
  \/ \E t \in TickArgs : rtc_sleep_ticks(t)
  \/ ArmCompare \/ ClearEvent \/ TestFired \/ nrf_wfe \/ Wake \/ ClearAndReturn

Interrupt == IsrEnter \/ RTC0_IRQHandler \/ IsrReturn

Next == Thread \/ Interrupt \/ Tick \/ OtherEvent \/ Reset

Spec == Init /\ [][Next]_vars

(* The core executes the thread and the handler, the LF crystal ticks.     *)
(* Nothing is assumed of resets and of other events.                       *)
FairSpec ==
  Spec /\ WF_vars(Thread) /\ WF_vars(Interrupt) /\ WF_vars(Tick)

-----------------------------------------------------------------------------
(* Properties.                                                             *)

(* rtc_sleep_ticks(ticks) leaves its loop when at least ticks LF ticks     *)
(* have passed since the counter was cleared, and at most MaxLag more: no  *)
(* stale flag, stale compare or spurious wakeup ends the sleep early, and  *)
(* no compare is missed, which would cost a whole turn of the counter.     *)
IntervalKept ==
  tpc = "clear" => wrapped = 0 /\ counter \in ticks .. ticks + MaxLag

(* The window between the test of s_fired and WFE loses no wakeup: a core  *)
(* stopped in WFE with the flag already set has the event register set, or *)
(* the handler that sets it is still running.                              *)
NoLostWakeup ==
  tpc = "asleep" /\ s_fired = 1 => eventReg = 1 \/ isr # "idle"

(* The counter never reaches the armed compare unnoticed: while the thread *)
(* waits, either the compare is still ahead or its event is on the way     *)
(* (event flag, pending interrupt, handler, s_fired).                      *)
CompareNotMissed ==
  tpc \in {"loop", "wfe", "asleep"} => wrapped = 0 /\ (counter < ticks \/ Waking)

(* Every sleep ends, unless the chip is reset again and again: the handler *)
(* acknowledges its event (no interrupt storm) and the thread is woken.    *)
SleepEnds ==
  (<>[][~Reset]_vars) => (tpc = "arm" ~> tpc = "run")

=============================================================================
