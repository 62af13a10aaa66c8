------------------------------ MODULE RtcProof ------------------------------
(***************************************************************************)
(* Proofs about Rtc, for every counter width, every range of sleep lengths *)
(* and every work and wake-up budget that satisfies RtcAssumption.         *)
(***************************************************************************)
EXTENDS Rtc, TLAPS

(* The phases of the thread that the invariant tells apart.                *)
Working == tpc \in {"run", "arm", "ack"}
Waiting == tpc \in {"loop", "wfe", "asleep"}

(* Outside rtc_sleep_ticks and while arming, no compare can be under way:  *)
(* the counter is below every value CC0 may hold.                          *)
WorkInv ==
  Working => /\ counter <= MaxWork
             /\ evCompare0 = 0
             /\ isr # "acked"
             /\ tpc # "run" => s_fired = 0 /\ ticks \in TickArgs
             /\ tpc = "ack" => cc0 = ticks

(* While waiting, the compare is either still ahead, and nothing has fired,*)
(* or it has happened exactly once.                                        *)
WaitInv ==
  Waiting => /\ ticks \in TickArgs /\ cc0 = ticks
             /\ counter <= ticks + MaxLag
             /\ counter < ticks =>
                  evCompare0 = 0 /\ s_fired = 0 /\ isr # "acked"
             /\ counter >= ticks =>
                  (s_fired = 1 /\ evCompare0 = 0) \/ (s_fired = 0 /\ evCompare0 = 1)
             /\ isr = "acked" => s_fired = 1
             /\ tpc \in {"wfe", "asleep"} /\ s_fired = 1 =>
                  eventReg = 1 \/ isr = "acked"

(* Between the loop and the clear.                                         *)
ClearInv ==
  tpc = "clear" => /\ ticks \in TickArgs /\ cc0 = ticks
                   /\ counter \in ticks .. ticks + MaxLag
                   /\ evCompare0 = 0
                   /\ isr # "acked"

OffInv == tpc = "off" => isr = "idle" /\ irq = 0 /\ evCompare0 = 0

(* The inductive invariant.                                                *)
IInv ==
  /\ TypeOK
  /\ wrapped = 0
  /\ WorkInv
  /\ WaitInv
  /\ ClearInv
  /\ OffInv

-----------------------------------------------------------------------------
(* A counter below the modulus is advanced without wrapping.               *)
LEMMA NoWrap ==
  ASSUME NEW m \in Nat, NEW n \in Nat, n < m
  PROVE  n % m = n
  OBVIOUS

LEMMA InitInv == Init => IInv
  BY RtcAssumption
  DEF Init, IInv, TypeOK, ThreadPcs, IsrPcs, TickArgs, WorkInv, WaitInv,
      ClearInv, OffInv, Working, Waiting

(* A tick moves the counter one step, below the modulus.                   *)
LEMMA TickCounter ==
  ASSUME IInv, Tick
  PROVE  /\ counter' = counter + 1 /\ wrapped' = 0
         /\ counter + 1 <= MaxTicks + MaxLag
         /\ Working => counter + 1 <= MaxWork
         /\ Waiting \/ tpc = "clear" => counter + 1 <= ticks + MaxLag
  <1>1. Working => counter + 1 <= MaxWork
    BY RtcAssumption DEF IInv, TypeOK, Tick, InBudget, Working
  <1>2. Waiting \/ tpc = "clear" => counter + 1 <= ticks + MaxLag
    BY RtcAssumption
    DEF IInv, TypeOK, TickArgs, WaitInv, ClearInv, Tick, InBudget, Waking,
        Waiting
  <1>3. counter + 1 <= MaxTicks + MaxLag
    <2>1. ticks \in TickArgs => ticks <= MaxTicks
      BY RtcAssumption DEF TickArgs
    <2>2. Working \/ Waiting \/ tpc = "clear"
      BY DEF IInv, TypeOK, ThreadPcs, Tick, Working, Waiting
    <2> QED
      BY <1>1, <1>2, <2>1, <2>2, RtcAssumption
      DEF IInv, TypeOK, WaitInv, ClearInv, TickArgs
  <1>4. (counter + 1) % CounterMod = counter + 1
    BY <1>3, NoWrap, RtcAssumption DEF IInv, TypeOK
  <1> QED
    BY <1>1, <1>2, <1>3, <1>4, RtcAssumption DEF IInv, TypeOK, Tick

LEMMA TickInv == IInv /\ Tick => IInv'
  <1> SUFFICES ASSUME IInv, Tick PROVE IInv'
    OBVIOUS
  <1>1. /\ counter' = counter + 1 /\ wrapped' = 0
        /\ counter + 1 <= MaxTicks + MaxLag
        /\ Working => counter + 1 <= MaxWork
        /\ Waiting \/ tpc = "clear" => counter + 1 <= ticks + MaxLag
    BY TickCounter
  <1>2. /\ UNCHANGED <<tpc, isr, s_fired, ticks, cc0, eventReg>>
        /\ tpc # "off"
        /\ \/ counter' = cc0 /\ evCompare0' = 1 /\ irq' = 1
           \/ counter' # cc0 /\ UNCHANGED <<evCompare0, irq>>
    BY DEF Tick
  <1>3. TypeOK'
    BY <1>1, <1>2, RtcAssumption DEF IInv, TypeOK
  <1>4. WorkInv'
    BY <1>1, <1>2, RtcAssumption
    DEF IInv, TypeOK, TickArgs, WorkInv, Working
  <1>5. WaitInv'
    BY <1>1, <1>2, RtcAssumption
    DEF IInv, TypeOK, TickArgs, WaitInv, Waiting
  <1>6. ClearInv'
    BY <1>1, <1>2, RtcAssumption
    DEF IInv, TypeOK, TickArgs, ClearInv
  <1>7. OffInv'
    BY <1>2 DEF OffInv
  <1> QED
    BY <1>1, <1>3, <1>4, <1>5, <1>6, <1>7 DEF IInv

LEMMA ThreadInv == IInv /\ Thread => IInv'
  <1> SUFFICES ASSUME IInv, Thread PROVE IInv'
    OBVIOUS
  <1> USE RtcAssumption
      DEF IInv, TypeOK, ThreadPcs, IsrPcs, TickArgs, WorkInv, WaitInv,
          ClearInv, OffInv, Working, Waiting, ThreadAt
  <1>1. CASE rtc_init
    BY <1>1 DEF rtc_init, ClearCounter
  <1>2. ASSUME NEW t \in TickArgs, rtc_sleep_ticks(t) PROVE IInv'
    BY <1>2 DEF rtc_sleep_ticks
  <1>3. CASE ArmCompare
    BY <1>3 DEF ArmCompare
  <1>4. CASE ClearEvent
    BY <1>4 DEF ClearEvent
  <1>5. CASE TestFired
    BY <1>5 DEF TestFired
  <1>6. CASE nrf_wfe
    BY <1>6 DEF nrf_wfe
  <1>7. CASE Wake
    BY <1>7 DEF Wake
  <1>8. CASE ClearAndReturn
    BY <1>8 DEF ClearAndReturn, ClearCounter
  <1> QED
    BY <1>1, <1>2, <1>3, <1>4, <1>5, <1>6, <1>7, <1>8 DEF Thread

LEMMA InterruptInv == IInv /\ Interrupt => IInv'
  <1> SUFFICES ASSUME IInv, Interrupt PROVE IInv'
    OBVIOUS
  <1> USE RtcAssumption
      DEF IInv, TypeOK, ThreadPcs, IsrPcs, TickArgs, WorkInv, WaitInv,
          ClearInv, OffInv, Working, Waiting
  <1>1. CASE IsrEnter
    BY <1>1 DEF IsrEnter
  <1>2. CASE RTC0_IRQHandler
    BY <1>2 DEF RTC0_IRQHandler
  <1>3. CASE IsrReturn
    BY <1>3 DEF IsrReturn
  <1> QED
    BY <1>1, <1>2, <1>3 DEF Interrupt

LEMMA StepInv == IInv /\ [Next]_vars => IInv'
  <1> SUFFICES ASSUME IInv, [Next]_vars PROVE IInv'
    OBVIOUS
  <1>1. CASE OtherEvent
    BY <1>1
    DEF OtherEvent, IInv, TypeOK, WorkInv, WaitInv, ClearInv, OffInv, Working,
        Waiting
  <1>2. CASE Reset
    BY <1>2, RtcAssumption
    DEF Reset, IInv, TypeOK, ThreadPcs, IsrPcs, TickArgs, WorkInv, WaitInv,
        ClearInv, OffInv, Working, Waiting
  <1>3. CASE UNCHANGED vars
    BY <1>3
    DEF vars, IInv, TypeOK, WorkInv, WaitInv, ClearInv, OffInv, Working,
        Waiting
  <1> QED
    BY <1>1, <1>2, <1>3, TickInv, ThreadInv, InterruptInv DEF Next

-----------------------------------------------------------------------------
LEMMA Invariance == Spec => []IInv
  BY InitInv, StepInv, PTL DEF Spec

(* Every variable of the timer keeps its type.                             *)
THEOREM RtcTypeOK == Spec => []TypeOK
  <1>1. IInv => TypeOK
    BY DEF IInv
  <1> QED
    BY <1>1, Invariance, PTL

(* A sleep of rtc_sleep_ticks lasts as long as asked: never shorter, and   *)
(* never longer than the wake-up lag, whatever the interleaving of thread, *)
(* handler, ticks, spurious wakeups and resets.                            *)
THEOREM RtcIntervalKept == Spec => []IntervalKept
  <1>1. IInv => IntervalKept
    BY DEF IInv, ClearInv, IntervalKept
  <1> QED
    BY <1>1, Invariance, PTL

(* The core never stops in WFE after the handler has set the flag with     *)
(* nothing left to wake it.                                                *)
THEOREM RtcNoLostWakeup == Spec => []NoLostWakeup
  <1>1. IInv => NoLostWakeup
    BY DEF IInv, WaitInv, Waiting, NoLostWakeup
  <1> QED
    BY <1>1, Invariance, PTL

(* The counter never runs past the armed compare without the wake-up being *)
(* under way.                                                              *)
THEOREM RtcCompareNotMissed == Spec => []CompareNotMissed
  <1>1. IInv => CompareNotMissed
    BY RtcAssumption
    DEF IInv, TypeOK, TickArgs, WaitInv, Waiting, CompareNotMissed, Waking
  <1> QED
    BY <1>1, Invariance, PTL
=============================================================================
