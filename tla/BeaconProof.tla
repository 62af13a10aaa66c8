---------------------------- MODULE BeaconProof ----------------------------
(***************************************************************************)
(* Proofs about Beacon, for every counter width, every clock rate, every   *)
(* choice of the intervals and of the jitter, and every time budget that   *)
(* satisfies BeaconAssumption.  The composition is shown to use its parts  *)
(* as their modules allow, so that the theorems of RadioProof and RtcProof *)
(* hold of it, and to implement AdvSchedule.                               *)
(***************************************************************************)
EXTENDS Beacon, TLAPS

RadioP == INSTANCE RadioProof
RtcP == INSTANCE RtcProof

-----------------------------------------------------------------------------
(* The parameters: a sleep of main is always in the range of Rtc.          *)

LEMMA DivMonotonic ==
  ASSUME NEW a \in Nat, NEW b \in Nat, a <= b
  PROVE  a \div 1000 \in Nat /\ a \div 1000 <= b \div 1000
  OBVIOUS

LEMMA TimesMonotonic ==
  ASSUME NEW a \in Nat, NEW b \in Nat, NEW c \in Nat, a <= b
  PROVE  a * c \in Nat /\ b * c \in Nat /\ a * c <= b * c
  OBVIOUS

LEMMA TicksMonotonic ==
  ASSUME NEW a \in Nat, NEW b \in Nat, a <= b
  PROVE  /\ RTC_MS_TO_TICKS(a) \in Nat
         /\ RTC_MS_TO_TICKS(a) <= RTC_MS_TO_TICKS(b)
  BY BeaconAssumption, TimesMonotonic, DivMonotonic DEF RTC_MS_TO_TICKS

(* Rtc's assumption holds of the values Beacon gives to its constants.     *)
LEMMA RtcParameters ==
  /\ CounterMod \in Nat /\ MinTicks \in Nat /\ MaxTicks \in Nat
  /\ MaxWork \in Nat /\ MaxLag \in Nat
  /\ MaxWork < MinTicks /\ MinTicks <= MaxTicks
  /\ MaxTicks + MaxLag < CounterMod
  <1>1. ADV_INTERVAL_LOST_MS <= ADV_INTERVAL_MS + ADV_JITTER_MAX_MS
    BY BeaconAssumption
  <1>2. MinTicks \in Nat /\ MaxTicks \in Nat /\ MinTicks <= MaxTicks
    BY <1>1, BeaconAssumption, TicksMonotonic DEF MinTicks, MaxTicks
  <1> QED
    BY <1>2, BeaconAssumption

LEMMA SleepInRange ==
  ASSUME jitter_ms \in 0 .. ADV_JITTER_MAX_MS
  PROVE  RTC_MS_TO_TICKS(base_ms + jitter_ms) \in MinTicks .. MaxTicks
  <1>1. /\ base_ms \in Nat
        /\ ADV_INTERVAL_LOST_MS <= base_ms + jitter_ms
        /\ base_ms + jitter_ms <= ADV_INTERVAL_MS + ADV_JITTER_MAX_MS
    BY BeaconAssumption DEF base_ms
  <1>2. /\ RTC_MS_TO_TICKS(base_ms + jitter_ms) \in Nat
        /\ MinTicks <= RTC_MS_TO_TICKS(base_ms + jitter_ms)
        /\ RTC_MS_TO_TICKS(base_ms + jitter_ms) <= MaxTicks
    BY <1>1, BeaconAssumption, TicksMonotonic DEF MinTicks, MaxTicks
  <1> QED
    BY <1>2, RtcParameters

-----------------------------------------------------------------------------
(* The control invariant: what the position of main says about its own     *)
(* variables, about the units it has started and about its two callees.    *)

BootPcs == {"board", "hfxo", "lfxo", "auth", "radio", "rtc"}

NumTypes ==
  /\ pc \in MainPcs
  /\ i \in 1 .. 3
  /\ jitter_ms \in 0 .. ADV_JITTER_MAX_MS
  /\ s_counter \in Counters
  /\ unit \in [Units -> UnitStates]
  /\ event \in [Units -> {0, 1}]
  /\ phase \in UnitPhases

BoolTypes ==
  /\ lost_mode \in BOOLEAN /\ btn_prev \in BOOLEAN
  /\ pressed \in BOOLEAN /\ led1 \in BOOLEAN /\ led2 \in BOOLEAN

(* A unit is stopped until main starts it, its event is clear before the   *)
(* trigger, and main goes on only when it runs.                            *)
UnitInv ==
  /\ pc \notin Units => phase = "clear"
  /\ pc = "board" => unit["hfxo"] = "stopped"
  /\ pc \in {"board", "hfxo"} => unit["lfxo"] = "stopped"
  /\ pc # "rng" => unit["rng"] = "stopped"
  /\ pc \in Units /\ phase # "poll" => unit[pc] = "stopped"
  /\ pc \in Units /\ phase = "task" => event[pc] = 0
  /\ pc \in Units /\ phase = "poll" /\ event[pc] = 1 => unit[pc] = "running"
  /\ pc \notin {"board", "hfxo"} => unit["hfxo"] = "running"
  /\ pc \notin {"board", "hfxo", "lfxo"} => unit["lfxo"] = "running"

(* Main is inside radio_send exactly when the driver is.                   *)
CalleeInv ==
  /\ pc \in {"board", "hfxo", "lfxo", "auth", "radio"} => rpc = "off"
  /\ pc \notin {"board", "hfxo", "lfxo", "auth", "radio", "sending"} =>
       rpc = "idle"
  /\ pc = "sending" => rpc \in {"clear", "txen", "wait"}
  /\ pc \in BootPcs => tpc = "off"

Ctl == NumTypes /\ UnitInv /\ CalleeInv

LEMMA CtlInit == Init => Ctl
  BY BeaconAssumption
  DEF Init, Ctl, NumTypes, UnitInv, CalleeInv, MainPcs, Units, UnitStates,
      UnitPhases, Counters, Radio!InitWith, Rtc!Init

LEMMA CtlBoot == Ctl /\ Boot => Ctl'
  <1> SUFFICES ASSUME Ctl, Boot PROVE Ctl'
    OBVIOUS
  <1> USE DEF Ctl, NumTypes, UnitInv, CalleeInv, MainPcs, BootPcs, Units,
              UnitPhases, MainAt, unitVars, radioVars, rtcVars
  <1>1. CASE board_init
    BY <1>1 DEF board_init
  <1>2. ASSUME NEW u \in {"hfxo", "lfxo"}, clock_started(u) PROVE Ctl'
    BY <1>2 DEF clock_started, UnitAt
  <1>3. CASE auth_init
    BY <1>3, BeaconAssumption DEF auth_init, Counters
  <1>4. CASE radio_init
    BY <1>4 DEF radio_init, Radio!radio_init
  <1>5. CASE rtc_init
    BY <1>5 DEF rtc_init, Rtc!rtc_init
  <1> QED
    BY <1>1, <1>2, <1>3, <1>4, <1>5 DEF Boot

LEMMA CtlUseUnit == Ctl /\ UseUnit => Ctl'
  <1> SUFFICES ASSUME Ctl, NEW u \in Units, ClearEvent(u) \/ TriggerTask(u)
               PROVE  Ctl'
    BY DEF UseUnit
  <1> USE DEF Ctl, NumTypes, UnitInv, CalleeInv, MainPcs, BootPcs, Units,
              UnitStates, UnitPhases, MainAt, UnitAt, mainVars, radioVars,
              rtcVars
  <1>1. CASE ClearEvent(u)
    BY <1>1 DEF ClearEvent
  <1>2. CASE TriggerTask(u)
    BY <1>2 DEF TriggerTask
  <1> QED
    BY <1>1, <1>2

LEMMA CtlLoop == Ctl /\ Loop => Ctl'
  <1> SUFFICES ASSUME Ctl, Loop PROVE Ctl'
    OBVIOUS
  <1> USE DEF Ctl, NumTypes, UnitInv, CalleeInv, MainPcs, BootPcs, Units,
              UnitPhases, MainAt, mainVars, unitVars, radioVars, rtcVars
  <1>1. CASE PollButton
    BY <1>1 DEF PollButton
  <1>2. CASE auth_next_counter
    BY <1>2, BeaconAssumption
    DEF auth_next_counter, Counters, Adv!NextCounter
  <1>3. CASE BuildHead
    BY <1>3 DEF BuildHead, FillPdu
  <1>4. CASE BuildTail
    BY <1>4 DEF BuildTail, FillPdu
  <1>5. CASE StartSend
    BY <1>5 DEF StartSend, Radio!radio_send
  <1>6. CASE SendStep
    BY <1>6 DEF SendStep, Radio!ClearEvents, Radio!TxEn
  <1>7. CASE SendReturned
    BY <1>7 DEF SendReturned, Radio!Return
  <1>8. CASE led_toggle
    BY <1>8 DEF led_toggle
  <1>9. CASE rng_get_byte
    <2>1. jitter_ms' \in 0 .. ADV_JITTER_MAX_MS
      BY <1>9, BeaconAssumption DEF rng_get_byte
    <2> QED
      BY <1>9, <2>1 DEF rng_get_byte, UnitAt, UnitStates
  <1>10. CASE StartSleep
    BY <1>10 DEF StartSleep, Rtc!rtc_sleep_ticks
  <1>11. CASE SleepStep
    BY <1>11 DEF SleepStep
  <1>12. CASE SleepReturned
    BY <1>12 DEF SleepReturned
  <1> QED
    BY <1>1, <1>2, <1>3, <1>4, <1>5, <1>6, <1>7, <1>8, <1>9, <1>10, <1>11,
       <1>12
    DEF Loop

LEMMA CtlStep == Ctl /\ [Next]_vars => Ctl'
  <1> SUFFICES ASSUME Ctl, [Next]_vars PROVE Ctl'
    OBVIOUS
  <1> USE DEF Ctl, NumTypes, UnitInv, CalleeInv, BootPcs, mainVars, unitVars,
              radioVars, rtcVars
  <1>1. CASE Interrupt
    BY <1>1
    DEF Interrupt, Rtc!Interrupt, Rtc!IsrEnter, Rtc!RTC0_IRQHandler,
        Rtc!IsrReturn
  <1>2. CASE Tick
    BY <1>2 DEF Tick, Rtc!Tick
  <1>3. CASE OtherEvent
    BY <1>3 DEF OtherEvent, Rtc!OtherEvent
  <1>4. ASSUME NEW u \in Units, UnitStarted(u) PROVE Ctl'
    BY <1>4 DEF UnitStarted, Units, UnitStates
  <1>5. CASE RadioRuns
    BY <1>5 DEF RadioRuns, Radio!Ready, Radio!RampedDown
  <1>6. CASE PacketSent
    BY <1>6 DEF PacketSent, Radio!End
  <1>7. CASE Button
    BY <1>7 DEF Button
  <1>8. CASE Reset
    BY <1>8, BeaconAssumption
    DEF Reset, MainPcs, Units, UnitStates, UnitPhases, Counters,
        Radio!ResetWith, Rtc!Reset
  <1>9. CASE UNCHANGED vars
    BY <1>9 DEF vars
  <1> QED
    BY <1>1, <1>2, <1>3, <1>4, <1>5, <1>6, <1>7, <1>8, <1>9, CtlBoot,
       CtlUseUnit, CtlLoop
    DEF Next, Main, Hardware

LEMMA CtlInvariance == Spec => []Ctl
  BY CtlInit, CtlStep, PTL DEF Spec

-----------------------------------------------------------------------------
(* The parts: every step of the composition is a step of Radio or leaves   *)
(* it alone, and likewise for Rtc.                                         *)

LEMMA PdusInv == Zeroed \in Pdus /\ \A c \in Counters : Torn(c) \in Pdus /\ Frame(c) \in Pdus
  BY BeaconAssumption DEF Zeroed, Torn, Frame, Pdus, Counters

LEMMA RadioStep == Ctl /\ [Next]_vars => [Radio!Next]_Radio!vars
  <1> SUFFICES ASSUME Ctl, [Next]_vars, ~UNCHANGED radioVars PROVE Radio!Next
    BY DEF radioVars, Radio!vars
  <1> USE DEF radioVars, Radio!Next, Radio!Driver, Radio!Peripheral
  <1>1. CASE radio_init
    BY <1>1 DEF radio_init
  <1>2. CASE BuildHead \/ BuildTail
    <2>1. PICK p \in Pdus : FillPdu(p)
      BY <1>2, PdusInv DEF BuildHead, BuildTail, Ctl, NumTypes
    <2>2. rpc = "idle"
      BY <1>2 DEF BuildHead, BuildTail, MainAt, Ctl, CalleeInv
    <2> QED
      BY <2>1, <2>2 DEF FillPdu, Radio!WritePdu
  <1>3. CASE StartSend
    <2>1. s_channels[i] \in Radio!Channels
      BY DEF s_channels, Radio!Channels, Ctl, NumTypes
    <2> QED
      BY <1>3, <2>1 DEF StartSend
  <1>4. CASE SendStep
    BY <1>4 DEF SendStep
  <1>5. CASE SendReturned
    BY <1>5 DEF SendReturned
  <1>6. CASE RadioRuns
    BY <1>6 DEF RadioRuns
  <1>7. CASE PacketSent
    BY <1>7 DEF PacketSent
  <1>8. CASE Reset
    BY <1>8, PdusInv DEF Reset, Radio!Reset
  <1>9. QED
    BY <1>1, <1>2, <1>3, <1>4, <1>5, <1>6, <1>7, <1>8
    DEF vars, Next, Main, Boot, UseUnit, Loop, Hardware, board_init,
        clock_started, auth_init, rtc_init, ClearEvent, TriggerTask,
        PollButton, auth_next_counter, led_toggle, rng_get_byte, StartSleep,
        SleepStep, SleepReturned, Interrupt, Tick, OtherEvent, UnitStarted,
        Button

(* The firmware uses the radio as Radio specifies: it never fills the PDU  *)
(* or calls radio_send while a call is under way.                          *)
THEOREM BeaconUsesRadio == Spec => UsesRadio
  <1>1. Init => Radio!Init
    BY PdusInv DEF Init, Radio!Init
  <1> QED
    BY <1>1, RadioStep, CtlInvariance, PTL DEF Spec, UsesRadio, Radio!Spec

LEMMA RtcStep == Ctl /\ [Next]_vars => [Rtc!Next]_Rtc!vars
  <1> SUFFICES ASSUME Ctl, [Next]_vars, ~UNCHANGED rtcVars PROVE Rtc!Next
    BY DEF rtcVars, Rtc!vars
  <1> USE DEF rtcVars, Rtc!Next, Rtc!Thread
  <1>1. CASE rtc_init
    BY <1>1 DEF rtc_init
  <1>2. CASE StartSleep
    BY <1>2, SleepInRange
    DEF StartSleep, Rtc!TickArgs, Ctl, NumTypes
  <1>3. CASE SleepStep \/ SleepReturned
    BY <1>3 DEF SleepStep, SleepReturned
  <1>4. CASE Interrupt \/ Tick \/ OtherEvent \/ Reset
    BY <1>4 DEF Interrupt, Tick, OtherEvent, Reset
  <1>5. QED
    BY <1>1, <1>2, <1>3, <1>4
    DEF vars, Next, Main, Boot, UseUnit, Loop, Hardware, board_init,
        clock_started, auth_init, radio_init, ClearEvent, TriggerTask,
        PollButton, auth_next_counter, BuildHead, BuildTail, StartSend,
        SendStep, SendReturned, led_toggle, rng_get_byte, UnitStarted,
        RadioRuns, PacketSent, Button

(* The firmware uses the timer as Rtc specifies: every interval with its   *)
(* jitter, in ticks, is in the range Rtc is proved for.                    *)
THEOREM BeaconUsesRtc == Spec => UsesRtc
  <1>1. Init => Rtc!Init
    BY DEF Init
  <1> QED
    BY <1>1, RtcStep, CtlInvariance, PTL DEF Spec, UsesRtc, Rtc!Spec

-----------------------------------------------------------------------------
(* Radio is instantiated twice, here and under RadioProof: one formula.    *)
LEMMA RadioSame == Radio!Spec => RadioP!Spec
  <1>1. Radio!Init => RadioP!Init
    BY DEF Radio!Init, RadioP!Init, Radio!InitWith, RadioP!InitWith,
           Radio!Packet, RadioP!Packet
  <1>2. [Radio!Next]_Radio!vars => [RadioP!Next]_RadioP!vars
    BY DEF Radio!Next, RadioP!Next, Radio!vars, RadioP!vars, Radio!Driver,
           RadioP!Driver, Radio!Peripheral, RadioP!Peripheral,
           Radio!radio_init, RadioP!radio_init, Radio!radio_send,
           RadioP!radio_send, Radio!ClearEvents, RadioP!ClearEvents,
           Radio!TxEn, RadioP!TxEn, Radio!Return, RadioP!Return, Radio!Ready,
           RadioP!Ready, Radio!End, RadioP!End, Radio!RampedDown,
           RadioP!RampedDown, Radio!WritePdu, RadioP!WritePdu, Radio!Reset,
           RadioP!Reset, Radio!ResetWith, RadioP!ResetWith, Radio!Packet,
           RadioP!Packet, Radio!Channels, RadioP!Channels,
           Radio!channel_to_frequency, RadioP!channel_to_frequency
  <1> QED
    BY <1>1, <1>2, PTL DEF Radio!Spec, RadioP!Spec

LEMMA RadioInvariance == Spec => []RadioP!IInv
  BY BeaconUsesRadio, RadioSame, RadioP!Invariance, PTL DEF UsesRadio

(* No transmission without the crystal ("the RADIO requires the crystal",  *)
(* clock.h), no timer without the LF clock ("after the LFCLK is running",  *)
(* rtc.h).                                                                 *)
THEOREM BeaconClocksBeforeUse == Spec => []ClocksBeforeUse
  <1>1. Ctl /\ RadioP!IInv => ClocksBeforeUse
    <2> SUFFICES ASSUME Ctl, RadioP!IInv PROVE ClocksBeforeUse
      OBVIOUS
    <2>1. state # "Disabled" => rpc = "wait"
      BY DEF RadioP!IInv, RadioP!TypeOK, RadioP!EntryInv, RadioP!DriverPcs
    <2> QED
      BY <2>1
      DEF Ctl, NumTypes, MainPcs, UnitInv, CalleeInv, BootPcs, ClocksBeforeUse
  <1> QED
    BY <1>1, CtlInvariance, RadioInvariance, PTL

(* Main never goes on with a clock that is not stable or a random byte     *)
(* that is not new.                                                        *)
THEOREM BeaconPollIsFresh == Spec => []PollIsFresh
  <1>1. Ctl => PollIsFresh
    BY DEF Ctl, UnitInv, PollIsFresh
  <1> QED
    BY <1>1, CtlInvariance, PTL

-----------------------------------------------------------------------------
(* The schedule.                                                           *)

(* The next packet is the one of channel k of the current event.           *)
Due(k) == Adv!Following(emitted) = Adv!Emission(s_counter, s_channels[k])

(* The last packet was the one of channel k of the current event.          *)
Gone(k) == emitted = Adv!Emission(s_counter, s_channels[k])

(* What has been received, from the position of main and, inside           *)
(* radio_send, from the packets the radio has completed since the call.    *)
SchedInv ==
  /\ pc \in BootPcs => emitted = Adv!NoEmission /\ s_counter = 0
  /\ pc \in {"button", "count"} =>
       Gone(3) \/ (emitted = Adv!NoEmission /\ s_counter = 0)
  /\ pc \in {"build", "built"} => Due(1)
  /\ pc \in {"send", "sending"} => s_pdu = Frame(s_counter)
  /\ pc = "send" => Due(i)
  /\ pc = "sending" => /\ chan = s_channels[i]
                       /\ IF aired = <<>> THEN Due(i) ELSE Gone(i)
  /\ pc \in {"toggle", "rng", "sleep", "sleeping"} => Gone(3)

(* The channels of one event follow each other, and the next event begins  *)
(* with the next counter.                                                  *)
LEMMA ScheduleSteps ==
  ASSUME NEW c
  PROVE  /\ Adv!Following(Adv!NoEmission) =
              Adv!Emission(Adv!NextCounter(0), s_channels[1])
         /\ Adv!Following(Adv!Emission(c, s_channels[1])) =
              Adv!Emission(c, s_channels[2])
         /\ Adv!Following(Adv!Emission(c, s_channels[2])) =
              Adv!Emission(c, s_channels[3])
         /\ Adv!Following(Adv!Emission(c, s_channels[3])) =
              Adv!Emission(Adv!NextCounter(c), s_channels[1])
  <1>1. /\ s_channels[1] = 37 /\ s_channels[2] = 38 /\ s_channels[3] = 39
    BY DEF s_channels
  <1>2. \A d, ch : /\ Adv!Emission(d, ch).counter = d
                   /\ Adv!Emission(d, ch).channel = ch
    BY DEF Adv!Emission
  <1> QED
    BY <1>1, <1>2 DEF Adv!Following, Adv!NoEmission

(* A packet completed while the thread polls is received as the frame in   *)
(* s_pdu on the channel of the call.                                       *)
LEMMA SentIsReceived ==
  ASSUME Ctl, RadioP!IInv, SchedInv, Radio!End
  PROVE  /\ pc = "sending" /\ aired = <<>> /\ aired' # <<>>
         /\ Received(air') = Adv!Emission(s_counter, s_channels[i])
         /\ UNCHANGED <<s_pdu, chan>>
  <1>1. rpc = "wait" /\ state = "Tx"
    BY DEF Radio!End, RadioP!IInv, RadioP!TypeOK, RadioP!EntryInv,
           RadioP!DriverPcs
  <1>2. pc = "sending"
    BY <1>1 DEF Ctl, NumTypes, MainPcs, CalleeInv
  <1>3. /\ aired = <<>> /\ air \in RadioP!Packets
        /\ air.freq = RadioP!channel_to_frequency(chan)
        /\ air.white = chan /\ air.head = s_pdu
        /\ chan \in RadioP!Channels
    BY <1>1 DEF RadioP!IInv, RadioP!TypeOK, RadioP!WaitInv, RadioP!ReadyInv
  <1>4. /\ air'.freq = air.freq /\ air'.white = air.white
        /\ air'.head = air.head /\ air'.tail = s_pdu
    BY <1>3 DEF Radio!End, RadioP!Packets
  <1>5. s_pdu = Frame(s_counter) /\ chan = s_channels[i]
    BY <1>2 DEF SchedInv
  <1>6. Received(air') = Adv!Emission(s_counter, chan)
    BY <1>3, <1>4, <1>5
    DEF Received, Frame, RadioP!Channels, Radio!Channels,
        RadioP!channel_to_frequency, Radio!channel_to_frequency
  <1>7. aired' # <<>>
    BY <1>3 DEF Radio!End, RadioP!IInv, RadioP!TypeOK
  <1> QED
    BY <1>2, <1>3, <1>5, <1>6, <1>7 DEF Radio!End

LEMMA SchedInit == Init => SchedInv
  BY DEF Init, SchedInv, BootPcs

LEMMA SchedBoot == Ctl /\ SchedInv /\ Boot => SchedInv'
  <1> SUFFICES ASSUME Ctl, SchedInv, Boot PROVE SchedInv'
    OBVIOUS
  <1> USE DEF SchedInv, Due, Gone, BootPcs, MainAt, UnitAt
  <1>1. CASE board_init
    BY <1>1 DEF board_init
  <1>2. ASSUME NEW u \in {"hfxo", "lfxo"}, clock_started(u) PROVE SchedInv'
    BY <1>2 DEF clock_started
  <1>3. CASE auth_init
    BY <1>3 DEF auth_init
  <1>4. CASE radio_init
    BY <1>4 DEF radio_init
  <1>5. CASE rtc_init
    BY <1>5 DEF rtc_init
  <1> QED
    BY <1>1, <1>2, <1>3, <1>4, <1>5 DEF Boot

LEMMA SchedLoop == Ctl /\ RadioP!IInv /\ SchedInv /\ Loop => SchedInv'
  <1> SUFFICES ASSUME Ctl, RadioP!IInv, SchedInv, Loop PROVE SchedInv'
    OBVIOUS
  <1> USE DEF SchedInv, Due, Gone, BootPcs, MainAt, UnitAt, mainVars,
              radioVars
  <1>1. CASE PollButton
    BY <1>1 DEF PollButton
  <1>2. CASE auth_next_counter
    <2>1. Adv!Following(emitted) =
            Adv!Emission(Adv!NextCounter(s_counter), s_channels[1])
      BY <1>2, ScheduleSteps DEF auth_next_counter
    <2> QED
      BY <1>2, <2>1 DEF auth_next_counter
  <1>3. CASE BuildHead
    BY <1>3 DEF BuildHead
  <1>4. CASE BuildTail
    BY <1>4 DEF BuildTail, FillPdu
  <1>5. CASE StartSend
    BY <1>5 DEF StartSend, Radio!radio_send
  <1>6. CASE SendStep
    BY <1>6 DEF SendStep, Radio!ClearEvents, Radio!TxEn
  <1>7. CASE SendReturned
    <2>1. aired # <<>>
      BY <1>7
      DEF SendReturned, Radio!Return, RadioP!IInv, RadioP!WaitInv
    <2>2. Gone(i)
      BY <1>7, <2>1 DEF SendReturned
    <2>3. i = 1 \/ i = 2 \/ i = 3
      BY DEF Ctl, NumTypes
    <2>4. i < 3 => Adv!Following(emitted) =
                     Adv!Emission(s_counter, s_channels[i + 1])
      BY <2>2, <2>3, ScheduleSteps
    <2> QED
      BY <1>7, <2>2, <2>3, <2>4 DEF SendReturned, Radio!Return
  <1>8. CASE led_toggle
    BY <1>8 DEF led_toggle
  <1>9. CASE rng_get_byte
    BY <1>9 DEF rng_get_byte
  <1>10. CASE StartSleep
    BY <1>10 DEF StartSleep
  <1>11. CASE SleepStep
    BY <1>11 DEF SleepStep
  <1>12. CASE SleepReturned
    BY <1>12 DEF SleepReturned
  <1> QED
    BY <1>1, <1>2, <1>3, <1>4, <1>5, <1>6, <1>7, <1>8, <1>9, <1>10, <1>11,
       <1>12
    DEF Loop

LEMMA SchedStep == Ctl /\ RadioP!IInv /\ SchedInv /\ [Next]_vars => SchedInv'
  <1> SUFFICES ASSUME Ctl, RadioP!IInv, SchedInv, [Next]_vars PROVE SchedInv'
    OBVIOUS
  <1>1. CASE PacketSent
    <2>1. /\ pc = "sending" /\ aired' # <<>>
          /\ emitted' = Adv!Emission(s_counter, s_channels[i])
          /\ UNCHANGED <<s_pdu, chan, mainVars>>
      BY <1>1, SentIsReceived DEF PacketSent
    <2> QED
      BY <2>1 DEF SchedInv, BootPcs, Gone, mainVars
  <1> USE DEF SchedInv, Due, Gone, BootPcs, mainVars, radioVars
  <1>2. CASE Interrupt \/ Tick \/ OtherEvent \/ Button
    BY <1>2 DEF Interrupt, Tick, OtherEvent, Button
  <1>3. ASSUME NEW u \in Units, UnitStarted(u) PROVE SchedInv'
    BY <1>3 DEF UnitStarted
  <1>4. CASE RadioRuns
    BY <1>4 DEF RadioRuns, Radio!Ready, Radio!RampedDown
  <1>5. CASE Reset
    BY <1>5 DEF Reset
  <1>6. ASSUME NEW u \in Units, ClearEvent(u) \/ TriggerTask(u) PROVE SchedInv'
    BY <1>6 DEF ClearEvent, TriggerTask
  <1>7. CASE UNCHANGED vars
    BY <1>7 DEF vars
  <1> QED
    BY <1>1, <1>2, <1>3, <1>4, <1>5, <1>6, <1>7, SchedBoot, SchedLoop
    DEF Next, Main, UseUnit, Hardware

LEMMA SchedInvariance == Spec => []SchedInv
  BY SchedInit, SchedStep, CtlInvariance, RadioInvariance, PTL DEF Spec

(* The firmware implements the advertising schedule: a scanner receives    *)
(* whole frames only, channel 37, 38, 39 in turn with one counter, then    *)
(* the next counter.                                                       *)
THEOREM BeaconKeepsSchedule == Spec => KeepsSchedule
  <1>1. Init => Adv!Init
    BY DEF Init, Adv!Init
  <1>2. Ctl /\ RadioP!IInv /\ SchedInv /\ [Next]_vars => [Adv!Next]_emitted
    <2> SUFFICES ASSUME Ctl, RadioP!IInv, SchedInv, [Next]_vars,
                        emitted' # emitted
                 PROVE  Adv!Next
      OBVIOUS
    <2>1. CASE PacketSent
      BY <2>1, SentIsReceived DEF PacketSent, SchedInv, Due, Adv!Next, Adv!Emit
    <2>2. CASE Reset
      BY <2>2 DEF Reset, Adv!Next, Adv!Restart
    <2> QED
      BY <2>1, <2>2
      DEF vars, Next, Main, Boot, UseUnit, Loop, Hardware, board_init,
          clock_started, auth_init, radio_init, rtc_init, ClearEvent,
          TriggerTask, PollButton, auth_next_counter, BuildHead, BuildTail,
          StartSend, SendStep, SendReturned, led_toggle, rng_get_byte,
          StartSleep, SleepStep, SleepReturned, Interrupt, Tick, OtherEvent,
          UnitStarted, RadioRuns, Button
  <1> QED
    BY <1>1, <1>2, CtlInvariance, RadioInvariance, SchedInvariance, PTL
    DEF Spec, KeepsSchedule, Adv!Spec

-----------------------------------------------------------------------------
(* Types: the flags, and what is received.                                 *)

LEMMA BoolInvariance == Spec => []BoolTypes
  <1>1. Init => BoolTypes
    BY DEF Init, BoolTypes
  <1>2. BoolTypes /\ [Next]_vars => BoolTypes'
    BY DEF BoolTypes, vars, mainVars, ledVars, Next, Main, Boot, UseUnit, Loop,
           Hardware, board_init, clock_started, auth_init, radio_init,
           rtc_init, ClearEvent, TriggerTask, PollButton, auth_next_counter,
           BuildHead, BuildTail, StartSend, SendStep, SendReturned, led_toggle,
           rng_get_byte, StartSleep, SleepStep, SleepReturned, Interrupt, Tick,
           OtherEvent, UnitStarted, RadioRuns, PacketSent, Button, Reset
  <1> QED
    BY <1>1, <1>2, PTL DEF Spec

Emissions == [counter: Counters, channel: Radio!Channels] \cup {Adv!NoEmission}

EmittedType == emitted \in Emissions

LEMMA EmissionsInvariance == Spec => []EmittedType
  <1>1. Init => EmittedType
    BY DEF Init, Emissions, EmittedType
  <1>2. Ctl /\ RadioP!IInv /\ SchedInv /\ EmittedType /\ [Next]_vars
          => EmittedType'
    <2> SUFFICES ASSUME Ctl, RadioP!IInv, SchedInv, emitted \in Emissions,
                        [Next]_vars, emitted' # emitted
                 PROVE  emitted' \in Emissions
      BY DEF EmittedType
    <2>1. CASE PacketSent
      <3>1. s_channels[i] \in Radio!Channels /\ s_counter \in Counters
        BY DEF s_channels, Radio!Channels, Ctl, NumTypes
      <3> QED
        BY <2>1, <3>1, SentIsReceived DEF PacketSent, Adv!Emission, Emissions
    <2>2. CASE Reset
      BY <2>2 DEF Reset, Emissions
    <2> QED
      BY <2>1, <2>2
      DEF vars, Next, Main, Boot, UseUnit, Loop, Hardware, board_init,
          clock_started, auth_init, radio_init, rtc_init, ClearEvent,
          TriggerTask, PollButton, auth_next_counter, BuildHead, BuildTail,
          StartSend, SendStep, SendReturned, led_toggle, rng_get_byte,
          StartSleep, SleepStep, SleepReturned, Interrupt, Tick, OtherEvent,
          UnitStarted, RadioRuns, Button
  <1> QED
    BY <1>1, <1>2, CtlInvariance, RadioInvariance, SchedInvariance, PTL
    DEF Spec

(* Every variable of main, of the units and of the board keeps its type,   *)
(* and nothing garbled is ever received.                                   *)
THEOREM BeaconTypeOK == Spec => []TypeOK
  <1>1. Ctl /\ BoolTypes /\ EmittedType => TypeOK
    <2> SUFFICES ASSUME Ctl, BoolTypes, EmittedType PROVE TypeOK
      OBVIOUS
    <2>1. NumTypes
      BY DEF Ctl
    <2> QED
      BY <2>1, Zenon DEF NumTypes, BoolTypes, EmittedType, Emissions, TypeOK
  <1> QED
    BY <1>1, CtlInvariance, BoolInvariance, EmissionsInvariance, PTL

-----------------------------------------------------------------------------
(* The interval.                                                           *)

(* LED2 mirrors lost mode from the start of the loop, and rtc_sleep_ticks  *)
(* sleeps for what main computed.                                          *)
IntervalInv ==
  /\ pc \in BootPcs \ {"board"} => led2 = FALSE
  /\ pc \notin BootPcs => led2 = lost_mode
  /\ pc = "sleeping" => ticks = RTC_MS_TO_TICKS(base_ms + jitter_ms)

LEMMA IntervalStep == Ctl /\ IntervalInv /\ [Next]_vars => IntervalInv'
  <1> SUFFICES ASSUME Ctl, IntervalInv, [Next]_vars PROVE IntervalInv'
    OBVIOUS
  <1> USE DEF IntervalInv, BootPcs, base_ms, mainVars, unitVars, ledVars,
              rtcVars, MainAt, UnitAt
  <1>1. CASE Boot
    BY <1>1
    DEF Boot, board_init, clock_started, auth_init, radio_init, rtc_init
  <1>2. CASE UseUnit
    BY <1>2 DEF UseUnit, ClearEvent, TriggerTask
  <1>3. CASE Loop
    <2>1. CASE PollButton
      BY <2>1 DEF PollButton
    <2>2. CASE StartSleep
      BY <2>2 DEF StartSleep, Rtc!rtc_sleep_ticks
    <2>3. CASE SleepStep
      BY <2>3
      DEF SleepStep, Rtc!ArmCompare, Rtc!ClearEvent, Rtc!TestFired,
          Rtc!nrf_wfe, Rtc!Wake
    <2> QED
      BY <1>3, <2>1, <2>2, <2>3
      DEF Loop, auth_next_counter, BuildHead, BuildTail, StartSend, SendStep,
          SendReturned, led_toggle, rng_get_byte, SleepReturned
  <1>4. CASE Interrupt \/ Tick \/ OtherEvent
    BY <1>4
    DEF Interrupt, Tick, OtherEvent, Rtc!Interrupt, Rtc!IsrEnter,
        Rtc!RTC0_IRQHandler, Rtc!IsrReturn, Rtc!Tick, Rtc!OtherEvent
  <1>5. CASE Hardware \/ Button
    BY <1>5 DEF Hardware, UnitStarted, RadioRuns, PacketSent, Button
  <1>6. CASE Reset
    BY <1>6 DEF Reset
  <1>7. CASE UNCHANGED vars
    BY <1>7 DEF vars
  <1> QED
    BY <1>1, <1>2, <1>3, <1>4, <1>5, <1>6, <1>7 DEF Next, Main

(* The sleep armed has the length LED2 announces, plus the jitter.         *)
THEOREM BeaconIntervalMatchesLed == Spec => []IntervalMatchesLed
  <1>1. Init => IntervalInv
    BY DEF Init, IntervalInv, BootPcs
  <1>2. Ctl /\ IntervalInv => IntervalMatchesLed
    <2> SUFFICES ASSUME Ctl, IntervalInv, pc = "sleeping"
                 PROVE  \E j \in 0 .. ADV_JITTER_MAX_MS :
                          ticks = RTC_MS_TO_TICKS(
                                    j + IF led2 THEN ADV_INTERVAL_LOST_MS
                                                ELSE ADV_INTERVAL_MS)
      BY DEF IntervalMatchesLed
    <2>1. /\ led2 = lost_mode
          /\ ticks = RTC_MS_TO_TICKS(base_ms + jitter_ms)
      BY DEF IntervalInv, BootPcs
    <2>2. jitter_ms \in 0 .. ADV_JITTER_MAX_MS
      BY DEF Ctl, NumTypes
    <2>3. base_ms + jitter_ms = jitter_ms + base_ms
      BY <2>2, BeaconAssumption DEF base_ms
    <2> QED
      BY <2>1, <2>2, <2>3 DEF base_ms
  <1> QED
    BY <1>1, <1>2, IntervalStep, CtlInvariance, PTL DEF Spec

-----------------------------------------------------------------------------
(* The heartbeat.                                                          *)

Odd(n) == n % 2 = 1

(* Parity survives the wrap of an even modulus.                            *)
LEMMA NextParity ==
  ASSUME CtrMod % 2 = 0, NEW c \in Counters
  PROVE  Odd(Adv!NextCounter(c)) <=> ~Odd(c)
  <1>1. CASE c + 1 = CtrMod
    <2>1. (c + 1) % CtrMod = 0
      BY <1>1, BeaconAssumption DEF Counters
    <2>2. c % 2 = 1
      BY <1>1, BeaconAssumption DEF Counters
    <2> QED
      BY <2>1, <2>2 DEF Odd, Adv!NextCounter
  <1>2. CASE c + 1 # CtrMod
    <2>1. (c + 1) % CtrMod = c + 1
      BY <1>2, BeaconAssumption DEF Counters
    <2>2. (c + 1) % 2 = 1 <=> ~(c % 2 = 1)
      BY BeaconAssumption DEF Counters
    <2> QED
      BY <2>1, <2>2 DEF Odd, Adv!NextCounter
  <1> QED
    BY <1>1, <1>2

(* LED1 is a step behind the counter from the count to the toggle.         *)
HeartInv ==
  /\ pc \in BootPcs => s_counter = 0
  /\ pc \in BootPcs \ {"board"} => ~led1
  /\ pc \in {"button", "count", "rng", "sleep", "sleeping"} =>
       (led1 <=> Odd(s_counter))
  /\ pc \in {"build", "built", "send", "sending", "toggle"} =>
       (led1 <=> ~Odd(s_counter))

LEMMA HeartStep ==
  ASSUME CtrMod % 2 = 0
  PROVE  Ctl /\ HeartInv /\ [Next]_vars => HeartInv'
  <1> SUFFICES ASSUME Ctl, HeartInv, [Next]_vars PROVE HeartInv'
    OBVIOUS
  <1> USE DEF HeartInv, BootPcs, mainVars, unitVars, ledVars, MainAt, UnitAt
  <1>1. CASE Boot
    <2>1. ~Odd(0)
      BY DEF Odd
    <2> QED
      BY <1>1, <2>1
      DEF Boot, board_init, clock_started, auth_init, radio_init, rtc_init
  <1>2. CASE UseUnit
    BY <1>2 DEF UseUnit, ClearEvent, TriggerTask
  <1>3. CASE Loop
    <2>1. CASE auth_next_counter
      <3>1. s_counter \in Counters
        BY DEF Ctl, NumTypes
      <3>2. Odd(s_counter') <=> ~Odd(s_counter)
        BY <2>1, <3>1, NextParity DEF auth_next_counter
      <3> QED
        BY <2>1, <3>2 DEF auth_next_counter
    <2>2. CASE led_toggle
      BY <2>2 DEF led_toggle
    <2> QED
      BY <1>3, <2>1, <2>2
      DEF Loop, PollButton, BuildHead, BuildTail, StartSend, SendStep,
          SendReturned, rng_get_byte, StartSleep, SleepStep, SleepReturned
  <1>4. CASE Interrupt \/ Tick \/ OtherEvent
    BY <1>4 DEF Interrupt, Tick, OtherEvent
  <1>5. CASE Hardware \/ Button
    BY <1>5 DEF Hardware, UnitStarted, RadioRuns, PacketSent, Button
  <1>6. CASE Reset
    BY <1>6 DEF Reset
  <1>7. CASE UNCHANGED vars
    BY <1>7 DEF vars
  <1> QED
    BY <1>1, <1>2, <1>3, <1>4, <1>5, <1>6, <1>7 DEF Next, Main

(* LED1 is lit after the odd events and dark after the even ones, over all *)
(* wraps of a counter of an even modulus, such as 2^32.                    *)
THEOREM BeaconHeartbeatCounts ==
  ASSUME CtrMod % 2 = 0
  PROVE  Spec => []HeartbeatCounts
  <1>1. Init => HeartInv
    BY DEF Init, HeartInv, BootPcs
  <1>2. Ctl /\ HeartInv /\ [Next]_vars => HeartInv'
    BY HeartStep
  <1>3. HeartInv => HeartbeatCounts
    BY DEF HeartInv, HeartbeatCounts, Odd
  <1> QED
    BY <1>1, <1>2, <1>3, CtlInvariance, PTL DEF Spec

-----------------------------------------------------------------------------
(* The mode. It settles because the button is polled again and again, and  *)
(* it is polled because the beacon keeps advertising.                      *)

(* The packets main still sends before it polls the button again.          *)
Left ==
  IF pc \in {"count", "build", "built"} THEN 3
  ELSE IF pc = "send" THEN 4 - i
  ELSE IF pc = "sending" THEN (IF aired = <<>> THEN 4 ELSE 3) - i
  ELSE 0

AtMost(n) == Left <= n
NoneLeft == AtMost(0)
OneLeft == AtMost(1)
TwoLeft == AtMost(2)

Inv == Ctl /\ RadioP!IInv /\ SchedInv

LEMMA Invariants == Spec => []Inv
  BY CtlInvariance, RadioInvariance, SchedInvariance, PTL DEF Inv

LEMMA LeftRange == Ctl => Left \in 0 .. 3
  BY DEF Ctl, NumTypes, Left

LEMMA NextLeftRange == Ctl /\ [Next]_vars => Left' \in 0 .. 3
  BY CtlStep DEF Ctl, NumTypes, Left

(* Only a poll of the button makes it grow.                                *)
LEMMA LeftShrinks ==
  ASSUME Inv, [Next]_vars, ~PollButton
  PROVE  Left' <= Left
  <1>0. Ctl /\ RadioP!IInv
    BY DEF Inv
  <1>1. i \in 1 .. 3 /\ Left \in 0 .. 3
    BY <1>0, LeftRange DEF Ctl, NumTypes
  <1> USE DEF Left, MainAt, mainVars, radioVars
  <1>2. CASE Boot
    BY <1>1, <1>2
    DEF Boot, board_init, clock_started, auth_init, radio_init, rtc_init,
        UnitAt
  <1>3. CASE UseUnit
    BY <1>1, <1>3 DEF UseUnit, ClearEvent, TriggerTask
  <1>4. CASE auth_next_counter \/ BuildHead \/ BuildTail
    BY <1>1, <1>4 DEF auth_next_counter, BuildHead, BuildTail
  <1>5. CASE StartSend
    BY <1>1, <1>5 DEF StartSend, Radio!radio_send
  <1>6. CASE SendStep
    BY <1>1, <1>6 DEF SendStep, Radio!ClearEvents, Radio!TxEn
  <1>7. CASE SendReturned
    <2>1. aired # <<>>
      BY <1>0, <1>7 DEF SendReturned, Radio!Return, RadioP!IInv, RadioP!WaitInv
    <2> QED
      BY <1>1, <1>7, <2>1 DEF SendReturned
  <1>8. CASE led_toggle \/ rng_get_byte \/ StartSleep \/ SleepStep \/ SleepReturned
    BY <1>1, <1>8
    DEF led_toggle, rng_get_byte, StartSleep, SleepStep, SleepReturned, UnitAt
  <1>9. CASE PacketSent
    BY <1>0, <1>1, <1>9, SentIsReceived DEF PacketSent, Inv
  <1>10. CASE Interrupt \/ Tick \/ OtherEvent \/ Button \/ RadioRuns
    BY <1>1, <1>10
    DEF Interrupt, Tick, OtherEvent, Button, RadioRuns, Radio!Ready,
        Radio!RampedDown
  <1>11. CASE \E u \in Units : UnitStarted(u)
    BY <1>1, <1>11 DEF UnitStarted
  <1>12. CASE Reset
    BY <1>1, <1>12 DEF Reset
  <1>13. CASE UNCHANGED vars
    BY <1>1, <1>13 DEF vars
  <1> QED
    BY <1>2, <1>3, <1>4, <1>5, <1>6, <1>7, <1>8, <1>9, <1>10, <1>11, <1>12,
       <1>13
    DEF Next, Main, Loop, Hardware

(* Every packet received is one of them.                                   *)
LEMMA LeftCounts ==
  ASSUME Inv, [Next]_vars, <<Adv!Emit>>_emitted
  PROVE  Left' < Left
  <1>1. CASE PacketSent
    <2>1. /\ pc = "sending" /\ aired = <<>> /\ aired' # <<>>
          /\ UNCHANGED mainVars
      BY <1>1, SentIsReceived DEF PacketSent, Inv
    <2>2. i \in 1 .. 3
      BY DEF Inv, Ctl, NumTypes
    <2> QED
      BY <2>1, <2>2 DEF Left, mainVars
  <1>2. CASE Reset
    <2>1. Adv!Following(emitted).channel # 0
      BY DEF Adv!Following, Adv!Emission
    <2>2. emitted'.channel = 0
      BY <1>2 DEF Reset, Adv!NoEmission, Adv!Emission
    <2> QED
      BY <2>1, <2>2 DEF Adv!Emit
  <1> QED
    BY <1>1, <1>2
    DEF vars, Next, Main, Boot, UseUnit, Loop, Hardware, board_init,
        clock_started, auth_init, radio_init, rtc_init, ClearEvent,
        TriggerTask, PollButton, auth_next_counter, BuildHead, BuildTail,
        StartSend, SendStep, SendReturned, led_toggle, rng_get_byte,
        StartSleep, SleepStep, SleepReturned, Interrupt, Tick, OtherEvent,
        UnitStarted, RadioRuns, Button

LEMMA AdvertisingPolls ==
  Spec /\ []<><<Adv!Emit>>_emitted => []<><<PollButton>>_vars
  <1> USE DEF NoneLeft, OneLeft, TwoLeft, AtMost
  <1>1. Inv /\ [Next]_vars => \/ <<PollButton>>_vars
                              \/ /\ NoneLeft => NoneLeft'
                                 /\ OneLeft => OneLeft'
                                 /\ TwoLeft => TwoLeft'
    <2> SUFFICES ASSUME Inv, [Next]_vars, ~<<PollButton>>_vars
                 PROVE  /\ NoneLeft => NoneLeft'
                        /\ OneLeft => OneLeft'
                        /\ TwoLeft => TwoLeft'
      OBVIOUS
    <2>1. ~PollButton
      <3>1. PollButton => pc' # pc
        BY DEF PollButton, MainAt
      <3>2. vars' = vars => pc' = pc
        BY DEF vars, mainVars
      <3> QED
        BY <3>1, <3>2
    <2>2. Left \in 0 .. 3 /\ Left' \in 0 .. 3
      BY LeftRange, NextLeftRange DEF Inv
    <2>3. Left' <= Left
      BY <2>1, LeftShrinks
    <2> HIDE DEF Left
    <2> QED
      BY <2>2, <2>3
  <1>2. Inv /\ [Next]_vars /\ <<Adv!Emit>>_emitted =>
           /\ ~NoneLeft
           /\ OneLeft => NoneLeft'
           /\ TwoLeft => OneLeft'
           /\ TwoLeft'
    <2> SUFFICES ASSUME Inv, [Next]_vars, <<Adv!Emit>>_emitted
                 PROVE  /\ ~NoneLeft
                        /\ OneLeft => NoneLeft'
                        /\ TwoLeft => OneLeft'
                        /\ TwoLeft'
      OBVIOUS
    <2>1. Left \in 0 .. 3 /\ Left' \in 0 .. 3
      BY LeftRange, NextLeftRange DEF Inv
    <2>2. Left' < Left
      BY LeftCounts
    <2> QED
      BY <2>1, <2>2
  <1> QED
    BY <1>1, <1>2, Invariants, PTL DEF Spec

(* The button has been sampled as it is.                                   *)
Settled == pc \notin BootPcs /\ btn_prev = pressed

LEMMA PollSettles == PollButton => Settled'
  BY DEF PollButton, Settled, BootPcs, MainAt

(* Without a reset and with the button left alone, it stays so, and the    *)
(* mode is not touched.                                                    *)
LEMMA StaysSettled ==
  ASSUME Settled, [Next]_vars, [~Reset /\ ~Button]_vars
  PROVE  Settled' /\ UNCHANGED lost_mode
  <1> USE DEF Settled, BootPcs, mainVars, MainAt, UnitAt
  <1>1. CASE Boot
    BY <1>1
    DEF Boot, board_init, clock_started, auth_init, radio_init, rtc_init
  <1>2. CASE UseUnit
    BY <1>2 DEF UseUnit, ClearEvent, TriggerTask
  <1>3. CASE Loop
    BY <1>3
    DEF Loop, PollButton, auth_next_counter, BuildHead, BuildTail, StartSend,
        SendStep, SendReturned, led_toggle, rng_get_byte, StartSleep,
        SleepStep, SleepReturned
  <1>4. CASE Interrupt \/ Tick \/ OtherEvent \/ Hardware
    BY <1>4
    DEF Interrupt, Tick, OtherEvent, Hardware, UnitStarted, RadioRuns,
        PacketSent
  <1>5. CASE UNCHANGED vars
    BY <1>5 DEF vars
  <1> QED
    BY <1>1, <1>2, <1>3, <1>4, <1>5 DEF Next, Main

(* A beacon that keeps advertising settles its mode once the button is     *)
(* left alone: at the next poll, which each event is preceded by.  That it *)
(* keeps advertising is a property of FairSpec (KeepsAdvertising).         *)
THEOREM BeaconModeSettles == Spec /\ KeepsAdvertising => ModeSettles
  <1>1. [~Reset /\ ~Button]_vars => [~Reset]_vars
    OBVIOUS
  <1>2. <<PollButton>>_vars => Settled'
    BY PollSettles
  <1>3. Settled /\ [Next]_vars /\ [~Reset /\ ~Button]_vars
          => Settled' /\ (lost_mode => lost_mode') /\ (~lost_mode => ~lost_mode')
    BY StaysSettled
  <1>4. Settled => btn_prev = pressed
    BY DEF Settled
  <1> QED
    BY <1>1, <1>2, <1>3, <1>4, AdvertisingPolls, PTL
    DEF Spec, KeepsAdvertising, ModeSettles

-----------------------------------------------------------------------------
(* Rtc is instantiated twice, here and under RtcProof: one formula.        *)
LEMMA RtcSame == Rtc!Spec => RtcP!Spec
  <1>1. Rtc!Init => RtcP!Init
    BY DEF Rtc!Init, RtcP!Init
  <1>2. [Rtc!Next]_Rtc!vars => [RtcP!Next]_RtcP!vars
    BY DEF Rtc!Next, RtcP!Next, Rtc!vars, RtcP!vars, Rtc!Thread, RtcP!Thread,
           Rtc!Interrupt, RtcP!Interrupt, Rtc!rtc_init, RtcP!rtc_init,
           Rtc!rtc_sleep_ticks, RtcP!rtc_sleep_ticks, Rtc!TickArgs,
           RtcP!TickArgs, Rtc!ArmCompare, RtcP!ArmCompare, Rtc!ClearEvent,
           RtcP!ClearEvent, Rtc!TestFired, RtcP!TestFired, Rtc!nrf_wfe,
           RtcP!nrf_wfe, Rtc!Wake, RtcP!Wake, Rtc!ClearAndReturn,
           RtcP!ClearAndReturn, Rtc!ClearCounter, RtcP!ClearCounter,
           Rtc!ThreadAt, RtcP!ThreadAt, Rtc!IsrEnter, RtcP!IsrEnter,
           Rtc!RTC0_IRQHandler, RtcP!RTC0_IRQHandler, Rtc!IsrReturn,
           RtcP!IsrReturn, Rtc!Tick, RtcP!Tick, Rtc!InBudget, RtcP!InBudget,
           Rtc!Waking, RtcP!Waking, Rtc!OtherEvent, RtcP!OtherEvent,
           Rtc!Reset, RtcP!Reset
  <1> QED
    BY <1>1, <1>2, PTL DEF Rtc!Spec, RtcP!Spec

LEMMA RtcInvariance == Spec => []RtcP!IInv
  <1>1. RtcP!Spec => []RtcP!IInv
    BY RtcParameters, RtcP!Invariance
  <1> QED
    BY <1>1, BeaconUsesRtc, RtcSame, PTL DEF UsesRtc

(* Main is inside rtc_sleep_ticks exactly when the timer's thread is.      *)
SleepInv ==
  /\ pc \notin BootPcs \cup {"sleeping"} => tpc = "run"
  /\ pc = "sleeping" => tpc \in {"arm", "ack", "loop", "wfe", "asleep", "clear"}

LEMMA SleepInvariance == Spec => []SleepInv
  <1>1. Init => SleepInv
    BY DEF Init, SleepInv, BootPcs
  <1>2. Ctl /\ SleepInv /\ [Next]_vars => SleepInv'
    <2> SUFFICES ASSUME Ctl, SleepInv, [Next]_vars PROVE SleepInv'
      OBVIOUS
    <2> USE DEF SleepInv, BootPcs, mainVars, rtcVars, MainAt, UnitAt
    <2>1. CASE Boot
      BY <2>1
      DEF Boot, board_init, clock_started, auth_init, radio_init, rtc_init,
          Rtc!rtc_init
    <2>2. CASE UseUnit
      BY <2>2 DEF UseUnit, ClearEvent, TriggerTask
    <2>3. CASE StartSleep \/ SleepReturned
      BY <2>3
      DEF StartSleep, SleepReturned, Rtc!rtc_sleep_ticks, Rtc!ClearAndReturn
    <2>4. CASE SleepStep
      BY <2>4
      DEF SleepStep, Rtc!ArmCompare, Rtc!ClearEvent, Rtc!TestFired,
          Rtc!nrf_wfe, Rtc!Wake
    <2>5. CASE Loop
      BY <2>3, <2>4, <2>5
      DEF Loop, PollButton, auth_next_counter, BuildHead, BuildTail, StartSend,
          SendStep, SendReturned, led_toggle, rng_get_byte
    <2>6. CASE Interrupt \/ Tick \/ OtherEvent
      BY <2>6
      DEF Interrupt, Tick, OtherEvent, Rtc!Interrupt, Rtc!IsrEnter,
          Rtc!RTC0_IRQHandler, Rtc!IsrReturn, Rtc!Tick, Rtc!OtherEvent
    <2>7. CASE Hardware \/ Button
      BY <2>7 DEF Hardware, UnitStarted, RadioRuns, PacketSent, Button
    <2>8. CASE Reset
      BY <2>8 DEF Reset
    <2>9. CASE UNCHANGED vars
      BY <2>9 DEF vars
    <2> QED
      BY <2>1, <2>2, <2>5, <2>6, <2>7, <2>8, <2>9 DEF Next, Main
  <1> QED
    BY <1>1, <1>2, CtlInvariance, PTL DEF Spec

(* RTC0 counts from one end of a sleep, where it is cleared, to the next.  *)
PeriodKept ==
  tpc = "clear" =>
    /\ pc = "sleeping" /\ wrapped = 0
    /\ \E j \in 0 .. ADV_JITTER_MAX_MS :
         LET t == RTC_MS_TO_TICKS(j + IF led2 THEN ADV_INTERVAL_LOST_MS
                                              ELSE ADV_INTERVAL_MS)
         IN  counter \in t .. t + MaxLag

(* The advertising period does not drift: from the end of one sleep to the *)
(* end of the next, the work of the event included, as many ticks pass as  *)
(* the interval that LED2 announces and a jitter in range come to, and at  *)
(* most MaxLag more.                                                       *)
THEOREM BeaconPeriodKept == Spec => []PeriodKept
  <1>1. Ctl /\ SleepInv /\ RtcP!IInv /\ IntervalMatchesLed => PeriodKept
    <2> SUFFICES ASSUME Ctl, SleepInv, RtcP!IInv, IntervalMatchesLed,
                        tpc = "clear"
                 PROVE  PeriodKept
      BY DEF PeriodKept
    <2>1. pc = "sleeping"
      BY DEF Ctl, CalleeInv, SleepInv
    <2>2. wrapped = 0 /\ counter \in ticks .. ticks + MaxLag
      BY DEF RtcP!IInv, RtcP!ClearInv
    <2>3. \E j \in 0 .. ADV_JITTER_MAX_MS :
            ticks = RTC_MS_TO_TICKS(j + IF led2 THEN ADV_INTERVAL_LOST_MS
                                                ELSE ADV_INTERVAL_MS)
      BY <2>1 DEF IntervalMatchesLed
    <2> QED
      BY <2>1, <2>2, <2>3 DEF PeriodKept
  <1> QED
    BY <1>1, CtlInvariance, SleepInvariance, RtcInvariance,
       BeaconIntervalMatchesLed, PTL

(* In the whole firmware, too, no wake-up is lost and no compare missed,   *)
(* whatever main does between the sleeps.                                  *)
THEOREM BeaconTimerSafe == Spec => [](Rtc!NoLostWakeup /\ Rtc!CompareNotMissed)
  <1>1. RtcP!Spec => []RtcP!NoLostWakeup /\ []RtcP!CompareNotMissed
    BY RtcParameters, RtcP!RtcNoLostWakeup, RtcP!RtcCompareNotMissed
  <1>2. RtcP!NoLostWakeup => Rtc!NoLostWakeup
    BY DEF RtcP!NoLostWakeup, Rtc!NoLostWakeup
  <1>3. RtcP!CompareNotMissed => Rtc!CompareNotMissed
    BY DEF RtcP!CompareNotMissed, Rtc!CompareNotMissed, RtcP!Waking, Rtc!Waking
  <1> QED
    BY <1>1, <1>2, <1>3, BeaconUsesRtc, RtcSame, PTL DEF UsesRtc

(* And radio_send puts exactly the packet asked for on the air, whole and  *)
(* on its channel, before main goes on.                                    *)
THEOREM BeaconRadioSafe == Spec => []Radio!OnAirIntact /\ Radio!SentOnce
  <1>1. RadioP!OnAirIntact => Radio!OnAirIntact
    BY DEF RadioP!OnAirIntact, Radio!OnAirIntact,
           RadioP!channel_to_frequency, Radio!channel_to_frequency
  <1>2. RadioP!SentOnce => Radio!SentOnce
    BY DEF RadioP!SentOnce, Radio!SentOnce, RadioP!vars, Radio!vars,
           RadioP!Packet, Radio!Packet, RadioP!channel_to_frequency,
           Radio!channel_to_frequency
  <1> QED
    BY <1>1, <1>2, BeaconUsesRadio, RadioSame, RadioP!RadioOnAirIntact,
       RadioP!RadioSentOnce, PTL DEF UsesRadio
=============================================================================
