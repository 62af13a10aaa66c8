------------------------------- MODULE Beacon -------------------------------
(***************************************************************************)
(* The whole firmware: main() of src/main.c, which brings the clocks up,   *)
(* then polls the button, builds a frame, sends it on three channels and   *)
(* sleeps, composed with the radio driver (Radio), the interval timer and  *)
(* its interrupt (Rtc), and the task/event units that main starts and      *)
(* polls (HFXO, LFXO, RNG).                                                *)
(***************************************************************************)
EXTENDS Naturals, Sequences

CONSTANTS
  CtrMod,                \* s_counter is a natural modulo CtrMod (2^32)
  LfHz,                  \* LF ticks in a second (32768)
  ADV_INTERVAL_MS, ADV_INTERVAL_LOST_MS, ADV_JITTER_MAX_MS,
  RngBytes,              \* the values of the RNG (0 .. 255)
  CounterMod,            \* RTC0 wraps here (2^24)
  MaxWork, MaxLag        \* the time budgets of Rtc

RTC_MS_TO_TICKS(ms) == (ms * LfHz) \div 1000

MinTicks == RTC_MS_TO_TICKS(ADV_INTERVAL_LOST_MS)
MaxTicks == RTC_MS_TO_TICKS(ADV_INTERVAL_MS + ADV_JITTER_MAX_MS)

ASSUME BeaconAssumption ==
  /\ CtrMod \in Nat /\ CtrMod > 1
  /\ LfHz \in Nat
  /\ ADV_INTERVAL_MS \in Nat /\ ADV_INTERVAL_LOST_MS \in Nat
  /\ ADV_JITTER_MAX_MS \in Nat
  /\ ADV_INTERVAL_LOST_MS <= ADV_INTERVAL_MS
  /\ RngBytes \subseteq Nat
  /\ CounterMod \in Nat /\ MaxWork \in Nat /\ MaxLag \in Nat
  /\ MaxWork < MinTicks
  /\ MaxTicks + MaxLag < CounterMod

VARIABLES
  pc,          \* where main() is, see MainPcs
  i,           \* the index of its channel loop
  lost_mode, btn_prev, jitter_ms,
  s_counter,   \* auth.c
  unit,        \* the state of HFXO, LFXO and RNG
  event,       \* their HFCLKSTARTED, LFCLKSTARTED and VALRDY events
  phase,       \* how far main is with the unit it starts, see UnitPhases
  pressed,     \* button 1 is held down
  led1, led2,  \* lit or not
  emitted      \* history: what a scanner received last

(* Radio *)
VARIABLES rpc, chan, s_pdu, frequency, datawhiteiv, shorts, evEnd, evDisabled,
          state, air, aired

(* Rtc *)
VARIABLES tpc, isr, s_fired, ticks, counter, cc0, evCompare0, irq, eventReg,
          wrapped

mainVars == <<pc, i, lost_mode, btn_prev, jitter_ms, s_counter>>
unitVars == <<unit, event, phase>>
ledVars == <<led1, led2>>
radioVars == <<rpc, chan, s_pdu, frequency, datawhiteiv, shorts, evEnd,
               evDisabled, state, air, aired>>
rtcVars == <<tpc, isr, s_fired, ticks, counter, cc0, evCompare0, irq, eventReg,
             wrapped>>
vars == <<mainVars, unitVars, ledVars, pressed, emitted, radioVars, rtcVars>>

(* What s_pdu may hold: zeroes out of reset, a frame in the making, or the *)
(* frame of a counter value (docs/03): the counter and the tag over it.    *)
Zeroed == [kind |-> "zero", counter |-> 0]
Torn(c) == [kind |-> "torn", counter |-> c]
Frame(c) == [kind |-> "frame", counter |-> c]

Counters == 0 .. CtrMod - 1
Pdus == [kind: {"zero", "torn", "frame"}, counter: Counters]

Radio == INSTANCE Radio
Rtc == INSTANCE Rtc
Adv == INSTANCE AdvSchedule

-----------------------------------------------------------------------------
Units == {"hfxo", "lfxo", "rng"}
UnitStates == {"stopped", "starting", "running"}
UnitPhases == {"clear", "task", "poll"}

(* The statement, call or loop of main executed next: "hfxo", "lfxo" and   *)
(* "rng" are inside the start of that unit, "sending" and "sleeping" in    *)
(* radio_send and rtc_sleep_ticks.                                         *)
MainPcs == {"board", "hfxo", "lfxo", "auth", "radio", "rtc",
            "button", "count", "build", "built", "send", "sending", "toggle",
            "rng", "sleep", "sleeping"}

s_channels == <<37, 38, 39>>

(* What a scanner makes of a packet: it listens on the three channels,     *)
(* unwhitens with the channel's seed, and checks the CRC and the tag.      *)
Garbled == [counter |-> 0, channel |-> 1]
Received(p) ==
  IF /\ p.head = p.tail /\ p.head.kind = "frame"
     /\ p.white \in Radio!Channels
     /\ p.freq = Radio!channel_to_frequency(p.white)
    THEN Adv!Emission(p.head.counter, p.white)
    ELSE Garbled

TypeOK ==
  /\ pc \in MainPcs
  /\ i \in 1 .. 3
  /\ lost_mode \in BOOLEAN /\ btn_prev \in BOOLEAN
  /\ jitter_ms \in 0 .. ADV_JITTER_MAX_MS
  /\ s_counter \in Counters
  /\ unit \in [Units -> UnitStates]
  /\ event \in [Units -> {0, 1}]
  /\ phase \in UnitPhases
  /\ pressed \in BOOLEAN /\ led1 \in BOOLEAN /\ led2 \in BOOLEAN
  /\ emitted \in [counter: Counters, channel: Radio!Channels]
                   \cup {Adv!NoEmission}

Init ==
  /\ pc = "board" /\ i = 1 /\ lost_mode = FALSE /\ btn_prev = FALSE
  /\ jitter_ms = 0 /\ s_counter = 0
  /\ unit = [u \in Units |-> "stopped"] /\ event = [u \in Units |-> 0]
  /\ phase = "clear"
  /\ pressed = FALSE /\ led1 = FALSE /\ led2 = FALSE
  /\ emitted = Adv!NoEmission
  /\ Radio!InitWith(Zeroed)
  /\ Rtc!Init

-----------------------------------------------------------------------------
(* Thread mode runs when the interrupt handler does not.                   *)
MainAt(p) == isr = "idle" /\ pc = p

board_init ==
  /\ MainAt("board")
  /\ pc' = "hfxo"
  /\ led1' = FALSE /\ led2' = FALSE
  /\ UNCHANGED <<i, lost_mode, btn_prev, jitter_ms, s_counter, unitVars,
                 pressed, emitted, radioVars, rtcVars>>

(* clock_hfxo_start, clock_lfxo_start and rng_get_byte share one pattern:  *)
(* clear the event, trigger the task, poll the event.                      *)
UnitAt(u, p) == MainAt(u) /\ phase = p

(* Mutant: the event of the last use is left set.                          *)
KeepEvent(u) ==
  /\ UnitAt(u, "clear")
  /\ phase' = "task"
  /\ UNCHANGED <<mainVars, unit, event, ledVars, pressed, emitted, radioVars,
                 rtcVars>>

ClearEvent(u) ==
  /\ UnitAt(u, "clear")
  /\ phase' = "task"
  /\ event' = [event EXCEPT ![u] = 0]
  /\ UNCHANGED <<mainVars, unit, ledVars, pressed, emitted, radioVars, rtcVars>>

(* Mutant: the clock is not waited for.                                    *)
TriggerOnly(u) ==
  /\ UnitAt(u, "task")
  /\ unit' = [unit EXCEPT ![u] = "starting"]
  /\ IF u = "hfxo" THEN pc' = "lfxo" /\ phase' = "clear"
                   ELSE phase' = "poll" /\ UNCHANGED pc
  /\ UNCHANGED <<i, lost_mode, btn_prev, jitter_ms, s_counter, event, ledVars,
                 pressed, emitted, radioVars, rtcVars>>

TriggerTask(u) ==
  /\ UnitAt(u, "task")
  /\ phase' = "poll"
  /\ unit' = [unit EXCEPT ![u] = "starting"]
  /\ UNCHANGED <<mainVars, event, ledVars, pressed, emitted, radioVars, rtcVars>>

clock_started(u) ==
  /\ u \in {"hfxo", "lfxo"}
  /\ UnitAt(u, "poll") /\ event[u] = 1
  /\ pc' = IF u = "hfxo" THEN "lfxo" ELSE "auth"
  /\ phase' = "clear"
  /\ UNCHANGED <<i, lost_mode, btn_prev, jitter_ms, s_counter, unit, event,
                 ledVars, pressed, emitted, radioVars, rtcVars>>

(* auth_init, and rng_init, which only configures.                         *)
auth_init ==
  /\ MainAt("auth")
  /\ pc' = "radio"
  /\ s_counter' = 0
  /\ UNCHANGED <<i, lost_mode, btn_prev, jitter_ms, unitVars, ledVars, pressed,
                 emitted, radioVars, rtcVars>>

radio_init ==
  /\ MainAt("radio")
  /\ pc' = "rtc"
  /\ Radio!radio_init
  /\ UNCHANGED <<i, lost_mode, btn_prev, jitter_ms, s_counter, unitVars,
                 ledVars, pressed, emitted, rtcVars>>

(* rtc_init, and the locals of main. *)
rtc_init ==
  /\ MainAt("rtc")
  /\ pc' = "button"
  /\ Rtc!rtc_init
  /\ lost_mode' = FALSE /\ btn_prev' = FALSE
  /\ UNCHANGED <<i, jitter_ms, s_counter, unitVars, ledVars, pressed, emitted,
                 radioVars>>

-----------------------------------------------------------------------------
(* The loop of main.                                                       *)

(* Mutant: the previous sample of the button is never stored.              *)
PollWithoutPrev ==
  /\ MainAt("button")
  /\ pc' = "count"
  /\ IF pressed /\ ~btn_prev
       THEN lost_mode' = ~lost_mode /\ led2' = ~lost_mode
       ELSE UNCHANGED <<lost_mode, led2>>
  /\ UNCHANGED <<i, btn_prev, jitter_ms, s_counter, unitVars, led1, pressed,
                 emitted, radioVars, rtcVars>>

(* Mutant: LED2 is driven as if it were active high.                       *)
PollActiveHigh ==
  /\ MainAt("button")
  /\ pc' = "count"
  /\ IF pressed /\ ~btn_prev
       THEN lost_mode' = ~lost_mode /\ led2' = lost_mode
       ELSE UNCHANGED <<lost_mode, led2>>
  /\ btn_prev' = pressed
  /\ UNCHANGED <<i, jitter_ms, s_counter, unitVars, led1, pressed, emitted,
                 radioVars, rtcVars>>

PollButton ==
  /\ MainAt("button")
  /\ pc' = "count"
  /\ IF pressed /\ ~btn_prev
       THEN lost_mode' = ~lost_mode /\ led2' = ~lost_mode
       ELSE UNCHANGED <<lost_mode, led2>>
  /\ btn_prev' = pressed
  /\ UNCHANGED <<i, jitter_ms, s_counter, unitVars, led1, pressed, emitted,
                 radioVars, rtcVars>>

(* Mutant: a counter that is never wrapped.                                *)
CountOn ==
  /\ MainAt("count")
  /\ pc' = "build"
  /\ s_counter' = s_counter + 1
  /\ UNCHANGED <<i, lost_mode, btn_prev, jitter_ms, unitVars, ledVars, pressed,
                 emitted, radioVars, rtcVars>>

auth_next_counter ==
  /\ MainAt("count")
  /\ pc' = "build"
  /\ s_counter' = Adv!NextCounter(s_counter)
  /\ UNCHANGED <<i, lost_mode, btn_prev, jitter_ms, unitVars, ledVars, pressed,
                 emitted, radioVars, rtcVars>>

(* Nothing in the code keeps ble_build_adv from writing under a packet.    *)
FillPdu(p) ==
  /\ s_pdu' = p
  /\ UNCHANGED <<rpc, chan, frequency, datawhiteiv, shorts, evEnd, evDisabled,
                 state, air, aired>>

(* ble_build_adv fills s_pdu byte by byte: some of them, then the rest.    *)
BuildHead ==
  /\ MainAt("build")
  /\ pc' = "built"
  /\ FillPdu(Torn(s_counter))
  /\ UNCHANGED <<i, lost_mode, btn_prev, jitter_ms, s_counter, unitVars,
                 ledVars, pressed, emitted, rtcVars>>

BuildTail ==
  /\ MainAt("built")
  /\ pc' = "send"
  /\ i' = 1
  /\ FillPdu(Frame(s_counter))
  /\ UNCHANGED <<lost_mode, btn_prev, jitter_ms, s_counter, unitVars, ledVars,
                 pressed, emitted, rtcVars>>

StartSend ==
  /\ MainAt("send")
  /\ pc' = "sending"
  /\ Radio!radio_send(s_channels[i])
  /\ UNCHANGED <<i, lost_mode, btn_prev, jitter_ms, s_counter, unitVars,
                 ledVars, pressed, emitted, rtcVars>>

(* Mutant: main goes on while the packet is being sent.                    *)
SendWithoutWait ==
  /\ MainAt("sending")
  /\ \/ Radio!ClearEvents /\ UNCHANGED pc
     \/ Radio!TxEn /\ pc' = "toggle"
  /\ UNCHANGED <<i, lost_mode, btn_prev, jitter_ms, s_counter, unitVars,
                 ledVars, pressed, emitted, rtcVars>>

(* Inside radio_send. *)
SendStep ==
  /\ MainAt("sending")
  /\ Radio!ClearEvents \/ Radio!TxEn
  /\ UNCHANGED <<mainVars, unitVars, ledVars, pressed, emitted, rtcVars>>

(* Mutant: every packet gets a counter of its own.                         *)
CountPerPacket ==
  /\ MainAt("sending")
  /\ Radio!Return
  /\ IF i < 3 THEN i' = i + 1 /\ s_counter' = Adv!NextCounter(s_counter)
              ELSE UNCHANGED <<i, s_counter>>
  /\ pc' = IF i < 3 THEN "build" ELSE "toggle"
  /\ UNCHANGED <<lost_mode, btn_prev, jitter_ms, unitVars, ledVars, pressed,
                 emitted, rtcVars>>

SendReturned ==
  /\ MainAt("sending")
  /\ Radio!Return
  /\ IF i < 3 THEN i' = i + 1 /\ pc' = "send"
              ELSE UNCHANGED i /\ pc' = "toggle"
  /\ UNCHANGED <<lost_mode, btn_prev, jitter_ms, s_counter, unitVars, ledVars,
                 pressed, emitted, rtcVars>>

(* Mutant: the LED is only ever switched on.                               *)
ToggleOn ==
  /\ MainAt("toggle")
  /\ pc' = "rng"
  /\ led1' = TRUE
  /\ UNCHANGED <<i, lost_mode, btn_prev, jitter_ms, s_counter, unitVars, led2,
                 pressed, emitted, radioVars, rtcVars>>

led_toggle ==
  /\ MainAt("toggle")
  /\ pc' = "rng"
  /\ led1' = ~led1
  /\ UNCHANGED <<i, lost_mode, btn_prev, jitter_ms, s_counter, unitVars, led2,
                 pressed, emitted, radioVars, rtcVars>>

(* Mutant: the random byte is taken as it is.                              *)
rng_raw_byte ==
  /\ UnitAt("rng", "poll") /\ event["rng"] = 1
  /\ pc' = "sleep"
  /\ phase' = "clear"
  /\ unit' = [unit EXCEPT !["rng"] = "stopped"]
  /\ \E byte \in RngBytes : jitter_ms' = byte
  /\ UNCHANGED <<i, lost_mode, btn_prev, s_counter, event, ledVars, pressed,
                 emitted, radioVars, rtcVars>>

(* The value of rng_get_byte, TASKS_STOP, and the jitter made of it.       *)
rng_get_byte ==
  /\ UnitAt("rng", "poll") /\ event["rng"] = 1
  /\ pc' = "sleep"
  /\ phase' = "clear"
  /\ unit' = [unit EXCEPT !["rng"] = "stopped"]
  /\ \E byte \in RngBytes : jitter_ms' = byte % (ADV_JITTER_MAX_MS + 1)
  /\ UNCHANGED <<i, lost_mode, btn_prev, s_counter, event, ledVars, pressed,
                 emitted, radioVars, rtcVars>>

base_ms == IF lost_mode THEN ADV_INTERVAL_LOST_MS ELSE ADV_INTERVAL_MS

StartSleep ==
  /\ MainAt("sleep")
  /\ pc' = "sleeping"
  /\ Rtc!rtc_sleep_ticks(RTC_MS_TO_TICKS(base_ms + jitter_ms))
  /\ UNCHANGED <<i, lost_mode, btn_prev, jitter_ms, s_counter, unitVars,
                 ledVars, pressed, emitted, radioVars>>

(* Inside rtc_sleep_ticks. *)
SleepStep ==
  /\ pc = "sleeping"
  /\ Rtc!ArmCompare \/ Rtc!ClearEvent \/ Rtc!TestFired \/ Rtc!nrf_wfe \/ Rtc!Wake
  /\ UNCHANGED <<mainVars, unitVars, ledVars, pressed, emitted, radioVars>>

SleepReturned ==
  /\ pc = "sleeping"
  /\ Rtc!ClearAndReturn
  /\ pc' = "button"
  /\ UNCHANGED <<i, lost_mode, btn_prev, jitter_ms, s_counter, unitVars,
                 ledVars, pressed, emitted, radioVars>>

-----------------------------------------------------------------------------
(* The hardware around main.                                               *)

Interrupt ==
  /\ Rtc!Interrupt
  /\ UNCHANGED <<mainVars, unitVars, ledVars, pressed, emitted, radioVars>>

(* RTC0 counts once the LF crystal runs. *)
Tick ==
  /\ unit["lfxo"] = "running"
  /\ Rtc!Tick
  /\ UNCHANGED <<mainVars, unitVars, ledVars, pressed, emitted, radioVars>>

OtherEvent ==
  /\ Rtc!OtherEvent
  /\ UNCHANGED <<mainVars, unitVars, ledVars, pressed, emitted, radioVars>>

(* A crystal has settled, or a random byte is ready.                       *)
UnitStarted(u) ==
  /\ unit[u] = "starting"
  /\ unit' = [unit EXCEPT ![u] = "running"]
  /\ event' = [event EXCEPT ![u] = 1]
  /\ UNCHANGED <<mainVars, phase, ledVars, pressed, emitted, radioVars, rtcVars>>

RadioRuns ==
  /\ Radio!Ready \/ Radio!RampedDown
  /\ UNCHANGED <<mainVars, unitVars, ledVars, pressed, emitted, rtcVars>>

PacketSent ==
  /\ Radio!End
  /\ emitted' = Received(air')
  /\ UNCHANGED <<mainVars, unitVars, ledVars, pressed, rtcVars>>

Button ==
  /\ pressed' = ~pressed
  /\ UNCHANGED <<mainVars, unitVars, ledVars, emitted, radioVars, rtcVars>>

(* The button is where it is; everything else starts anew. GPIO pins are   *)
(* inputs again, so the LEDs are dark.                                     *)
Reset ==
  /\ pc' = "board" /\ i' = 1 /\ lost_mode' = FALSE /\ btn_prev' = FALSE
  /\ jitter_ms' = 0 /\ s_counter' = 0
  /\ unit' = [u \in Units |-> "stopped"] /\ event' = [u \in Units |-> 0]
  /\ phase' = "clear"
  /\ led1' = FALSE /\ led2' = FALSE
  /\ emitted' = Adv!NoEmission
  /\ Radio!ResetWith(Zeroed)
  /\ Rtc!Reset
  /\ UNCHANGED pressed

-----------------------------------------------------------------------------
Boot ==
  \/ board_init
  \/ \E u \in {"hfxo", "lfxo"} : clock_started(u)
  \/ auth_init \/ radio_init \/ rtc_init

UseUnit == \E u \in Units : ClearEvent(u) \/ TriggerTask(u)

Loop ==
  \/ PollButton \/ auth_next_counter \/ BuildHead \/ BuildTail
  \/ StartSend \/ SendStep \/ SendReturned
  \/ led_toggle \/ rng_get_byte
  \/ StartSleep \/ SleepStep \/ SleepReturned

Main == Boot \/ UseUnit \/ Loop

Hardware ==
  \/ \E u \in Units : UnitStarted(u)
  \/ RadioRuns \/ PacketSent

Next == Main \/ Interrupt \/ Tick \/ Hardware \/ OtherEvent \/ Button \/ Reset

Spec == Init /\ [][Next]_vars

(* Main and the handler are executed, the LF crystal ticks, and the units  *)
(* and the radio complete what was started.                                *)
FairSpec ==
  /\ Spec
  /\ WF_vars(Main) /\ WF_vars(Interrupt) /\ WF_vars(Tick) /\ WF_vars(Hardware)

-----------------------------------------------------------------------------
(* Properties.                                                             *)

(* The composition uses the radio driver as Radio allows: one call at a    *)
(* time, and the buffer is filled between the calls.                       *)
UsesRadio == Radio!Spec

(* The composition uses the timer as Rtc allows, with the interval and the *)
(* jitter within its range, after rtc_init.                                *)
UsesRtc == Rtc!Spec

(* What a scanner receives is the schedule of AdvSchedule: no frame torn,  *)
(* repeated, skipped, on the wrong channel or with a stale counter.        *)
KeepsSchedule == Adv!Spec

(* "The RADIO requires the crystal" (clock.h), and rtc_init is called      *)
(* "after the LFCLK is running" (rtc.h).                                   *)
ClocksBeforeUse ==
  /\ state # "Disabled" => unit["hfxo"] = "running"
  /\ tpc # "off" => unit["lfxo"] = "running"

(* The rule of clock.c (clear the event, fire the task, wait for the       *)
(* event): an event seen by a poll is never the one of an earlier use, so  *)
(* a clock is stable and a random byte is new when main goes on.           *)
PollIsFresh ==
  pc \in Units /\ phase = "poll" /\ event[pc] = 1 => unit[pc] = "running"

(* The sleep armed has the length LED2 announces: the short interval when  *)
(* it is lit, the long one otherwise, plus the jitter.                     *)
IntervalMatchesLed ==
  pc = "sleeping" =>
    \E j \in 0 .. ADV_JITTER_MAX_MS :
      ticks = RTC_MS_TO_TICKS(j + IF led2 THEN ADV_INTERVAL_LOST_MS
                                          ELSE ADV_INTERVAL_MS)

(* "Visible heartbeat": LED1 changes once per advertising event, so it is  *)
(* lit after the odd counters (CtrMod is even).                            *)
HeartbeatCounts ==
  pc \in {"rng", "sleep", "sleeping"} => (led1 <=> s_counter % 2 = 1)

(* The beacon keeps advertising unless it is reset again and again.        *)
KeepsAdvertising ==
  (<>[][~Reset]_vars) => []<><<Adv!Emit>>_emitted

(* Once the button is left alone, held or not, the last sample agrees with *)
(* it and lost mode does not change any more.                              *)
ModeSettles ==
  (<>[][~Reset /\ ~Button]_vars) =>
     /\ <>[](btn_prev = pressed)
     /\ <>[]lost_mode \/ <>[]~lost_mode

=============================================================================
