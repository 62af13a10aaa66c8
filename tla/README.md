# Find My Keys beacon: verification project

TLA+ models of the firmware in `src/` (an nRF52840 BLE beacon written without
an SDK) and of its receiver `tools/verify_beacon.py`, TLC runs that check them
on small instances, and TLAPS proofs for every value of their constants.
Paths below are relative to the repository: `src/rtc.c` is listed in
`PROJECT.json` as `src/src/rtc.c`.

## The system

The firmware is one thread (`main`), one interrupt handler
(`RTC0_IRQHandler`), and peripherals that run by themselves. They share
registers, one flag (`s_fired`) and one buffer (`s_pdu`). A debug probe reads
and writes the log ring in RAM while the firmware runs. The receiver is a
separate Python program; the two meet only on the air.

| Component | State | Operations | Talks to | What makes it correct |
| --- | --- | --- | --- | --- |
| `main.c` | `s_pdu`, `lost_mode`, `btn_prev`, channel index | boot sequence, then poll button, count, build, send x3, toggle LED1, sleep | all drivers, by call | the emitted packets are consecutive events, one packet per channel; interval and LED2 follow the button |
| `rtc.c` | `s_fired`; RTC0 COUNTER, CC0, EVENTS_COMPARE0; NVIC pending bit; event register | `rtc_init`, `rtc_sleep_ticks`, `RTC0_IRQHandler` | interrupt to thread through `s_fired` and WFE | no lost wakeup, no early or missed wakeup, every sleep ends |
| `radio.c` | RADIO FREQUENCY, DATAWHITEIV, SHORTS, EVENTS_*, STATE | `radio_init`, `radio_send` | EasyDMA reads `s_pdu` | one whole packet per call on the right channel; disabled whenever it is retuned |
| `clock.c`, `rng.c` | an event flag and a running unit each | clear the event, trigger the task, poll the event | registers | the event polled is the one of this use |
| `auth.c` | `s_counter` (32 bits, not persisted) | `auth_init`, `auth_next_counter`, `auth_compute_tag` | `ble.c`, `main.c` | one counter per event, tag over address and counter |
| `board.c` | LED and button pins | LED on, off, toggle; button sample | `main.c` | active-low logic, heartbeat |
| `ble.c`, `ficr.c` | none (fills `s_pdu`) | `ble_build_adv`, `ficr_get_ble_mac` | `auth.c` | at most 39 bytes; the lengths lead a scanner to the end; the receiver accepts the bytes |
| `rtt.c` | control block, ring, `WrOff`, `RdOff` | `rtt_init`, `rtt_write`, `rtt_write_str`, `rtt_printf` | probe, through RAM | in order, whole characters, never blocks; the block is complete before it is recognised |
| `startup.c` | `.data`, `.bss`, vector table | `Reset_Handler`, `Default_Handler` | everything | statics are initialised before `main`, whatever RAM held; every enabled interrupt finds its handler |
| `siphash.c` | none | `siphash24` | `auth.c` | the same function as in the receiver |
| `util.c` | none | memory helpers, a delay | the compiler; no caller by name | |
| `tools/verify_beacon.py` | `last_counter` per device | `verify_payload`, `on_adv`, offline mode | scanner callbacks | valid means genuine and new |

Hard behaviours: the interrupt between the test of a flag and WFE; hardware
events left over from an earlier use; a buffer that is read by DMA while the
thread goes on; a lock-free ring shared with a probe that may stop between any
two accesses and that does not notice when the target is reset; resets at any
step, with a counter that starts again and RAM as it was left; presses of a
button that may be shorter than an interval; packets lost or heard several
times; byte orders and lengths that two programs have to agree on.
`PROJECT.json` lists each hazard with its line and the properties that watch it.

## Modules

| Module | Models | Composes |
| --- | --- | --- |
| `Rtc` | `rtc.c`, RTC0, the NVIC and WFE | |
| `Radio` | `radio.c`, the RADIO state machine, EasyDMA | |
| `AdvSchedule` | abstract: what a scanner may receive | |
| `Beacon` | `main.c`, `clock.c`, `rng.c`, `board.c`, the counter of `auth.c` | `Rtc`, `Radio`, `AdvSchedule` by INSTANCE |
| `RttChannel` | abstract: a lossy bounded queue | |
| `Rtt` | `rtt_write` and the probe | refines `RttChannel` |
| `RttBoot` | `rtt_init` and the zeroing of `.bss`, across resets under a probe | extends `Rtt` |
| `RttText`, `RttPrintf` | abstract: the text of each item of a format, the output of a call item by item | |
| `RttFormat` | `rtt_printf`, its conversions and their digit loops | refines `RttPrintf` |
| `Verifier` | `verify_payload` and `on_adv` over time, beacons that restart or are reflashed, the air and other senders on it | |
| `SipBlocks` | how the two programs cut a message into blocks | |
| `SipWords`, `SipHash` | 64-bit words, `SIPROUND`, `siphash24` of both programs | `SipHash` extends `SipBlocks` |
| `BleAdv` | `ficr.c`, the message of `auth.c`, `ble.c`, and the receiver, byte by byte | extends `SipBlocks`; with `SipHash` in `MCBleAdv` |
| `Startup` | `Reset_Handler`, the vector table, the sections of the linker script | |
| `RtcProof`, `RadioProof`, `BeaconProof`, `RttProof`, `RttFormatProof`, `VerifierProof`, `BleAdvProof`, `StartupProof` | theorems | extend their component |
| `MC*` | instances for TLC | extend their component |

`Beacon`, `Verifier` and `BleAdv` are three views of one frame: `Beacon` tells
whole frames from torn ones and follows them to the air, `Verifier` follows
tags and counters over restarts, `BleAdv` has the bytes.

### Rtc

`rtc_sleep_ticks` is cut at every access another party can see: the reset of
`s_fired` (`rtc_sleep_ticks`), the compare (`ArmCompare`), the event
(`ClearEvent`), the loop test (`TestFired`), WFE (`nrf_wfe`, `Wake`), and the
clear of the counter (`ClearAndReturn`). The handler preempts the thread: thread
actions need `isr = "idle"`. `IsrReturn` sets the event register, as an
exception return does on the Cortex-M4, and may leave the interrupt pending
once more after an acknowledge, because the handler has no barrier after the
store. `OtherEvent` is the spurious wakeup the comment of the loop speaks of.
Time is `Tick`, one LF tick, which may fall between any two steps. The software
is assumed to keep up: at most `MaxWork` ticks from the clear to the
next arming and at most `MaxLag` from the compare to the clear, with
`MaxWork < MinTicks`. On the board these are about 1.2 ms (docs/03) of work
against 30 ms, the shortest interval, and a wrap of 512 s. Without that
assumption a compare armed behind the counter would be missed for a whole wrap;
that it holds is a matter of timing that the models do not derive.

### Radio

`radio_send` is cut into retuning (`radio_send`), clearing the events
(`ClearEvents`), TXEN (`TxEn`) and the end of the polling loop (`Return`). The
peripheral is `Ready`, `End` and `RampedDown`; each SHORT decides what follows.
A packet remembers the carrier latched at TXEN, the seed and the first bytes
latched at START and the last bytes read at the end, so that a retune or a
rewrite under a packet leaves a trace.

### Beacon

One action per statement of `main` that changes something, in program order.
`ClearEvent`, `TriggerTask` and `clock_started` / `rng_get_byte` are the
pattern the two clock functions and the random byte share. `ble_build_adv` is
two steps with a torn frame between them. Nothing in `Beacon` guards
the buffer or the drivers: that `main` uses them as they require is checked,
by `UsesRadio` (the steps of `Beacon` are steps of `Radio!Spec`, whose
`WritePdu` is only allowed between calls) and `UsesRtc` (`Rtc!Spec`, whose
argument is within the range of base interval plus jitter). `emitted` is what a
scanner last received: the counter and channel of a packet that is whole and
on the carrier and seed of an advertising channel, or a garbled one. A reset is
possible at every step. Log calls are left out: they change nothing `main`
reads, and `Rtt` shows that they return.

### Rtt

`rtt_write` is cut at the reads and writes the probe can see. The `dsb` before
the offset is published orders the stores, so the model executes them in order.
The probe samples `WrOff`, copies character by character, and may acknowledge
only part of what it has copied. It may also stop for ever at any point.

### RttBoot

The control block and the ring lie in `.bss` and keep their contents over a
reset until the loop of `Reset_Handler` has zeroed them, word by word in the
order of their addresses (`ZeroBss`). `rtt_init` then stores the fields, the id
last. The probe takes no part in the reset: it may recognise the id at any
instant (`Attach`), and once attached it goes on with the offsets it holds
(`Poll`), so that it may store an offset of the previous run into `RdOff`
after `rtt_init` has zeroed it. Every such store stays inside the ring
(`BootTypeOK`). What is read until then may be wrong, and the code does nothing
to repair it; `HealedIsChannel` and `PauseHeals` say what does: once the ring
has been empty with both sides idle it is the queue of `RttChannel` again, and
a pause of the target is enough to get there. Without the pause recovery is
not certain: the writer and a reader with a stale offset can chase each other
for ever. The constant `Reordering` says whether the compiler moves stores
that are not volatile across the volatile ones; the only barrier of `rtt_init`
stands behind the id. The flash of the chip is not part of the model.

### RttFormat

The format loop is cut where it moves on: a character that is no percent sign
(`Literal`), a percent sign (`Percent`), a digit of the width (`WidthDigit`), the
`switch` (`Conversion`). The digit loops of `emit_udec` and `emit_hex` find a
digit (`FoundDigit`), pad (`Pad`) and emit backwards (`EmitDigits`). What is to be
written waits in `writes`, one entry per call of `rtt_write`: a conversion emits
one character at a time, `%s` all in one. The ring is reduced to the room it has,
which a probe may enlarge between two calls. All `%u`, `%d` and `%x` of a call
have the same argument. The size of the integers is a constant, so that the
negation of the smallest one and the ends of the two digit buffers are met with
small numbers.

`RttText` is the list in `rtt.h`: which items a format consists of and the text
each stands for, with numerals defined by position, not by repeated division.
`RttPrintf` is the promise made with it: a call outputs the text of one item after
the other, to the end of the format. `DocumentedOutput` says that `RttFormat`
implements it, where the output counts from the moment the number is taken up: to
what has been asked of `rtt_write` the mapping adds what waits and the whole
numeral whose digits are being found. `CallsAssumption` restricts the formats to
those made of listed items, as all of the repository are. The negation of the
smallest `int32_t` (`src/rtt.c:188`) is undefined in C. The model has the
outcome of the Cortex-M4's instruction for it, a subtraction from zero that
wraps: `DocumentedOutput` says nothing of a compiler that makes something else
of it.

### Verifier

Frames carry a tag that is an injective function of key, address and counter.
One beacon event can be heard on any of its channels: `Hear` may append the
current frame as often as it likes, within the bound of the backlog, or never.
The address, the counter and the tag of a frame need not belong together: a
frame of others may name any device and any counter and carry a tag recorded
earlier, of that beacon or another (`Recorded`), or a wrong one. Only tags under
`KEY` that no beacon has sent are out of reach, since they take the key
(docs/04, "Forge"). All wrong tags are one value, `WrongTag`: the verifier
tells none from another.
`Foreign` is an advertisement with the same name and company id of another
length. `Restart` is a power cycle or a reflash, possibly with another key: the
key in `verify_beacon.py` "MUST match" the firmware's, and while it does not,
every frame is a bad tag. `on_adv` returns early for another name or for
no payload; those calls change nothing and are not modelled. Addresses are
taken to be six bytes, as on Linux: `parse_mac` ends the program otherwise.
`highest` is the memory the documentation asks for, `tainted` the set of
devices a bad tag has been reported for.

### SipBlocks, SipWords, SipHash

A 64-bit word is four 16-bit digits, since TLC's integers have 32 bits; sums
carry from digit to digit and `rotl` moves whole digits and then bits.
What differs between the two programs is how a message becomes blocks:
`siphash.c` reads it in place, the tail put together by the fall-through of the
switch (`blocks`), and the Python function slices and pads (`script_blocks`).
The rounds over the blocks are the same in both (`Hashed`).

### BleAdv

`ble_build_adv` section by section, each a run of stores at `i`, into a buffer
that still holds the previous frame; then what EasyDMA sends of it under the
radio's MAXLEN, what a scanner finds by following the length bytes, and the
verdict of the script on what the scanner displays, the address backwards
included. `NamesAssumption` limits the name to the 13 bytes that leave AdvData
at 31: nothing in the code checks it, and `config.h` has 10. What the
rounds make of a message is a parameter, a function of the blocks; each program
cuts its message into blocks as `SipBlocks` says. `MCBleAdv` gives the parameter
the value of `SipHash` under the key of `config.h`.

### Startup

The section boundaries are those of the linker script for any sizes, with its
alignments. RAM and the image in flash start with any contents, and a reset
may come at any step. The vector table is the one of the source, with
`Resolved` for the weak aliases: a handler without a definition of its own is
`Default_Handler`, in which the core would stay.

## Runs

| Run | Instance | Shows | States |
| --- | --- | --- | --- |
| `rtc` | 16-tick counter, sleeps of 4 to 6 ticks, work 2, lag 2 | `TypeOK`, `IntervalKept`, `NoLostWakeup`, `CompareNotMissed`, `SleepEnds` | 1.3 thousand |
| `radio` | two buffer contents, three channels | `DisabledOnEntry`, `OnAirIntact`, `SentOnce`, `SendReturns` | 0.2 thousand |
| `beacon` | counter modulo 4, 2 and 3 ms at 1500 Hz, jitter 0 or 1 ms, 16-tick RTC0 | `UsesRadio`, `UsesRtc`, `KeepsSchedule`, `ClocksBeforeUse`, `PollIsFresh`, `IntervalMatchesLed`, `HeartbeatCounts`, `KeepsAdvertising`, `ModeSettles`, `TypeOK` | 96 thousand |
| `button` | counter modulo 2, 2 and 3 ms at 1000 Hz, no jitter, 8-tick RTC0, a history variable for a press | `EveryPressToggles` is violated | |
| `rtt` | ring of 3, two characters, writes of up to 3 | `ImplementsChannel`, `NoOverlap`, `NeverStalls` | 45 thousand |
| `rtt_boot` | ring of 3, one character, writes of up to 2, stores in program order | `BootTypeOK`, `RecognisedIsFormed`, `HealedIsChannel`, `PauseHeals` | 222 thousand |
| `rtt_boot_reordered` | the same, with stores the compiler may move | `RecognisedIsFormed` is violated | |
| `rtt_format` | 8-bit numbers, digit buffers of 3 and 2, a ring of 4; each conversion with each number, pairs of parts with the numbers at the boundaries | `DocumentedOutput`, `StaysInBounds`, `TrimsTheEnd` | 245 thousand |
| `verifier` | two beacons (symmetric), two keys, counters to 2, one waiting | `ValidIsGenuine`, `ValidCountersGrow`, `OnlyReplaysRejected` | 2.3 million |
| `verifier_bad_tag` | the same, without symmetry | `DocumentedReceiver` is violated | |
| `ble_adv` | names of 0, 10 and 13 bytes, two addresses, four counters, the real hash | `ScannerReads`, `ScriptAccepts`, `HashesAgree`, `TypeOK` | 0.6 thousand |
| `startup` | 6 bytes of `.data`, 5 of `.bss`, one word of stack, two contents of a word | `StaticsInitialised`, `StackKept`, `NeverParked`, `TypeOK` | 1 thousand |

The type invariants of `Radio`, `Rtt` and `Verifier` are proved and not run;
that of `Rtt` is part of `BootTypeOK`. Deadlock is checked everywhere: none of
these systems may stop.

Why the bounds are enough:

- `rtc`: the counter wraps within a few steps of the longest sleep plus lag, so
  a missed compare shows as `wrapped`; both budgets leave room for a tick
  between every two steps. The three inequalities between the constants are
  those of the board, and the proofs need no more.
- `beacon`: the tick rate makes 2, 3 and 4 ms three different numbers of ticks
  (3, 4, 6), so an interval mixed up with another shows; random bytes 2 and 7
  cover both remainders and lie beyond the jitter; the counter wraps.
- `rtt`, `rtt_boot`: a ring of three cells is full after two characters, so
  full, empty, wrap-around and trimmed calls all occur; in `rtt` a write can be
  longer than the ring. What `rtt_boot` asks is about offsets, so one character
  is enough: blank cells and logged ones still differ.
- `rtt_format`: 8-bit numbers have up to three decimal and two hexadecimal
  digits, so both buffers are met at their last cell, and the smallest signed
  number occurs. Two parts in a row show what a conversion leaves behind, and a
  ring of four is filled by them.
- `verifier`: a counter can be below, equal to and above the remembered one
  after a restart; either beacon can be of either key while the other sends.
  Two beacons and two counters are enough for a recorded tag to come under the
  wrong one of each. The beacons are alike and all three properties are safety,
  so symmetry is sound.
  One advertisement waiting is enough for frames of different boots to be
  mixed: a beacon may be restarted while its frame waits, and the next is
  heard when it has been taken. `MaxCounter` and `MaxHeard` only bound the
  state space, and the proofs have neither.
- `ble_adv`: an empty name, the real one and the longest one; two addresses that
  differ in one bit, only one of which has its two highest bits set already; the
  counters make each of the four bytes differ from the others (TLC's integers
  stop at 2^31 - 1). `HashesAgree` takes messages of all lengths from 0 to 20
  and of 257 bytes, and keys and bytes of all ones, where every sum carries.
- `startup`: neither section fills its last word, and a word behind `.bss` is
  there to be overwritten.

### Fairness

`FairSpec` assumes that the CPU executes the thread and the handler, that the LF
crystal ticks, and that a unit or the radio completes what was triggered. These
are the parts of the chip the code itself relies on when it polls without a
timeout. Nothing is assumed of resets, of other events, of the button or of
radio reception, and of the probe only in `FairBootSpec`: while it stays
attached it keeps polling, which is what a log viewer does. Liveness properties
are stated for behaviours with finitely many resets (`<>[][~Reset]_vars`), since
no property survives a reset in every interval.

### Where code and documentation differ

- `button`: "Button 1 edge toggles lost mode" (`src/main.c:69`). The pin is
  sampled once per interval (`src/main.c:70`), so a press and release between
  two samples has no effect.
- `verifier_bad_tag`: docs/04 says that the last-seen counter is updated by a
  valid tag with an advanced counter and that the script implements exactly
  this (lines 40 and 42). `on_adv` also raises it for frames with a wrong tag
  (`tools/verify_beacon.py:177`): after one whose counter is ahead, new frames
  of the device itself are reported as replays until they catch up. The same
  happens after a beacon ran with another key and was flashed with the right
  one.
  A device for which no bad tag has been reported is treated as documented,
  whatever else is heard (run `verifier`, theorem
  `VerifierOnlyReplaysRejected`).
- `rtt_boot_reordered`: "Write the magic id last, with a barrier, so the block
  is fully formed before a host could recognise it" (`src/rtt.c:77`). The
  barrier comes after the id, and of the fields only `WrOff` and `RdOff` are
  volatile, so the language lets the compiler store the id first. In program
  order the statement holds (run `rtt_boot`, theorem
  `RttBootRecognisedIsFormed`).
- Not a run, since no format in the repository has one: "Anything else is
  emitted verbatim" (`src/rtt.h:29`) is not what `rtt_printf` does with a width
  before another conversion (`%0q` prints `%q`), and a percent sign at the end
  of a format makes the loop step over its NUL (`src/rtt.c:196`).
  `CallsAssumption` excludes both.

## Proofs

Every theorem holds for all values of the constants that satisfy the `ASSUME`
of its module: `RtcAssumption` (the inequalities above), `BeaconAssumption`
(lost interval not longer than the normal one; the same inequalities),
`RttAssumption` (at least two cells), `VerifierAssumption` (the key is one of
the keys; `None` is neither a key nor a counter), `NamesAssumption`, `InputsAssumption` and `HashAssumption` of
`BleAdv` (a name of at most 13 bytes; bytes are bytes), `CountersAssumption` (a
counter has four bytes), `StartupAssumption` (the sections fit into RAM; the two
handlers of the firmware are defined), and of `RttFormat` `CharsAssumption` (a
string may hold digits and signs and holds no NUL), `SizesAssumption` (the digit
buffers have the digits of the largest integer, as 10 and 8 are enough for 2^32)
and `CallsAssumption` (formats are made of listed items, arguments are in range).
`Radio` assumes nothing.

- `RtcProof`: type correctness, `IntervalKept`, `NoLostWakeup`,
  `CompareNotMissed`. None of them is inductive. The strengthening says, for
  each place of the thread, where the counter is relative to the compare, that
  `cc0` is the argument from `ArmCompare` on, and that the flag, the event or
  the handler can only be active when the compare has been reached. The
  point that needs care is the stale interrupt: pending after an acknowledge,
  it must find no event.
- `RadioProof`: type correctness, `DisabledOnEntry`, `OnAirIntact`, `SentOnce`.
  The invariant ties the place of the driver to the state of the
  peripheral, the two events and the packets completed so far.
  `RadioSendReturns` is `SendReturns` under the fairness of `FairSpec`: a call
  passes through six stages (`Clearing` to `Over`), of which each step of a
  fair action leads to the next, and nothing but a reset leads elsewhere. Its
  hypothesis `GuardsSuffice` says that the driver or the peripheral is `ENABLED`
  where its guards hold. This is a fact about the actions, each of which gives
  every variable a value, but one that this version of the prover cannot derive.
- `BeaconProof`: `UsesRadio` and `UsesRtc` are refinements: each step of
  `Beacon` is a step of the driver's specification or leaves its variables
  alone. `UsesRadio` carries the invariant of `RadioProof` over to `Beacon`
  (`RadioInvariance`); with an invariant that relates `pc`, `i`, the buffer
  and `emitted`, `KeepsSchedule` follows: a step maps to `Emit`, `Restart` or a
  stutter. Also `TypeOK`, `ClocksBeforeUse`, `PollIsFresh`,
  `IntervalMatchesLed`, and `HeartbeatCounts`, for an even counter modulus, as
  2^32 is: at an odd one the parity would be lost at the wrap.
  With the two refinements the theorems of the drivers hold of the whole
  firmware: `BeaconTimerSafe` and `BeaconRadioSafe`. `BeaconPeriodKept`, which
  no run checks, adds `IntervalMatchesLed` to them: from the end of one sleep to
  the end of the next, the work of the event included, the counter of RTC0
  advances by the interval of the mode and a jitter, and at most `MaxLag`. The
  counter is cleared at the end of a sleep and not before the next, so that the
  work of an event is not added to the interval.
  `BeaconModeSettles` is `ModeSettles` for a beacon that keeps advertising
  (`KeepsAdvertising`, which the run `beacon` checks of `FairSpec`): with the
  button left alone, the poll before the next event makes `btn_prev` the level
  of the pin, and from then on no poll sees an edge.
- `RttProof`: `TypeOK`, `NoOverlap`, and `RttImplementsChannel`. The invariant
  counts from `RdOff`: what waits plus what the call has stored is less than
  the ring; the stored characters lie behind `WrOff`; what the probe has copied
  is a prefix of what waits. The arithmetic of the wrap-around is in lemmas of
  its own (`WrapAdd`, `WrapInjective`, `DistAdvance`); the refinement compares
  slices of the ring cell by cell.
- `RttProof`, on `RttBoot`: `BootTypeOK`; `RecognisedIsFormed` if the compiler
  keeps the order of the stores; `HealedIsChannel`. The first needs
  where each side stands in its call. The second needs that what a loop has
  zeroed is not filled and what `rtt_init` has stored is, with the id first in
  the one order and last in the other.
  The third starts the invariant of `RttProof` anew at the instant at which the
  ring is empty and idle, where it holds whatever happened before, and uses
  its refinement from there.
- `RttFormatProof`: `StaysInBounds`, `TrimsTheEnd`, and the refinement
  `DocumentedOutput`. The invariant (`IInv`) has one part per question.
  `FormatInv` says where the position stands relative to the item in progress,
  and that items follow to the end of the format, so no NUL is stepped over.
  `NumberInv` says that after n digits `v` is the number divided by base^n, that
  the digits found are the n last ones, and that all of them are needed or asked
  for; hence n is at most the length of the numeral, which the buffer has.
  `TrimInv` adds to `TrimsTheEnd` that after the first loss the ring is full,
  which is what keeps a later character from slipping in. For the refinement
  each action is an item of `RttPrintf` or a stutter: `Literal` and `Conversion`
  are the items; a digit changes nothing in the mapped output, and at
  `EmitDigits` the digits found must be the numeral itself (`DigitsAreNumeral`).
  The powers of the base are recursive functions on the naturals; that they
  exist, and grow past every number, is shown by minimal counterexample
  (`LeastElement`, from the library's theorems on well-founded relations).
- `VerifierProof`: `TypeOK`, `ValidIsGenuine`, `ValidCountersGrow`,
  `OnlyReplaysRejected`. The invariants: the counter of every waiting frame with
  a tag right for its address and counter was sent by that device, since the tag
  binds the three (`TagBinds`) and only recorded tags come under `KEY`; what was
  reported is not beyond what is remembered; for a device without a bad tag,
  what is remembered is what was received with a right tag.
- `BleAdvProof`: `TypeOK` (the index stays in the buffer), `ScannerReads` and
  `ScriptAccepts`, for every name of at most 13 bytes and every hash. The
  invariant has one conjunct per section, which says where it lies and that it
  stays written; the lengths then lead from structure to structure.
  `BleSameBlocks`: the tail, padded and cut by the script, is the last block
  of the switch, for every length.
  `BleAcceptsByTag` follows the frame on to the verdict: what the script takes
  apart and cuts into blocks is what the firmware put together, so it accepts
  a frame under an address exactly if the firmware would give that address the
  tag of the frame, whatever the rounds make of the blocks.
  `BleScriptAccepts` is `ScriptAccepts`, under the hypothesis `TagsDiffer` that
  no two addresses share a tag for a counter; no hash of four bytes has this for
  all addresses, and that it holds of SipHash for those of the run is what the
  run `ble_adv` adds.
- `StartupProof`: `TypeOK`, `StaticsInitialised`, `NeverParked`, `StackKept`, for
  all section sizes and all contents of RAM. The invariant says that what lies
  below `dst` is done.

Only model-checked:

- `SleepEnds`, `KeepsAdvertising`, `NeverStalls` and `PauseHeals`. Each counts
  something down (ticks to the compare, stages of an event, characters to copy),
  and this argument is an induction over data inside a temporal one, which the
  prover cannot instantiate; it also rests on `ENABLED`.
- of `SendReturns` the hypothesis `GuardsSuffice`, and of `ModeSettles` the
  hypothesis `KeepsAdvertising`: the runs `radio` and `beacon` check the two
  properties from the fairness alone.
- `HashesAgree`. That the two programs cut every message into the same blocks
  is proved (`BleSameBlocks`), so they compute the same function of it; that the
  function is SipHash, as the published vectors have it, needs the recursive and
  bitwise definitions evaluated and is up to the run.

## Not modelled

- `util.c`: `memcpy` and `memset` serve calls the compiler may emit, and
  `delay_ms` has no caller; each is one loop without a branch.
- The down buffer of RTT: `rtt_init` describes it and nothing reads it.
- Register values without control (packet format, CRC, power), electrical
  configuration of pins, the register map as such, build files, scripts, CI.
  Of the linker script only `.data`, `.bss` and the stack are modelled.
- The command line and the printed text of `verify_beacon.py`.
- The strength of the tag: its truncation to 32 bits and chance collisions.
- `Default_Handler` after a fault: no interrupt but RTC0's is enabled
  (`NeverParked`), so it is reached only by an exception of the core.
- The contents of flash as seen by a scanning probe.

## What could be added

`Beacon` and `Verifier` meet in the counter of a frame only; a module that
joins them through `AdvSchedule` would check the receiver against the emission
schedule itself, at the price of a larger state space. `RttFormat` knows only
the room of the ring behind `rtt_write`; composing it with `Rtt` would say
which characters of a line survive while a probe drains.
