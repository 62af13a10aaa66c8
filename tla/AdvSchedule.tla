---------------------------- MODULE AdvSchedule ----------------------------
(***************************************************************************)
(* What the beacon promises a scanner (src/auth.h, src/main.c, docs/03):   *)
(* advertising events with consecutive counters, each of one packet on     *)
(* channel 37, one on 38 and one on 39, in this order and with the same    *)
(* counter.  A restart of the beacon is visible as a fresh start with      *)
(* counter 1.                                                              *)
(***************************************************************************)
EXTENDS Naturals

CONSTANT CtrMod    \* the frame counter is a natural modulo CtrMod (2^32)

VARIABLE emitted   \* the last whole frame that went out on the air

AdvChannels == {37, 38, 39}

Emission(c, ch) == [counter |-> c, channel |-> ch]

(* Nothing has been sent since the start.                                  *)
NoEmission == Emission(0, 0)

NextCounter(c) == (c + 1) % CtrMod

(* The emission after e.                                                   *)
Following(e) ==
  CASE e.channel = 37 -> Emission(e.counter, 38)
    [] e.channel = 38 -> Emission(e.counter, 39)
    [] OTHER          -> Emission(NextCounter(e.counter), 37)

Init == emitted = NoEmission

Emit == emitted' = Following(emitted)

Restart == emitted # NoEmission /\ emitted' = NoEmission

Next == Emit \/ Restart

Spec == Init /\ [][Next]_emitted

=============================================================================
