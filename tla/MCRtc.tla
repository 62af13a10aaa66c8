------------------------------- MODULE MCRtc -------------------------------
(***************************************************************************)
(* Rtc on a 16-tick counter: sleeps of 4 to 6 ticks, a work budget of 2    *)
(* and a wake-up lag of 2.                                                 *)
(***************************************************************************)
EXTENDS Rtc
=============================================================================
