------------------------------ MODULE MCBeacon ------------------------------
(***************************************************************************)
(* Beacon with four counter values, intervals of 2 and 3 ms at 1500 ticks  *)
(* a second, a jitter of at most 1 ms, and a 16-tick RTC0.                 *)
(***************************************************************************)
EXTENDS Beacon
=============================================================================
