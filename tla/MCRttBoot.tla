----------------------------- MODULE MCRttBoot -----------------------------
(***************************************************************************)
(* RttBoot with a ring of three cells, one character and writes of up to   *)
(* two of it, with the stores of rtt_init in order or reordered.           *)
(***************************************************************************)
EXTENDS RttBoot
=============================================================================
