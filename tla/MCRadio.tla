------------------------------ MODULE MCRadio ------------------------------
(***************************************************************************)
(* Radio with two different PDUs, so that a buffer rewritten under a       *)
(* packet shows.                                                           *)
(***************************************************************************)
EXTENDS Radio

=============================================================================
