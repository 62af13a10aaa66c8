------------------------------- MODULE MCRtt -------------------------------
(***************************************************************************)
(* Rtt with a ring of three cells and writes of up to three characters, so *)
(* that full buffers, wrap-around and trimmed calls happen.                *)
(***************************************************************************)
EXTENDS Rtt
=============================================================================
