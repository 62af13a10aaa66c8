----------------------------- MODULE MCStartup -----------------------------
(***************************************************************************)
(* Startup with sections that do not fill their last word, and one word    *)
(* of stack behind them.                                                   *)
(***************************************************************************)
EXTENDS Startup

MCStrong == {"Reset_Handler", "RTC0_IRQHandler"}
=============================================================================
