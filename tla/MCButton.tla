------------------------------ MODULE MCButton ------------------------------
(***************************************************************************)
(* Beacon with a history variable for the button: owed is set by a press   *)
(* (an edge of the pin) and cleared when lost mode changes, or by a reset. *)
(***************************************************************************)
EXTENDS Beacon

VARIABLE owed

OwedInit == Init /\ owed = FALSE

OwedNext ==
  /\ Next
  /\ owed' = IF pc' = "board" THEN FALSE
             ELSE IF lost_mode' # lost_mode THEN FALSE
             ELSE owed \/ (pressed' /\ ~pressed)

OwedSpec ==
  /\ OwedInit /\ [][OwedNext]_<<vars, owed>>
  /\ WF_vars(Main) /\ WF_vars(Interrupt) /\ WF_vars(Tick) /\ WF_vars(Hardware)

(* "Button 1 edge toggles lost mode" (main.c:69): a press is followed by a *)
(* change of the mode, or a reset.  The code polls the pin once in an      *)
(* interval, so a press and release within one sleep are not seen.         *)
EveryPressToggles == owed ~> ~owed

=============================================================================
