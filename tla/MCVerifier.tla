---------------------------- MODULE MCVerifier ----------------------------
(***************************************************************************)
(* Verifier with two beacons that may be flashed with two keys, and one    *)
(* advertisement waiting.                                                  *)
(***************************************************************************)
EXTENDS Verifier, TLC

(* The beacons are alike, and what is checked is safety.                   *)
Alike == Permutations(Devices)

=============================================================================
