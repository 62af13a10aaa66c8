----------------------------- MODULE RttPrintf -----------------------------
(***************************************************************************)
(* What a caller of rtt_printf may rely on (src/rtt.h): the output of a    *)
(* call grows by the text of one item of its format after the other, up to *)
(* the end of the format, however much of it the ring can take.            *)
(***************************************************************************)
EXTENDS RttText

CONSTANT Calls

VARIABLES
  call,     \* the call in progress
  at,       \* where the next item of its format begins, 0 between calls
  output    \* the text of the items before it

vars == <<call, at, output>>

Init == at = 0 /\ output = <<>>

Called ==
  /\ at = 0
  /\ call' \in Calls /\ at' = 1 /\ output' = <<>>

Item ==
  /\ at > 0 /\ IsItem(call.fmt, at)
  /\ output' = output \o Text(call, at)
  /\ at' = at + ItemLength(call.fmt, at)
  /\ UNCHANGED call

Returned ==
  /\ at = Len(call.fmt) + 1
  /\ at' = 0 /\ output' = <<>>

Next == Called \/ Item \/ Returned

Spec == Init /\ [][Next]_vars

=============================================================================
