----------------------------- MODULE RttChannel -----------------------------
(***************************************************************************)
(* What the RTT up-channel promises (src/rtt.h, src/rtt.c): a log call     *)
(* never waits, a prefix of what it writes enters a queue of at most       *)
(* Capacity characters, and the host takes the characters out in order,    *)
(* each one as it was written.                                             *)
(***************************************************************************)
EXTENDS Naturals, Sequences

CONSTANTS Chars,     \* the characters that are logged
          Capacity   \* the most characters that may wait for the host

VARIABLES writing,   \* the argument of the call in progress, or of the last one
          queue,     \* what waits for the host
          taken      \* what the host took last

vars == <<writing, queue, taken>>

Init == writing = <<>> /\ queue = <<>> /\ taken = <<>>

Call == writing' \in Seq(Chars) /\ UNCHANGED <<queue, taken>>

(* The call hands over its first n characters; the rest is trimmed.        *)
Publish(n) ==
  /\ Len(queue) + n <= Capacity
  /\ queue' = queue \o SubSeq(writing, 1, n)
  /\ UNCHANGED <<writing, taken>>

Take(n) ==
  /\ taken' = SubSeq(queue, 1, n)
  /\ queue' = SubSeq(queue, n + 1, Len(queue))
  /\ UNCHANGED writing

Next ==
  \/ Call
  \/ \E n \in 0 .. Len(writing) : Publish(n)
  \/ \E n \in 0 .. Len(queue) : Take(n)

Spec == Init /\ [][Next]_vars

=============================================================================
