----------------------------- MODULE SipBlocks -----------------------------
(***************************************************************************)
(* The message of siphash24 cut into blocks of eight bytes: in place, as   *)
(* src/siphash.c does, and by slices, as tools/verify_beacon.py does.      *)
(***************************************************************************)
EXTENDS Integers, Sequences

end(in) == Len(in) - (Len(in) % 8)
left(in) == Len(in) % 8

(* Mutant: case 3 ends in a break, so bytes 0 and 1 are left out.          *)
LastBlockBreak(in) ==
  [k \in 1 .. 8 |-> IF k = 8 THEN Len(in) % 256
                    ELSE IF k <= left(in) /\ ~(left(in) >= 3 /\ k < 3)
                      THEN in[end(in) + k] ELSE 0]

(* b, the lowest byte first: every case of the switch falls through to the *)
(* lower ones, and inlen << 56 keeps the low byte of the length.           *)
LastBlock(in) ==
  [k \in 1 .. 8 |-> IF k = 8 THEN Len(in) % 256
                    ELSE IF k <= left(in) THEN in[end(in) + k] ELSE 0]

(* What ni points at while it runs up to end, and then b.                  *)
blocks(in) ==
  Append([j \in 1 .. end(in) \div 8 |-> [k \in 1 .. 8 |-> in[8 * (j - 1) + k]]],
         LastBlock(in))

-----------------------------------------------------------------------------
(* The script: slices of the data, the tail padded on the right and cut to *)
(* seven bytes, the length on top.                                         *)
n_full(data) == Len(data) \div 8
tail(data) == SubSeq(data, 8 * n_full(data) + 1, Len(data))
ljust(s) == s \o [k \in 1 .. 8 - Len(s) |-> 0]

script_blocks(data) ==
  Append([i \in 1 .. n_full(data) |-> SubSeq(data, 8 * (i - 1) + 1, 8 * (i - 1) + 8)],
         SubSeq(ljust(tail(data)), 1, 7) \o <<Len(data) % 256>>)

=============================================================================
