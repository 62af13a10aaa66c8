------------------------------ MODULE SipHash ------------------------------
(***************************************************************************)
(* siphash24 of src/siphash.c and of tools/verify_beacon.py, compared with *)
(* each other and with the published vectors.                              *)
(***************************************************************************)
EXTENDS SipWords, SipBlocks

CONSTANT Calls   \* the calls made: [in, k0, k1]

siphash24(k0, k1, in) == Hashed(k0, k1, blocks(in))

(* siphash24 of tools/verify_beacon.py                                     *)
script_siphash24(k0, k1, data) == Hashed(k0, k1, script_blocks(data))

-----------------------------------------------------------------------------
(* The firmware and the receiver compute the same function: "two           *)
(* implementations agreeing across languages" (verify_beacon.py), for      *)
(* messages of every length modulo 8 and beyond 255 bytes.                 *)
SameFunction ==
  \A c \in Calls : siphash24(c.k0, c.k1, c.in) = script_siphash24(c.k0, c.k1, c.in)

(* The vectors of tools/test_siphash.c: key 00 .. 0f, message 00 .. n-1;   *)
(* and the sample beacon tag it prints, as docs/05-testing.md gives it.    *)
vectors ==
  (0 :> <<\h0e31, \hdd0e, \hdb47, \h726f>>)
    @@ (1 :> <<\h67fd, \h93dc, \h39c5, \h74f8>>)
    @@ (8 :> <<\h2462, \h9a93, \hf579, \h93f5>>)
    @@ (15 :> <<\h45e5, \h49be, \hca61, \ha129>>)

SampleMessage == <<163, 245, 80, 143, 42, 226, 1, 1, 0, 0, 0>>

VectorsMatch ==
  LET RefKey(w) == [k \in 1 .. 4 |-> 8 * w + 2 * k - 2 + 256 * (8 * w + 2 * k - 1)]
      reference(in) == siphash24(RefKey(0), RefKey(1), in)
  IN  /\ \A n \in DOMAIN vectors : reference([k \in 1 .. n |-> k - 1]) = vectors[n]
      /\ SubSeq(reference(SampleMessage), 1, 2) = <<\h2285, \h921e>>

=============================================================================
