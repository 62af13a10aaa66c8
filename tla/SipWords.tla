------------------------------ MODULE SipWords ------------------------------
(***************************************************************************)
(* 64-bit words as four 16-bit digits, the lowest first, the SipRound of   *)
(* src/siphash.c, which is also _sipround of tools/verify_beacon.py, and   *)
(* what the two hash functions do with their blocks.                       *)
(***************************************************************************)
EXTENDS Integers, Sequences, SequencesExt, Bitwise

D == 65536

Word(f(_)) == <<f(1), f(2), f(3), f(4)>>

XOR(x, y) == Word(LAMBDA k : x[k] ^^ y[k])

Add(x, y) ==
  LET c1 == (x[1] + y[1]) \div D
      c2 == (x[2] + y[2] + c1) \div D
      c3 == (x[3] + y[3] + c2) \div D
  IN  << (x[1] + y[1]) % D, (x[2] + y[2] + c1) % D,
         (x[3] + y[3] + c2) % D, (x[4] + y[4] + c3) % D >>

(* Rotate left by b in 1..63: q whole digits and r bits.                   *)
rotl(x, b) ==
  LET q == b \div 16
      r == b % 16
      digit(k) == x[((k - 1 - q) % 4) + 1]
  IN  Word(LAMBDA k : ((digit(k) * 2 ^ r) % D) + (digit(k - 1) \div 2 ^ (16 - r)))

u8to64_le(p) == Word(LAMBDA k : p[2 * k - 1] + 256 * p[2 * k])

SIPROUND(v) ==
  LET a0 == Add(v[1], v[2])
      a1 == XOR(rotl(v[2], 13), a0)
      a2 == Add(v[3], v[4])
      a3 == XOR(rotl(v[4], 16), a2)
      b0 == Add(rotl(a0, 32), a3)
      b2 == Add(a2, a1)
  IN  <<b0, XOR(rotl(a1, 17), b2), rotl(b2, 32), XOR(rotl(a3, 21), b0)>>

(* "somepseudorandomlygeneratedbytes" xored with the key k0, k1.           *)
Keyed(k0, k1) ==
  << XOR(<<\h6575, \h7073, \h6d65, \h736f>>, k0),
     XOR(<<\h6f6d, \h6e64, \h7261, \h646f>>, k1),
     XOR(<<\h7261, \h6e65, \h6765, \h6c79>>, k0),
     XOR(<<\h6573, \h7974, \h6462, \h7465>>, k1) >>

(* One block m: into v3, two rounds, into v0.                              *)
Mixed(v, m) ==
  LET w == SIPROUND(SIPROUND([v EXCEPT ![4] = XOR(@, m)]))
  IN  [w EXCEPT ![1] = XOR(@, m)]

(* v2 ^= 0xff, four rounds, and the xor of the state.                      *)
Finalized(v) ==
  LET w == SIPROUND(SIPROUND(SIPROUND(SIPROUND(
             [v EXCEPT ![3] = XOR(@, <<\hff, 0, 0, 0>>)]))))
  IN  XOR(XOR(w[1], w[2]), XOR(w[3], w[4]))

(* The words of the blocks through the state, and the tag.                 *)
Hashed(k0, k1, blocks) ==
  LET words == [j \in DOMAIN blocks |-> u8to64_le(blocks[j])]
  IN  Finalized(FoldLeft(Mixed, Keyed(k0, k1), words))

=============================================================================
