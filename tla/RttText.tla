------------------------------ MODULE RttText ------------------------------
(***************************************************************************)
(* What src/rtt.h says of rtt_printf: the conversions it lists, the text   *)
(* each of them stands for, and the formats made of them.                  *)
(***************************************************************************)
EXTENDS Integers, Sequences

CONSTANTS
  IntMin,      \* magnitude of the smallest int32_t (2^31); the values of a
               \* uint32_t are those below 2 * IntMin, and an int32_t is the
               \* value with its bits
  HexTmp       \* size of tmp in emit_hex (8), the largest width of %0Nx

HexDigits == <<"0", "1", "2", "3", "4", "5", "6", "7", "8", "9",
               "a", "b", "c", "d", "e", "f">>

Pow10[k \in Nat] == IF k = 0 THEN 1 ELSE 10 * Pow10[k - 1]
Pow16[k \in Nat] == IF k = 0 THEN 1 ELSE 16 * Pow16[k - 1]
Pow(base) == IF base = 10 THEN Pow10 ELSE Pow16

(* A numeral by position, not by repeated division: as few digits as n     *)
(* needs, but not fewer than least, nor than one.                          *)
NumeralLength(n, base, least) ==
  CHOOSE k \in 1 .. n + least + 1 :
    /\ n < Pow(base)[k] /\ k >= least
    /\ \A j \in 1 .. k - 1 : j < least \/ n >= Pow(base)[j]

Digit(n, base, j) == HexDigits[((n \div Pow(base)[j]) % base) + 1]

Numeral(n, base, least) ==
  LET k == NumeralLength(n, base, least)
  IN  [j \in 1 .. k |-> Digit(n, base, k - j)]

SignedNumeral(n) ==
  IF n < IntMin THEN Numeral(n, 10, 1) ELSE <<"-">> \o Numeral(2 * IntMin - n, 10, 1)

-----------------------------------------------------------------------------
(* The item of a format that begins at its k-th character.                 *)

Listed == {"s", "c", "%", "u", "d", "x"}

IsLiteral(f, k) == f[k] # "%"
IsPlain(f, k) == k < Len(f) /\ f[k] = "%" /\ f[k + 1] \in Listed
IsPadded(f, k) ==
  /\ k + 2 < Len(f) /\ f[k] = "%" /\ f[k + 1] = "0" /\ f[k + 3] = "x"
  /\ \E w \in (1 .. 9) \cap (1 .. HexTmp) : f[k + 2] = HexDigits[w + 1]
IsUnlisted(f, k) ==
  k < Len(f) /\ f[k] = "%" /\ f[k + 1] \notin Listed \cup {"0"}

IsItem(f, k) ==
  k \in 1 .. Len(f) /\ (IsLiteral(f, k) \/ IsPlain(f, k) \/ IsPadded(f, k) \/ IsUnlisted(f, k))

ItemLength(f, k) ==
  IF IsLiteral(f, k) THEN 1 ELSE IF IsPadded(f, k) THEN 4 ELSE 2

PaddedTo(f, k) == CHOOSE w \in 1 .. 9 : f[k + 2] = HexDigits[w + 1]

(* The text of the item at k: "anything else is emitted verbatim".         *)
Text(c, k) ==
  CASE IsLiteral(c.fmt, k) -> <<c.fmt[k]>>
    [] IsPadded(c.fmt, k)  -> Numeral(c.num, 16, PaddedTo(c.fmt, k))
    [] IsUnlisted(c.fmt, k) -> <<"%", c.fmt[k + 1]>>
    [] IsPlain(c.fmt, k) ->
         CASE c.fmt[k + 1] = "s" -> c.str
           [] c.fmt[k + 1] = "c" -> <<c.chr>>
           [] c.fmt[k + 1] = "%" -> <<"%">>
           [] c.fmt[k + 1] = "u" -> Numeral(c.num, 10, 1)
           [] c.fmt[k + 1] = "d" -> SignedNumeral(c.num)
           [] c.fmt[k + 1] = "x" -> Numeral(c.num, 16, 1)

(* From position k on, format f consists of items.                         *)
ItemsFrom(f, k) ==
  \E starts \in SUBSET (1 .. Len(f) + 1) :
    /\ k \in starts
    /\ \A s \in starts :
         s <= Len(f) => IsItem(f, s) /\ s + ItemLength(f, s) \in starts

=============================================================================
