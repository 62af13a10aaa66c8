--------------------------- MODULE RttFormatProof ---------------------------
(***************************************************************************)
(* Proofs about RttFormat, for every width of the integers and of the      *)
(* ring, and every call with a format of listed items: the digit loops     *)
(* find the numeral of their number and stay within tmp, and the calls of  *)
(* rtt_write pass on what RttPrintf says.                                  *)
(***************************************************************************)
EXTENDS RttFormat, SequenceTheorems, WellFoundedInduction,
        NaturalsInduction, TLAPS

-----------------------------------------------------------------------------
(* Powers.  A property of every natural number is proved by looking at the *)
(* least one without it.                                                   *)

LEMMA LeastElement ==
  ASSUME NEW T, T \subseteq Nat, T # {}
  PROVE  \E x \in T : \A y \in T : y >= x
  <1>1. IsWellFoundedOn(OpToRel(<, Nat), Nat)
    BY NatLessThanWellFounded
  <1>2. PICK x \in T : \A y \in T : ~ (<<y, x>> \in OpToRel(<, Nat))
    BY <1>1, WFMin
  <1>3. OpToRel(<, Nat) = {ss \in Nat \X Nat : ss[1] < ss[2]}
    BY DEF OpToRel
  <1>4. ASSUME NEW y \in T PROVE y >= x
    <2>1. ~ (y < x)
      BY <1>2, <1>3
    <2> QED
      BY <2>1
  <1>5. x \in T
    BY <1>2
  <1> QED
    BY <1>4, <1>5, Zenon

(* A recursive definition by multiplication has a solution.                *)
PowersTo(b, n) ==
  {g \in [0 .. n -> Nat] : \A k \in 0 .. n : g[k] = IF k = 0 THEN 1 ELSE b * g[k - 1]}

LEMMA PowersAgree ==
  ASSUME NEW b \in Nat, NEW m \in Nat, NEW n \in Nat, m <= n,
         NEW g \in PowersTo(b, m), NEW h \in PowersTo(b, n)
  PROVE  \A k \in 0 .. m : g[k] = h[k]
  <1> DEFINE T == {k \in 0 .. m : g[k] # h[k]}
  <1> SUFFICES ASSUME T # {} PROVE FALSE
    OBVIOUS
  <1>1. PICK x \in T : \A y \in T : y >= x
    <2>1. T \subseteq Nat /\ T # {}
      OBVIOUS
    <2> HIDE DEF T
    <2> QED
      BY <2>1, LeastElement
  <1>2. x # 0
    BY <1>1 DEF PowersTo
  <1>3. x - 1 \in 0 .. m /\ x - 1 \notin T
    BY <1>1, <1>2
  <1>4. g[x - 1] = h[x - 1]
    BY <1>3
  <1>5. g[x] = b * g[x - 1] /\ h[x] = b * h[x - 1]
    BY <1>1, <1>2 DEF PowersTo
  <1> QED
    BY <1>1, <1>4, <1>5

LEMMA PowersToExist ==
  ASSUME NEW b \in Nat
  PROVE  \A n \in Nat : PowersTo(b, n) # {}
  <1> DEFINE T == {n \in Nat : PowersTo(b, n) = {}}
  <1> SUFFICES ASSUME T # {} PROVE FALSE
    OBVIOUS
  <1>1. PICK x \in T : \A y \in T : y >= x
    <2>1. T \subseteq Nat /\ T # {}
      OBVIOUS
    <2> HIDE DEF T
    <2> QED
      BY <2>1, LeastElement
  <1>2. x # 0
    <2>1. [k \in 0 .. 0 |-> 1] \in PowersTo(b, 0)
      BY DEF PowersTo
    <2> QED
      BY <1>1, <2>1
  <1>3. x - 1 \in Nat /\ x - 1 \notin T
    BY <1>1, <1>2
  <1>4. PICK g : g \in PowersTo(b, x - 1)
    BY <1>3
  <1> DEFINE h == [k \in 0 .. x |-> IF k = x THEN b * g[x - 1] ELSE g[k]]
  <1>5. /\ g \in [0 .. x - 1 -> Nat]
        /\ \A k \in 0 .. x - 1 : g[k] = IF k = 0 THEN 1 ELSE b * g[k - 1]
    BY <1>4 DEF PowersTo
  <1>6. b * g[x - 1] \in Nat
    BY <1>1, <1>2, <1>5
  <1>7. h \in [0 .. x -> Nat]
    BY <1>1, <1>2, <1>5, <1>6
  <1>8. ASSUME NEW k \in 0 .. x PROVE h[k] = IF k = 0 THEN 1 ELSE b * h[k - 1]
    BY <1>1, <1>2, <1>5
  <1>9. h \in PowersTo(b, x)
    BY <1>7, <1>8 DEF PowersTo
  <1> QED
    BY <1>1, <1>9

LEMMA PowExists ==
  ASSUME NEW b \in Nat
  PROVE  \E f : f = [k \in Nat |-> IF k = 0 THEN 1 ELSE b * f[k - 1]]
  <1> DEFINE G(n) == CHOOSE g : g \in PowersTo(b, n)
             f == [n \in Nat |-> G(n)[n]]
  <1>1. ASSUME NEW n \in Nat PROVE G(n) \in PowersTo(b, n)
    <2>1. PowersTo(b, n) # {}
      BY PowersToExist
    <2> QED
      BY <2>1
  <1> HIDE DEF G
  <1>2. f \in [Nat -> Nat]
    <2>1. ASSUME NEW n \in Nat PROVE G(n)[n] \in Nat
      BY <1>1 DEF PowersTo
    <2> QED
      BY <2>1
  <1>3. ASSUME NEW n \in Nat PROVE f[n] = IF n = 0 THEN 1 ELSE b * f[n - 1]
    <2>1. f[n] = IF n = 0 THEN 1 ELSE b * G(n)[n - 1]
      BY <1>1 DEF PowersTo
    <2>2. CASE n # 0
      <3>1. n - 1 \in Nat /\ n - 1 <= n /\ n - 1 \in 0 .. n - 1
        BY <2>2
      <3>2. G(n - 1)[n - 1] = G(n)[n - 1]
        BY <1>1, <3>1, PowersAgree
      <3> QED
        BY <2>1, <2>2, <3>1, <3>2
    <2> QED
      BY <2>1, <2>2
  <1> HIDE DEF f
  <1>4. f = [k \in Nat |-> IF k = 0 THEN 1 ELSE b * f[k - 1]]
    BY <1>2, <1>3
  <1> QED
    BY <1>4

LEMMA PowType ==
  ASSUME NEW b \in Nat, NEW f,
         f = [k \in Nat |-> IF k = 0 THEN 1 ELSE b * f[k - 1]]
  PROVE  f \in [Nat -> Nat]
  <1> DEFINE T == {k \in Nat : f[k] \notin Nat}
  <1>1. ASSUME T # {} PROVE FALSE
    <2>1. PICK x \in T : \A y \in T : y >= x
      <3>1. T \subseteq Nat
        OBVIOUS
      <3> HIDE DEF T
      <3> QED
        BY <1>1, <3>1, LeastElement
    <2>2. x # 0
      BY <2>1
    <2>3. x - 1 \in Nat /\ x - 1 \notin T
      BY <2>1, <2>2
    <2>4. f[x - 1] \in Nat /\ f[x] = b * f[x - 1]
      BY <2>1, <2>2, <2>3
    <2> QED
      BY <2>1, <2>4
  <1> QED
    BY <1>1

LEMMA PowRecursion ==
  /\ Pow10 \in [Nat -> Nat] /\ Pow16 \in [Nat -> Nat]
  /\ Pow10[0] = 1 /\ Pow16[0] = 1
  /\ \A k \in Nat : Pow10[k + 1] = 10 * Pow10[k] /\ Pow16[k + 1] = 16 * Pow16[k]
  <1>1. Pow10 = [k \in Nat |-> IF k = 0 THEN 1 ELSE 10 * Pow10[k - 1]]
    <2>1. \E f : f = [k \in Nat |-> IF k = 0 THEN 1 ELSE 10 * f[k - 1]]
      BY PowExists
    <2> QED
      BY <2>1, Zenon DEF Pow10
  <1>2. Pow16 = [k \in Nat |-> IF k = 0 THEN 1 ELSE 16 * Pow16[k - 1]]
    <2>1. \E f : f = [k \in Nat |-> IF k = 0 THEN 1 ELSE 16 * f[k - 1]]
      BY PowExists
    <2> QED
      BY <2>1, Zenon DEF Pow16
  <1>3. Pow10 \in [Nat -> Nat] /\ Pow16 \in [Nat -> Nat]
    BY <1>1, <1>2, PowType
  <1>4. ASSUME NEW k \in Nat
        PROVE  Pow10[k + 1] = 10 * Pow10[k] /\ Pow16[k + 1] = 16 * Pow16[k]
    <2>1. k + 1 \in Nat /\ k + 1 # 0 /\ (k + 1) - 1 = k
      OBVIOUS
    <2> QED
      BY <1>1, <1>2, <2>1
  <1> QED
    BY <1>1, <1>2, <1>3, <1>4

LEMMA PowProperties ==
  ASSUME NEW base \in {10, 16}
  PROVE  /\ Pow(base) \in [Nat -> Nat] /\ Pow(base)[0] = 1
         /\ \A k \in Nat : Pow(base)[k + 1] = base * Pow(base)[k]
         /\ \A k \in Nat : k < Pow(base)[k]
  <1>1. /\ Pow(base) \in [Nat -> Nat] /\ Pow(base)[0] = 1
        /\ \A k \in Nat : Pow(base)[k + 1] = base * Pow(base)[k]
    <2>1. CASE base = 10
      BY <2>1, PowRecursion DEF Pow
    <2>2. CASE base = 16
      BY <2>2, PowRecursion DEF Pow
    <2> QED
      BY <2>1, <2>2
  <1> DEFINE f == Pow(base)
             T == {k \in Nat : ~ (k < f[k])}
  <1> HIDE DEF f
  <1>2. ASSUME T # {} PROVE FALSE
    <2>1. PICK x \in T : \A y \in T : y >= x
      <3>1. T \subseteq Nat
        OBVIOUS
      <3> HIDE DEF T
      <3> QED
        BY <1>2, <3>1, LeastElement
    <2>2. f \in [Nat -> Nat] /\ f[0] = 1
      BY <1>1 DEF f
    <2>3. x # 0
      BY <2>1, <2>2
    <2>4. x - 1 \in Nat /\ x - 1 \notin T
      BY <2>1, <2>3
    <2>5. f[x] = base * f[x - 1]
      <3>1. f[(x - 1) + 1] = base * f[x - 1]
        BY <1>1, <2>4 DEF f
      <3> QED
        BY <2>1, <3>1
    <2>6. x - 1 < f[x - 1] /\ f[x - 1] \in Nat
      BY <2>2, <2>4
    <2> QED
      BY <2>1, <2>3, <2>5, <2>6
  <1> QED
    BY <1>1, <1>2 DEF f

-----------------------------------------------------------------------------
(* Digits.                                                                 *)

LEMMA DivIs ==
  ASSUME NEW d \in Nat \ {0}, NEW q \in Nat, NEW r \in 0 .. d - 1
  PROVE  (q * d + r) \div d = q
  OBVIOUS

(* Dividing once more takes the next digit away.                           *)
LEMMA NextQuotient ==
  ASSUME NEW base \in {10, 16}, NEW A \in Nat, NEW P \in Nat \ {0}
  PROVE  /\ (A \div P) \div base = A \div (base * P)
         /\ A \div P \in Nat /\ (A \div P) \div base \in Nat
         /\ (A \div P = 0) <=> A < P
  <1> DEFINE q == A \div P
             r == A % P
             s == q \div base
             t == q % base
  <1>1. q \in Nat /\ r \in 0 .. P - 1 /\ A = q * P + r
    OBVIOUS
  <1> HIDE DEF q, r
  <1>2. s \in Nat /\ t \in 0 .. base - 1 /\ q = s * base + t
    BY <1>1
  <1> HIDE DEF s, t
  <1>3. t * P + r \in 0 .. base * P - 1 /\ base * P \in Nat \ {0}
    <2>1. t * P \in 0 .. (base - 1) * P
      BY <1>2
    <2> QED
      BY <1>1, <2>1
  <1>4. A = s * (base * P) + (t * P + r)
    <2>1. q * P = (s * base + t) * P
      BY <1>2
    <2>2. (s * base + t) * P = s * (base * P) + t * P
      BY <1>2
    <2> DEFINE X == q * P
               Y == t * P
               Z == s * (base * P)
    <2>3. X \in Int /\ Y \in Int /\ Z \in Int /\ r \in Int
      BY <1>1, <1>2
    <2>4. A = X + r /\ X = Z + Y
      BY <1>1, <2>1, <2>2
    <2> HIDE DEF X, Y, Z
    <2>5. A = Z + (Y + r)
      BY <2>3, <2>4
    <2> QED
      BY <2>5 DEF Y, Z
  <1>5. A \div (base * P) = s
    <2> DEFINE d == base * P
               e == t * P + r
    <2> HIDE DEF d, e
    <2>1. d \in Nat \ {0} /\ e \in 0 .. d - 1 /\ A = s * d + e
      BY <1>3, <1>4 DEF d, e
    <2>2. (s * d + e) \div d = s
      BY <1>2, <2>1, DivIs
    <2> QED
      BY <2>1, <2>2 DEF d
  <1>6. (q = 0) <=> A < P
    <2>1. CASE q = 0
      BY <1>1, <2>1
    <2>2. CASE q # 0
      <3>1. q * P >= P
        BY <1>1, <2>2
      <3> QED
        BY <1>1, <2>2, <3>1
    <2> QED
      BY <2>1, <2>2
  <1> QED
    BY <1>1, <1>2, <1>5, <1>6 DEF q, s

LEMMA HexDigitsAre ==
  /\ HexDigits[1] = "0" /\ HexDigits[2] = "1" /\ HexDigits[3] = "2"
  /\ HexDigits[4] = "3" /\ HexDigits[5] = "4" /\ HexDigits[6] = "5"
  /\ HexDigits[7] = "6" /\ HexDigits[8] = "7" /\ HexDigits[9] = "8"
  /\ HexDigits[10] = "9" /\ HexDigits[11] = "a" /\ HexDigits[12] = "b"
  /\ HexDigits[13] = "c" /\ HexDigits[14] = "d" /\ HexDigits[15] = "e"
  /\ HexDigits[16] = "f"
  BY DEF HexDigits

(* The digits of a width are told apart, from each other and from the      *)
(* other characters behind a '%'.                                          *)
LEMMA WidthDigits ==
  /\ \A d \in 1 .. 9, e \in 1 .. 9 : HexDigits[d + 1] = HexDigits[e + 1] => d = e
  /\ \A d \in 1 .. 9 : HexDigits[d + 1] \notin {"x", "0", "%"}
  <1>1. ASSUME NEW d \in 1 .. 9
        PROVE  \/ d = 1 \/ d = 2 \/ d = 3 \/ d = 4 \/ d = 5
               \/ d = 6 \/ d = 7 \/ d = 8 \/ d = 9
    OBVIOUS
  <1> DEFINE H(d) == HexDigits[d + 1]
  <1>2. /\ H(1) = "1" /\ H(2) = "2" /\ H(3) = "3" /\ H(4) = "4" /\ H(5) = "5"
        /\ H(6) = "6" /\ H(7) = "7" /\ H(8) = "8" /\ H(9) = "9"
    BY HexDigitsAre
  <1> HIDE DEF H
  <1>3. ASSUME NEW d \in 1 .. 9 PROVE H(d) \notin {"x", "0", "%"}
    BY <1>1, <1>2
  <1>4. ASSUME NEW d \in 1 .. 9, NEW e \in 1 .. 9, H(d) = H(e) PROVE d = e
    BY <1>1, <1>2, <1>4
  <1> QED
    BY <1>3, <1>4 DEF H

LEMMA DigitType ==
  \A x \in Nat, base \in {10, 16} : HexDigits[(x % base) + 1] \in Chars
  <1>1. \A x \in Nat, base \in {10, 16} : (x % base) + 1 \in 1 .. 16
    OBVIOUS
  <1> QED
    BY <1>1, CharsAssumption

(* As many digits as were needed, and not fewer than least: the numeral.   *)
LEMMA LengthIs ==
  ASSUME NEW base \in {10, 16}, NEW A \in Nat, NEW least \in Nat \ {0}, NEW n \in Nat,
         n >= least, A < Pow(base)[n],
         \A j \in 1 .. n - 1 : j < least \/ A >= Pow(base)[j]
  PROVE  NumeralLength(A, base, least) = n
  <1> DEFINE Fits(k) == /\ A < Pow(base)[k] /\ k >= least
                        /\ \A j \in 1 .. k - 1 : j < least \/ A >= Pow(base)[j]
  <1>1. Fits(n)
    OBVIOUS
  <1>2. n \in 1 .. A + least + 1
    <2>1. CASE n = 1
      BY <2>1
    <2>2. CASE n > 1
      <3>1. n - 1 \in 1 .. n - 1 /\ n - 1 \in Nat
        BY <2>2
      <3>2. n - 1 < Pow(base)[n - 1] /\ Pow(base)[n - 1] \in Nat
        BY <3>1, PowProperties
      <3>3. n - 1 < least \/ A >= Pow(base)[n - 1]
        BY <3>1
      <3> QED
        BY <2>2, <3>2, <3>3
    <2> QED
      BY <2>1, <2>2
  <1>3. ASSUME NEW k \in 1 .. A + least + 1, Fits(k) PROVE k = n
    <2>1. Pow(base)[k] \in Nat /\ Pow(base)[n] \in Nat
      <3>1. Pow(base) \in [Nat -> Nat]
        BY PowProperties
      <3>2. k \in Nat /\ n \in Nat
        OBVIOUS
      <3> HIDE DEF Fits
      <3> QED
        BY <3>1, <3>2
    <2>2. ASSUME k < n PROVE FALSE
      <3>1. k \in 1 .. n - 1
        BY <2>2
      <3>2. k < least \/ A >= Pow(base)[k]
        BY <3>1
      <3> QED
        BY <1>3, <2>1, <3>2
    <2>3. ASSUME n < k PROVE FALSE
      <3>1. n \in 1 .. k - 1
        BY <1>2, <2>3
      <3>2. n < least \/ A >= Pow(base)[n]
        BY <1>3, <3>1
      <3> QED
        BY <2>1, <3>2
    <2> QED
      BY <2>2, <2>3
  <1>4. NumeralLength(A, base, least) = CHOOSE k \in 1 .. A + least + 1 : Fits(k)
    BY DEF NumeralLength
  <1> HIDE DEF Fits
  <1> QED
    BY <1>1, <1>2, <1>3, <1>4

-----------------------------------------------------------------------------
(* The inductive invariant.                                                *)

TypeOK ==
  /\ call \in Calls \cup {NoCall}
  /\ pc \in {"out", "loop", "width", "switch", "udec", "hex"}
  /\ p \in Nat /\ width \in 0 .. HexTmp /\ from \in Nat
  /\ v \in 0 .. 2 * IntMin - 1 /\ tmp \in Seq(Chars)
  /\ writes \in Seq(Seq(Chars))
  /\ asked \in Seq(Chars) /\ stored \in Seq(Chars)
  /\ room \in 0 .. Capacity /\ drained \in BOOLEAN

OutInv ==
  pc = "out" => p = 0 /\ writes = <<>> /\ asked = <<>> /\ stored = <<>>

(* The loop stands at an item of the format, or inside one.                *)
FormatInv ==
  /\ pc # "out" => call \in Calls
  /\ pc \in {"loop", "udec", "hex"} => ItemsFrom(call.fmt, p)
  /\ pc \in {"width", "switch"} =>
       /\ ItemsFrom(call.fmt, from) /\ from <= Len(call.fmt)
       /\ call.fmt[from] = "%" /\ writes = <<>>
  /\ pc = "width" =>
       /\ At(from + 1) = "0"
       /\ \/ p = from + 2 /\ width = 0
          \/ p = from + 3 /\ width = PaddedTo(call.fmt, from)
  /\ pc = "switch" => p = from + 1 /\ At(p) # "0" /\ width = 0

(* Only %s passes on several characters at once, and nothing else then.    *)
WritesInv == Len(writes) > 1 => \A k \in 1 .. Len(writes) : Len(writes[k]) = 1

(* tmp holds the digits of the number by their positions, and v is what    *)
(* the rest of them stand for; all but the last digit were needed.         *)
NumberInv ==
  pc \in {"udec", "hex"} =>
    LET n == Len(tmp)
        A == Argument
    IN  /\ v = A \div Pow(Base)[n]
        /\ \A k \in 1 .. n : tmp[k] = Digit(A, Base, k - 1)
        /\ \A j \in 1 .. n - 1 : j < Least \/ A >= Pow(Base)[j]
        /\ n > 0 \/ A > 0

TrimInv ==
  ~drained =>
    /\ Len(stored) <= Len(asked)
    /\ \A k \in 1 .. Len(stored) : stored[k] = asked[k]
    /\ Len(stored) < Len(asked) => room = 0

IInv == TypeOK /\ OutInv /\ FormatInv /\ WritesInv /\ NumberInv /\ TrimInv
-----------------------------------------------------------------------------
(* The items of a format.                                                  *)

LEMMA ItemsFromStep ==
  ASSUME NEW f \in Seq(Chars), NEW k \in Nat, ItemsFrom(f, k)
  PROVE  /\ k \in 1 .. Len(f) + 1
         /\ k <= Len(f) => IsItem(f, k) /\ ItemsFrom(f, k + ItemLength(f, k))
  <1>1. PICK starts \in SUBSET (1 .. Len(f) + 1) :
          /\ k \in starts
          /\ \A s \in starts :
               s <= Len(f) => IsItem(f, s) /\ s + ItemLength(f, s) \in starts
    BY DEF ItemsFrom
  <1>2. ASSUME k <= Len(f) PROVE IsItem(f, k) /\ ItemsFrom(f, k + ItemLength(f, k))
    <2>1. IsItem(f, k) /\ k + ItemLength(f, k) \in starts
      BY <1>1, <1>2
    <2> QED
      BY <1>1, <2>1 DEF ItemsFrom
  <1> QED
    BY <1>1, <1>2

LEMMA LiteralItem ==
  ASSUME NEW f \in Seq(Chars), NEW k \in 1 .. Len(f), f[k] # "%"
  PROVE  IsLiteral(f, k) /\ ItemLength(f, k) = 1
  BY DEF IsLiteral, ItemLength

LEMMA PaddedItem ==
  ASSUME NEW f \in Seq(Chars), NEW k \in 1 .. Len(f), IsItem(f, k),
         f[k] = "%", k + 1 <= Len(f), f[k + 1] = "0"
  PROVE  /\ IsPadded(f, k) /\ ItemLength(f, k) = 4 /\ ~IsLiteral(f, k)
         /\ k + 3 <= Len(f) /\ f[k + 3] = "x"
         /\ PaddedTo(f, k) \in 1 .. 9 /\ PaddedTo(f, k) <= HexTmp
         /\ f[k + 2] = HexDigits[PaddedTo(f, k) + 1]
  <1>1. IsPadded(f, k) /\ ItemLength(f, k) = 4 /\ ~IsLiteral(f, k)
    BY DEF IsItem, IsLiteral, IsPlain, IsUnlisted, Listed, ItemLength
  <1>2. k + 3 <= Len(f) /\ f[k + 3] = "x"
    BY <1>1 DEF IsPadded
  <1>3. PICK w \in (1 .. 9) \cap (1 .. HexTmp) : f[k + 2] = HexDigits[w + 1]
    BY <1>1 DEF IsPadded
  <1>4. w \in 1 .. 9 /\ w <= HexTmp
    BY SizesAssumption
  <1>5. ASSUME NEW e \in 1 .. 9, f[k + 2] = HexDigits[e + 1] PROVE e = w
    BY <1>3, <1>4, <1>5, WidthDigits
  <1>6. PaddedTo(f, k) = w
    BY <1>3, <1>4, <1>5 DEF PaddedTo
  <1> QED
    BY <1>1, <1>2, <1>3, <1>4, <1>6

LEMMA OtherItem ==
  ASSUME NEW f \in Seq(Chars), NEW k \in 1 .. Len(f), IsItem(f, k),
         f[k] = "%", k + 1 <= Len(f) => f[k + 1] # "0"
  PROVE  /\ k + 1 <= Len(f) /\ ItemLength(f, k) = 2
         /\ ~IsLiteral(f, k) /\ ~IsPadded(f, k)
         /\ IsUnlisted(f, k) <=> f[k + 1] \notin Listed
         /\ IsPlain(f, k) <=> f[k + 1] \in Listed
  <1>1. ~IsLiteral(f, k)
    BY DEF IsLiteral
  <1>2. k + 1 <= Len(f)
    BY <1>1 DEF IsItem, IsPlain, IsPadded, IsUnlisted
  <1>3. ~IsPadded(f, k)
    BY <1>2 DEF IsPadded
  <1> QED
    BY <1>1, <1>2, <1>3 DEF ItemLength, IsUnlisted, IsPlain

LEMMA CallFacts ==
  ASSUME NEW c \in Calls
  PROVE  /\ c.fmt \in Seq(Chars) /\ c.str \in Seq(Chars) /\ c.chr \in Chars
         /\ c.num \in 0 .. 2 * IntMin - 1 /\ ItemsFrom(c.fmt, 1)
         /\ \A k \in 1 .. Len(c.fmt) : c.fmt[k] \in Chars /\ c.fmt[k] # NUL
  <1>1. /\ c.fmt \in Seq(Chars) /\ c.str \in Seq(Chars) /\ c.chr \in Chars
        /\ c.num \in 0 .. 2 * IntMin - 1 /\ ItemsFrom(c.fmt, 1)
    BY CallsAssumption
  <1>2. \A k \in 1 .. Len(c.fmt) : c.fmt[k] \in Chars
    BY <1>1, ElementOfSeq
  <1> QED
    BY <1>1, <1>2, CharsAssumption

-----------------------------------------------------------------------------
(* The arguments of rtt_write.                                             *)

LEMMA OneWrite ==
  ASSUME NEW d \in Seq(Chars)
  PROVE  <<d>> \in Seq(Seq(Chars)) /\ Len(<<d>>) = 1 /\ <<d>>[1] = d
  OBVIOUS

LEMMA CharWrite ==
  ASSUME NEW c \in Chars
  PROVE  /\ emit_char(c) \in Seq(Seq(Chars)) /\ Len(emit_char(c)) = 1
         /\ emit_char(c)[1] = <<c>> /\ Len(<<c>>) = 1 /\ <<c>>[1] = c
         /\ <<c>> \in Seq(Chars)
  BY DEF emit_char

LEMMA TwoWrites ==
  ASSUME NEW c \in Chars, NEW d \in Chars
  PROVE  LET ws == emit_char(c) \o emit_char(d)
         IN  /\ ws \in Seq(Seq(Chars)) /\ Len(ws) = 2
             /\ ws[1] = <<c>> /\ ws[2] = <<d>>
             /\ \A k \in 1 .. Len(ws) : Len(ws[k]) = 1
  <1> DEFINE ws == emit_char(c) \o emit_char(d)
  <1>1. ws \in Seq(Seq(Chars)) /\ Len(ws) = 2 /\ ws[1] = <<c>> /\ ws[2] = <<d>>
    BY CharWrite
  <1>2. Len(<<c>>) = 1 /\ Len(<<d>>) = 1
    OBVIOUS
  <1> HIDE DEF ws
  <1>3. \A k \in 1 .. Len(ws) : k = 1 \/ k = 2
    BY <1>1
  <1>4. \A k \in 1 .. Len(ws) : Len(ws[k]) = 1
    BY <1>1, <1>2, <1>3
  <1> QED
    BY <1>1, <1>4 DEF ws

LEMMA EmptyWrites ==
  /\ <<>> \in Seq(Seq(Chars)) /\ Len(<<>>) = 0 /\ <<>> \in Seq(Chars)
  /\ \A ws \in Seq(Seq(Chars)) : <<>> \o ws = ws
  OBVIOUS

-----------------------------------------------------------------------------
(* The steps of the loop preserve the invariant.                           *)

LEMMA InitInv == Init => IInv
  <1> SUFFICES ASSUME Init PROVE IInv
    OBVIOUS
  <1>1. TypeOK
    <2>1. 0 \in 0 .. HexTmp /\ 0 \in 0 .. 2 * IntMin - 1 /\ Capacity \in 0 .. Capacity
      BY SizesAssumption
    <2> QED
      BY <2>1, EmptyWrites DEF Init, TypeOK
  <1>2. OutInv /\ FormatInv /\ WritesInv /\ NumberInv /\ TrimInv
    BY EmptyWrites DEF Init, OutInv, FormatInv, WritesInv, NumberInv, TrimInv
  <1> QED
    BY <1>1, <1>2 DEF IInv

LEMMA CallKeeps ==
  ASSUME IInv, NEW c \in Calls, rtt_printf(c)
  PROVE  IInv'
  <1>1. /\ pc = "out" /\ call' = c /\ pc' = "loop" /\ p' = 1
        /\ UNCHANGED <<width, v, tmp, writes, from, asked, stored, room, drained>>
    BY DEF rtt_printf, number, ring
  <1>2. TypeOK'
    BY <1>1 DEF IInv, TypeOK
  <1>3. OutInv' /\ NumberInv' /\ TrimInv' /\ WritesInv'
    BY <1>1 DEF IInv, OutInv, NumberInv, TrimInv, WritesInv
  <1>4. FormatInv'
    BY <1>1, CallFacts DEF FormatInv
  <1> QED
    BY <1>2, <1>3, <1>4 DEF IInv

(* In the loop: what the position stands at.                               *)
LEMMA LoopFacts ==
  ASSUME IInv, pc # "out"
  PROVE  /\ call \in Calls /\ call.fmt \in Seq(Chars) /\ Len(call.fmt) \in Nat
         /\ \A k \in Nat \ {0} : (At(k) # NUL <=> k \in 1 .. Len(call.fmt))
         /\ \A k \in 1 .. Len(call.fmt) : At(k) = call.fmt[k] /\ At(k) \in Chars
         /\ NUL # "%" /\ NUL # "0" /\ NUL # "x"
  <1>1. call \in Calls
    BY DEF IInv, FormatInv
  <1>2. call.fmt \in Seq(Chars) /\ Len(call.fmt) \in Nat
    BY <1>1, CallFacts
  <1>3. \A k \in 1 .. Len(call.fmt) :
          At(k) = call.fmt[k] /\ At(k) \in Chars /\ At(k) # NUL
    BY <1>1, <1>2, CallFacts DEF At
  <1>4. \A k \in Nat \ {0} : k \notin 1 .. Len(call.fmt) => At(k) = NUL
    BY <1>2 DEF At
  <1>5. NUL # "%" /\ NUL # "0" /\ NUL # "x"
    BY DEF NUL
  <1> QED
    BY <1>1, <1>2, <1>3, <1>4, <1>5

LEMMA LiteralKeeps ==
  ASSUME IInv, Literal
  PROVE  /\ IInv'
         /\ p \in 1 .. Len(call.fmt) /\ IsItem(call.fmt, p) /\ IsLiteral(call.fmt, p)
         /\ ItemLength(call.fmt, p) = 1 /\ call.fmt[p] \in Chars
         /\ writes' = emit_char(call.fmt[p])
  <1>1. /\ pc = "loop" /\ pc' = pc /\ writes' = emit_char(At(p)) /\ p' = p + 1
        /\ At(p) # "%" /\ At(p) # NUL
        /\ UNCHANGED <<call, width, v, tmp, from, asked, stored, room, drained>>
    BY DEF Literal, number, ring
  <1>2. ItemsFrom(call.fmt, p) /\ p \in Nat
    BY <1>1 DEF IInv, FormatInv, TypeOK
  <1>3. p \in 1 .. Len(call.fmt) /\ At(p) = call.fmt[p] /\ At(p) \in Chars
    <2>1. p \in 1 .. Len(call.fmt) + 1
      BY <1>1, <1>2, LoopFacts, ItemsFromStep
    <2> QED
      BY <1>1, <2>1, LoopFacts
  <1>4. /\ IsItem(call.fmt, p) /\ IsLiteral(call.fmt, p)
        /\ ItemLength(call.fmt, p) = 1 /\ ItemsFrom(call.fmt, p + 1)
    BY <1>1, <1>2, <1>3, LoopFacts, ItemsFromStep, LiteralItem
  <1>5. TypeOK'
    BY <1>1, <1>3, CharWrite DEF IInv, TypeOK
  <1>6. OutInv' /\ NumberInv' /\ TrimInv' /\ WritesInv'
    BY <1>1, <1>3, CharWrite DEF IInv, OutInv, NumberInv, TrimInv, WritesInv
  <1>7. FormatInv'
    BY <1>1, <1>4 DEF IInv, FormatInv
  <1> QED
    BY <1>1, <1>3, <1>4, <1>5, <1>6, <1>7 DEF IInv

LEMMA PercentKeeps ==
  ASSUME IInv, Percent
  PROVE  IInv'
  <1>1. /\ pc = "loop" /\ writes = <<>> /\ At(p) = "%" /\ from' = p /\ width' = 0
        /\ \/ At(p + 1) = "0" /\ pc' = "width" /\ p' = p + 2
           \/ At(p + 1) # "0" /\ pc' = "switch" /\ p' = p + 1
        /\ UNCHANGED <<call, v, tmp, writes, asked, stored, room, drained>>
    BY DEF Percent, number, ring
  <1>2. ItemsFrom(call.fmt, p) /\ p \in Nat
    BY <1>1 DEF IInv, FormatInv, TypeOK
  <1>3. p \in 1 .. Len(call.fmt) /\ call.fmt[p] = "%"
    <2>1. p \in 1 .. Len(call.fmt) + 1
      BY <1>1, <1>2, LoopFacts, ItemsFromStep
    <2> QED
      BY <1>1, <2>1, LoopFacts
  <1>4. TypeOK'
    BY <1>1, <1>2, SizesAssumption DEF IInv, TypeOK
  <1>5. OutInv' /\ NumberInv' /\ TrimInv' /\ WritesInv'
    BY <1>1 DEF IInv, OutInv, NumberInv, TrimInv, WritesInv
  <1>6. FormatInv'
    BY <1>1, <1>2, <1>3 DEF IInv, FormatInv, At
  <1> QED
    BY <1>4, <1>5, <1>6 DEF IInv

(* Inside an item of the format, after its '%'.                            *)
LEMMA WidthFacts ==
  ASSUME IInv, pc = "width"
  PROVE  /\ from \in 1 .. Len(call.fmt) /\ IsItem(call.fmt, from)
         /\ IsPadded(call.fmt, from) /\ ~IsLiteral(call.fmt, from)
         /\ ItemsFrom(call.fmt, from + 4) /\ ItemLength(call.fmt, from) = 4
         /\ At(from + 3) = "x"
         /\ PaddedTo(call.fmt, from) \in 1 .. 9 /\ PaddedTo(call.fmt, from) <= HexTmp
         /\ At(from + 2) = HexDigits[PaddedTo(call.fmt, from) + 1]
  <1>1. /\ ItemsFrom(call.fmt, from) /\ from <= Len(call.fmt) /\ from \in Nat
        /\ call.fmt[from] = "%" /\ At(from + 1) = "0"
    BY DEF IInv, FormatInv, TypeOK
  <1>2. from \in 1 .. Len(call.fmt) /\ IsItem(call.fmt, from)
        /\ ItemsFrom(call.fmt, from + ItemLength(call.fmt, from))
    BY <1>1, LoopFacts, ItemsFromStep
  <1>3. from + 1 <= Len(call.fmt) /\ call.fmt[from + 1] = "0"
    BY <1>1, <1>2, LoopFacts
  <1>4. /\ IsPadded(call.fmt, from) /\ ItemLength(call.fmt, from) = 4
        /\ ~IsLiteral(call.fmt, from)
        /\ from + 3 <= Len(call.fmt) /\ call.fmt[from + 3] = "x"
        /\ PaddedTo(call.fmt, from) \in 1 .. 9 /\ PaddedTo(call.fmt, from) <= HexTmp
        /\ call.fmt[from + 2] = HexDigits[PaddedTo(call.fmt, from) + 1]
    BY <1>1, <1>2, <1>3, LoopFacts, PaddedItem
  <1>5. At(from + 3) = call.fmt[from + 3] /\ At(from + 2) = call.fmt[from + 2]
    BY <1>2, <1>4, LoopFacts
  <1> QED
    BY <1>2, <1>4, <1>5

LEMMA SwitchFacts ==
  ASSUME IInv, pc = "switch"
  PROVE  /\ from \in 1 .. Len(call.fmt) /\ IsItem(call.fmt, from)
         /\ p = from + 1 /\ p \in 1 .. Len(call.fmt)
         /\ At(p) = call.fmt[from + 1] /\ At(p) \in Chars /\ width = 0
         /\ ItemsFrom(call.fmt, from + 2) /\ ItemLength(call.fmt, from) = 2
         /\ ~IsLiteral(call.fmt, from) /\ ~IsPadded(call.fmt, from)
         /\ IsUnlisted(call.fmt, from) <=> At(p) \notin Listed
         /\ IsPlain(call.fmt, from) <=> At(p) \in Listed
  <1>1. /\ ItemsFrom(call.fmt, from) /\ from <= Len(call.fmt) /\ from \in Nat
        /\ call.fmt[from] = "%" /\ p = from + 1 /\ At(p) # "0" /\ width = 0
    BY DEF IInv, FormatInv, TypeOK
  <1>2. from \in 1 .. Len(call.fmt) /\ IsItem(call.fmt, from)
        /\ ItemsFrom(call.fmt, from + ItemLength(call.fmt, from))
    BY <1>1, LoopFacts, ItemsFromStep
  <1>3. from + 1 <= Len(call.fmt) => call.fmt[from + 1] # "0"
    BY <1>1, <1>2, LoopFacts
  <1>4. /\ from + 1 <= Len(call.fmt) /\ ItemLength(call.fmt, from) = 2
        /\ ~IsLiteral(call.fmt, from) /\ ~IsPadded(call.fmt, from)
        /\ IsUnlisted(call.fmt, from) <=> call.fmt[from + 1] \notin Listed
        /\ IsPlain(call.fmt, from) <=> call.fmt[from + 1] \in Listed
    BY <1>1, <1>2, <1>3, LoopFacts, OtherItem
  <1>5. At(p) = call.fmt[from + 1] /\ At(p) \in Chars
    BY <1>1, <1>2, <1>4, LoopFacts
  <1> QED
    BY <1>1, <1>2, <1>4, <1>5

LEMMA WidthDigitKeeps ==
  ASSUME IInv, WidthDigit
  PROVE  IInv'
  <1>1. /\ pc = "width" /\ p' = p + 1
        /\ UNCHANGED <<call, pc, v, tmp, writes, from, asked, stored, room, drained>>
    BY DEF WidthDigit, number, ring
  <1>2. PICK d \in 1 .. 9 : At(p) = HexDigits[d + 1] /\ width' = width * 10 + d
    BY DEF WidthDigit
  <1> DEFINE w == PaddedTo(call.fmt, from)
  <1>3. p = from + 2 /\ width = 0
    <2>1. \/ p = from + 2 /\ width = 0
          \/ p = from + 3 /\ width = w
      BY <1>1 DEF IInv, FormatInv
    <2>2. p # from + 3
      BY <1>1, <1>2, WidthFacts, WidthDigits
    <2> QED
      BY <2>1, <2>2
  <1>4. d = w
    BY <1>1, <1>2, <1>3, WidthFacts, WidthDigits
  <1>5. width' = w /\ width' \in 0 .. HexTmp /\ p' = from + 3 /\ from \in Nat
    <2>1. w \in 1 .. 9 /\ w <= HexTmp /\ from \in Nat
      BY <1>1, WidthFacts
    <2> HIDE DEF w
    <2>2. width' = w
      BY <1>2, <1>3, <1>4, <2>1
    <2>3. p' = from + 3
      BY <1>1, <1>3, <2>1
    <2> QED
      BY <2>1, <2>2, <2>3, SizesAssumption
  <1>6. TypeOK'
    BY <1>1, <1>5 DEF IInv, TypeOK
  <1>7. OutInv' /\ NumberInv' /\ TrimInv' /\ WritesInv'
    BY <1>1 DEF IInv, OutInv, NumberInv, TrimInv, WritesInv
  <1>8. FormatInv'
    BY <1>1, <1>5 DEF IInv, FormatInv, At
  <1> QED
    BY <1>6, <1>7, <1>8 DEF IInv

(* Behind the '%', or behind the width: the item in progress, and the      *)
(* conversion character.                                                   *)
LEMMA ConversionPlace ==
  ASSUME IInv, NEW c, Switch(c)
  PROVE  /\ from \in 1 .. Len(call.fmt) /\ IsItem(call.fmt, from)
         /\ p \in Nat /\ p + 1 = from + ItemLength(call.fmt, from)
         /\ ItemsFrom(call.fmt, p + 1)
         /\ c \in Chars /\ At(p) = c /\ ~IsLiteral(call.fmt, from)
         /\ \/ /\ IsPadded(call.fmt, from) /\ c = "x"
               /\ width = PaddedTo(call.fmt, from) /\ width \in Nat \ {0}
            \/ /\ ~IsPadded(call.fmt, from) /\ width = 0 /\ call.fmt[from + 1] = c
               /\ IsPlain(call.fmt, from) <=> c \in Listed
               /\ IsUnlisted(call.fmt, from) <=> c \notin Listed
  <1>1. CASE pc = "switch"
    <2>1. At(p) = c
      BY DEF Switch
    <2> QED
      BY <1>1, <2>1, SwitchFacts
  <1>2. CASE pc = "width"
    <2>1. \A d \in 1 .. 9 : At(p) # HexDigits[d + 1]
      BY <1>2 DEF Switch
    <2>2. p = from + 3 /\ width = PaddedTo(call.fmt, from)
      <3>1. \/ p = from + 2
            \/ p = from + 3 /\ width = PaddedTo(call.fmt, from)
        BY <1>2 DEF IInv, FormatInv
      <3>2. p # from + 2
        BY <1>2, <2>1, WidthFacts
      <3> QED
        BY <3>1, <3>2
    <2>3. /\ from \in 1 .. Len(call.fmt) /\ IsItem(call.fmt, from)
          /\ IsPadded(call.fmt, from) /\ ~IsLiteral(call.fmt, from)
          /\ ItemsFrom(call.fmt, from + 4) /\ ItemLength(call.fmt, from) = 4
          /\ At(from + 3) = "x" /\ PaddedTo(call.fmt, from) \in 1 .. 9
      BY <1>2, WidthFacts
    <2>4. At(p) = c /\ c = "x" /\ c \in Chars
      <3>1. At(p) = c /\ c = "x"
        BY <2>2, <2>3 DEF Switch
      <3>2. At(p) # NUL /\ p \in Nat \ {0}
        BY <1>2, <2>2, <2>3, <3>1, LoopFacts
      <3>3. At(p) \in Chars
        BY <1>2, <3>2, LoopFacts
      <3> QED
        BY <3>1, <3>3
    <2> QED
      BY <2>2, <2>3, <2>4
  <1> QED
    BY <1>1, <1>2 DEF Switch

Singles(ws) == Len(ws) > 1 => \A k \in 1 .. Len(ws) : Len(ws[k]) = 1

LEMMA EmitKeeps ==
  ASSUME IInv, NEW c, Switch(c), NEW ws \in Seq(Seq(Chars)), Emit(ws), Singles(ws)
  PROVE  IInv'
  <1>1. /\ pc # "out" /\ p' = p + 1 /\ pc' = "loop" /\ writes' = ws
        /\ UNCHANGED <<call, width, v, tmp, from, asked, stored, room, drained>>
    BY DEF Switch, Emit, number, ring
  <1>2. TypeOK'
    BY <1>1 DEF IInv, TypeOK
  <1>3. OutInv' /\ NumberInv' /\ TrimInv' /\ WritesInv'
    BY <1>1 DEF IInv, OutInv, NumberInv, TrimInv, WritesInv, Singles
  <1>4. FormatInv'
    <2>1. ItemsFrom(call.fmt, p + 1)
      BY ConversionPlace
    <2> QED
      BY <1>1, <2>1 DEF IInv, FormatInv
  <1> QED
    BY <1>2, <1>3, <1>4 DEF IInv

(* The start of a digit loop with the number n, and what it is entered     *)
(* with.                                                                   *)
Starts(n, before) ==
  /\ n \in 0 .. 2 * IntMin - 1
  /\ pc' = "hex" \/ (pc' = "udec" /\ n # 0)
  /\ v' = n /\ tmp' = IF n = 0 THEN <<"0">> ELSE <<>>
  /\ writes' = before /\ before \in {<<>>, emit_char("-")}
  /\ Argument' = n

LEMMA DashAndZero ==
  /\ "-" \in Chars /\ "0" \in Chars /\ "%" \in Chars
  BY CharsAssumption, HexDigitsAre

LEMMA StartsKeeps ==
  ASSUME IInv, NEW c, Switch(c), NEW n, NEW before, Starts(n, before)
  PROVE  IInv'
  <1>1. /\ pc # "out" /\ p' = p + 1 /\ pc' \in {"udec", "hex"} /\ v' = n
        /\ UNCHANGED <<call, width, from, asked, stored, room, drained>>
    BY DEF Switch, Starts, ring
  <1>2. writes' \in Seq(Seq(Chars)) /\ Len(writes') <= 1
    <2>1. CASE writes' = <<>>
      <3>1. writes' \in Seq(Seq(Chars))
        BY <2>1
      <3>2. Len(writes') = 0
        BY <2>1
      <3> QED
        BY <3>1, <3>2
    <2>2. CASE writes' = emit_char("-")
      <3>1. "-" \in Chars
        BY DashAndZero
      <3>2. emit_char("-") \in Seq(Seq(Chars)) /\ Len(emit_char("-")) = 1
        BY <3>1, CharWrite, Zenon
      <3>3. writes' \in Seq(Seq(Chars)) /\ Len(writes') = 1
        BY <2>2, <3>2, Zenon
      <3> QED
        BY <3>3
    <2> QED
      BY <2>1, <2>2 DEF Starts
  <1>3. tmp' \in Seq(Chars)
    BY DashAndZero DEF Starts
  <1>4. TypeOK'
    BY <1>1, <1>2, <1>3 DEF IInv, TypeOK, Starts
  <1>5. OutInv' /\ TrimInv' /\ WritesInv'
    BY <1>1, <1>2 DEF IInv, OutInv, TrimInv, WritesInv
  <1>6. FormatInv'
    <2>1. ItemsFrom(call.fmt, p + 1)
      BY ConversionPlace
    <2> QED
      BY <1>1, <2>1 DEF IInv, FormatInv
  <1>7. NumberInv'
    <2> DEFINE b == Base'
               P == Pow(b)
    <2>1. b \in {10, 16}
      BY DEF Base
    <2>2. P[0] = 1 /\ P[1] \in Nat \ {0}
      <3>1. /\ P \in [Nat -> Nat] /\ P[0] = 1
            /\ \A k \in Nat : k < P[k]
        BY <2>1, PowProperties
      <3> QED
        BY <3>1
    <2> HIDE DEF b, P
    <2>3. n \in Nat
      BY SizesAssumption DEF Starts
    <2>4. CASE n # 0
      <3>1. tmp' = <<>> /\ Argument' = n /\ v' = n /\ n > 0
        BY <2>3, <2>4 DEF Starts
      <3>2. n \div P[0] = n
        BY <2>2, <2>3
      <3> QED
        BY <3>1, <3>2 DEF NumberInv, b, P
    <2>5. CASE n = 0
      <3>1. tmp' = <<"0">> /\ Argument' = 0 /\ v' = 0
        BY <2>5 DEF Starts
      <3>2. 0 \div P[1] = 0
        BY <2>2
      <3>3. Digit(0, b, 0) = "0"
        <4>1. ((0 \div P[0]) % b) + 1 = 1
          BY <2>1, <2>2
        <4> QED
          BY <4>1, HexDigitsAre DEF Digit, P
      <3>4. \A k \in 1 .. Len(tmp') : k = 1 /\ tmp'[k] = "0" /\ k - 1 = 0
        BY <3>1
      <3>5. Len(tmp') = 1
        BY <3>1
      <3> QED
        BY <3>1, <3>2, <3>3, <3>4, <3>5 DEF NumberInv, b, P
    <2> QED
      BY <2>4, <2>5
  <1> QED
    BY <1>4, <1>5, <1>6, <1>7 DEF IInv

(* The text of the items, by what stands behind the '%'.                   *)
LEMMA TextOfItem ==
  ASSUME NEW c \in Calls, NEW k \in 1 .. Len(c.fmt), ~IsLiteral(c.fmt, k)
  PROVE  /\ IsPadded(c.fmt, k) =>
              Text(c, k) = Numeral(c.num, 16, PaddedTo(c.fmt, k))
         /\ ~IsPadded(c.fmt, k) /\ IsUnlisted(c.fmt, k) =>
              Text(c, k) = <<"%", c.fmt[k + 1]>>
         /\ ~IsPadded(c.fmt, k) /\ ~IsUnlisted(c.fmt, k) /\ IsPlain(c.fmt, k) =>
              /\ c.fmt[k + 1] = "s" => Text(c, k) = c.str
              /\ c.fmt[k + 1] = "c" => Text(c, k) = <<c.chr>>
              /\ c.fmt[k + 1] = "%" => Text(c, k) = <<"%">>
              /\ c.fmt[k + 1] = "u" => Text(c, k) = Numeral(c.num, 10, 1)
              /\ c.fmt[k + 1] = "d" => Text(c, k) = SignedNumeral(c.num)
              /\ c.fmt[k + 1] = "x" => Text(c, k) = Numeral(c.num, 16, 1)
  <1>0. /\ IsPadded(c.fmt, k) => ~IsUnlisted(c.fmt, k) /\ ~IsPlain(c.fmt, k)
        /\ IsUnlisted(c.fmt, k) => ~IsPlain(c.fmt, k)
    BY DEF IsPadded, IsUnlisted, IsPlain, Listed
  <1>1. IsPadded(c.fmt, k) => Text(c, k) = Numeral(c.num, 16, PaddedTo(c.fmt, k))
    BY <1>0 DEF Text
  <1>2. ~IsPadded(c.fmt, k) /\ IsUnlisted(c.fmt, k) => Text(c, k) = <<"%", c.fmt[k + 1]>>
    BY <1>0 DEF Text
  <1>3. ASSUME ~IsPadded(c.fmt, k), ~IsUnlisted(c.fmt, k), IsPlain(c.fmt, k)
        PROVE  /\ c.fmt[k + 1] = "s" => Text(c, k) = c.str
               /\ c.fmt[k + 1] = "c" => Text(c, k) = <<c.chr>>
               /\ c.fmt[k + 1] = "%" => Text(c, k) = <<"%">>
               /\ c.fmt[k + 1] = "u" => Text(c, k) = Numeral(c.num, 10, 1)
               /\ c.fmt[k + 1] = "d" => Text(c, k) = SignedNumeral(c.num)
               /\ c.fmt[k + 1] = "x" => Text(c, k) = Numeral(c.num, 16, 1)
    BY <1>3 DEF Text
  <1> QED
    BY <1>1, <1>2, <1>3

LEMMA NumeralType ==
  ASSUME NEW base \in {10, 16}, NEW A \in Nat, NEW least \in Nat \ {0}
  PROVE  Numeral(A, base, least) \in Seq(Chars)
  <1> DEFINE P == Pow(base)
             T == {k \in Nat : k >= least /\ A < P[k]}
             m == A + least + 1
  <1>1. P \in [Nat -> Nat] /\ \A k \in Nat : k < P[k]
    BY PowProperties
  <1> HIDE DEF P
  <1>2. m \in T
    BY <1>1
  <1>3. PICK x \in T : \A y \in T : y >= x
    <2>1. T \subseteq Nat /\ T # {}
      BY <1>2
    <2> HIDE DEF T
    <2> QED
      BY <2>1, LeastElement
  <1>4. NumeralLength(A, base, least) = x
    <2>1. x \in Nat /\ x >= least /\ A < P[x]
      BY <1>3
    <2>2. ASSUME NEW j \in 1 .. x - 1 PROVE j < least \/ A >= P[j]
      <3>1. j \in Nat /\ j \notin T
        BY <1>3, <2>1
      <3> QED
        BY <1>1, <3>1
    <2> QED
      BY <2>1, <2>2, LengthIs DEF P
  <1>5. ASSUME NEW j \in 1 .. x PROVE Digit(A, base, x - j) \in Chars
    <2>1. x - j \in Nat
      BY <1>3
    <2>2. P[x - j] \in Nat \ {0}
      BY <1>1, <2>1
    <2>3. A \div P[x - j] \in Nat
      BY <2>2
    <2> QED
      BY <2>3, DigitType DEF Digit, P
  <1>6. x \in Nat
    BY <1>3
  <1>7. Numeral(A, base, least) = [j \in 1 .. x |-> Digit(A, base, x - j)]
    BY <1>4 DEF Numeral
  <1> QED
    BY <1>5, <1>6, <1>7

LEMMA OneDigit ==
  ASSUME NEW base \in {10, 16}, NEW A \in Nat, A = 0, NEW least \in Nat, least = 1
  PROVE  Numeral(A, base, least) = <<"0">>
  <1>1. Pow(base)[0] = 1 /\ Pow(base)[least] \in Nat \ {0}
    <2>1. Pow(base) \in [Nat -> Nat] /\ Pow(base)[0] = 1 /\ \A k \in Nat : k < Pow(base)[k]
      BY PowProperties
    <2> QED
      BY <2>1
  <1>2. Numeral(A, base, least) = [j \in 1 .. least |-> Digit(A, base, least - j)]
    <2>1. /\ A < Pow(base)[least] /\ least >= least
          /\ \A j \in 1 .. least - 1 : j < least \/ A >= Pow(base)[j]
          /\ least \in Nat \ {0}
      BY <1>1
    <2>2. NumeralLength(A, base, least) = least
      BY <2>1, LengthIs
    <2> QED
      BY <2>2 DEF Numeral
  <1>3. Digit(A, base, 0) = "0"
    <2>1. ((A \div Pow(base)[0]) % base) + 1 = 1
      BY <1>1
    <2> QED
      BY <2>1, HexDigitsAre DEF Digit
  <1>4. \A j \in 1 .. least : Digit(A, base, least - j) = "0"
    <2>1. \A j \in 1 .. least : least - j = 0
      OBVIOUS
    <2> QED
      BY <1>3, <2>1
  <1>5. [j \in 1 .. 1 |-> "0"] = <<"0">>
    OBVIOUS
  <1> QED
    BY <1>2, <1>4, <1>5

LEMMA ZeroNumeral == Numeral(0, 10, 1) = <<"0">>
  <1>1. 10 \in {10, 16} /\ 0 \in Nat /\ 1 \in Nat
    OBVIOUS
  <1> QED
    BY <1>1, OneDigit, Zenon

(* How a conversion ends: with the calls of rtt_write that pass on the     *)
(* text of its item, or in a digit loop that is still to find its digits.  *)
Emits(t) ==
  \E ws \in Seq(Seq(Chars)) : Emit(ws) /\ Singles(ws) /\ Passed(ws) = t

StartsNumeral(t) ==
  \E n, before : Starts(n, before) /\ t = Passed(before) \o ToCome'

LEMMA PassedOne ==
  /\ \A d \in Seq(Chars) : Passed(<<d>>) = d /\ Singles(<<d>>)
  /\ \A c \in Chars : Passed(emit_char(c)) = <<c>> /\ Singles(emit_char(c))
  /\ Passed(<<>>) = <<>>
  BY OneWrite, CharWrite, EmptyWrites DEF Passed, Singles, emit_char

LEMMA PassedTwo ==
  ASSUME NEW c \in Chars, NEW d \in Chars
  PROVE  /\ Passed(emit_char(c) \o emit_char(d)) = <<c, d>>
         /\ Singles(emit_char(c) \o emit_char(d))
  <1> DEFINE ws == emit_char(c) \o emit_char(d)
  <1>1. /\ ws \in Seq(Seq(Chars)) /\ Len(ws) = 2 /\ ws[1] = <<c>> /\ ws[2] = <<d>>
        /\ \A k \in 1 .. Len(ws) : Len(ws[k]) = 1
    BY TwoWrites
  <1>2. <<c>>[1] = c /\ <<d>>[1] = d
    OBVIOUS
  <1> HIDE DEF ws
  <1>3. Passed(ws) = [k \in 1 .. 2 |-> ws[k][1]]
    BY <1>1 DEF Passed
  <1>4. [k \in 1 .. 2 |-> ws[k][1]] = <<c, d>>
    <2>1. \A k \in 1 .. 2 : k = 1 \/ k = 2
      OBVIOUS
    <2> QED
      BY <1>1, <1>2, <2>1
  <1>5. Singles(ws)
    BY <1>1 DEF Singles
  <1> QED
    BY <1>3, <1>4, <1>5 DEF ws

LEMMA ArgumentAfter ==
  ASSUME IInv, NEW c, Switch(c)
  PROVE  /\ call' = call /\ width' = width /\ call \in Calls
         /\ pc' = "hex" => Argument' = call.num /\ Base' = 16
                           /\ Least' = IF width > 0 THEN width ELSE 1
         /\ pc' = "udec" =>
              /\ Argument' = IF c = "d" /\ call.num >= IntMin
                               THEN 2 * IntMin - call.num ELSE call.num
              /\ Base' = 10 /\ Least' = 1
  <1>1. /\ call' = call /\ width' = width /\ p' = p + 1 /\ pc # "out"
    BY DEF Switch
  <1>2. call \in Calls
    BY <1>1, LoopFacts
  <1>3. At(p) = c /\ p \in Nat /\ p' - 1 = p
    BY <1>1, ConversionPlace
  <1>4. At(p - 1)' = c
    BY <1>1, <1>3 DEF At
  <1> QED
    BY <1>1, <1>2, <1>4 DEF Argument, Base, Least

LEMMA PassedType ==
  ASSUME NEW before \in {<<>>, emit_char("-")}
  PROVE  /\ before \in Seq(Seq(Chars)) /\ Passed(before) \in Seq(Chars)
         /\ Passed(<<>>) = <<>> /\ Passed(emit_char("-")) = <<"-">>
  <1>1. "-" \in Chars
    BY DashAndZero
  <1>2. CASE before = <<>>
    BY <1>1, <1>2, PassedOne, EmptyWrites, Zenon
  <1>3. CASE before = emit_char("-")
    BY <1>1, <1>3, PassedOne, CharWrite, Zenon
  <1> QED
    BY <1>2, <1>3

LEMMA UdecEnds ==
  ASSUME IInv, NEW c, Switch(c), NEW n \in 0 .. 2 * IntMin - 1,
         NEW before \in {<<>>, emit_char("-")}, emit_udec(before, n),
         n = 0 => before = <<>>, pc' = "udec" => Argument' = n
  PROVE  \/ Emits(Passed(before) \o Numeral(n, 10, 1))
         \/ StartsNumeral(Passed(before) \o Numeral(n, 10, 1))
  <1>1. CASE n = 0 /\ Emit(before \o emit_char("0"))
    <2>1. "0" \in Chars
      BY DashAndZero
    <2>2. /\ emit_char("0") \in Seq(Seq(Chars)) /\ Passed(emit_char("0")) = <<"0">>
          /\ Singles(emit_char("0")) /\ <<"0">> \in Seq(Chars)
      BY <2>1, CharWrite, PassedOne, Zenon
    <2>3. before \o emit_char("0") = emit_char("0")
      BY <1>1, <2>2, EmptyWrites
    <2>4. Passed(before) \o Numeral(n, 10, 1) = <<"0">>
      <3>1. Passed(before) = <<>> /\ Numeral(n, 10, 1) = <<"0">>
        BY <1>1, ZeroNumeral, PassedOne
      <3>2. <<>> \o <<"0">> = <<"0">>
        OBVIOUS
      <3> QED
        BY <3>1, <3>2, Zenon
    <2>5. Emit(emit_char("0"))
      BY <1>1, <2>3, Zenon
    <2> QED
      BY <2>2, <2>4, <2>5, Zenon DEF Emits
  <1>2. CASE n # 0 /\ writes' = before /\ pc' = "udec" /\ v' = n /\ tmp' = <<>>
    <2>1. Argument' = n
      BY <1>2
    <2>2. Starts(n, before)
      BY <1>2, <2>1 DEF Starts
    <2>3. ToCome' = Numeral(n, 10, 1)
      <3>1. Base' = 10 /\ Least' = 1
        BY <1>2, ArgumentAfter
      <3> QED
        BY <1>2, <2>1, <3>1 DEF ToCome
    <2> QED
      BY <2>2, <2>3, Zenon DEF StartsNumeral
  <1> QED
    BY <1>1, <1>2 DEF emit_udec

(* %u, and %d of a number that is not negative.                            *)
LEMMA UnsignedEnds ==
  ASSUME IInv, NEW c, Switch(c), emit_udec(<<>>, call.num),
         c # "d" \/ call.num < IntMin
  PROVE  Emits(Numeral(call.num, 10, 1)) \/ StartsNumeral(Numeral(call.num, 10, 1))
  <1> DEFINE N == Numeral(call.num, 10, 1)
  <1>1. call \in Calls
    BY ArgumentAfter
  <1>2. call.num \in 0 .. 2 * IntMin - 1 /\ call.num \in Nat /\ IntMin \in Nat
    BY <1>1, CallFacts, SizesAssumption
  <1>3. pc' = "udec" => Argument' = call.num
    BY <1>2, ArgumentAfter
  <1>4. N \in Seq(Chars)
    <2>1. 10 \in {10, 16} /\ 1 \in Nat \ {0}
      OBVIOUS
    <2> QED
      BY <1>2, <2>1, NumeralType, Zenon
  <1> HIDE DEF N
  <1>5. Passed(<<>>) \o N = N
    BY <1>4, PassedOne, EmptySeq
  <1>6. <<>> \in {<<>>, emit_char("-")}
    OBVIOUS
  <1>7. Emits(Passed(<<>>) \o N) \/ StartsNumeral(Passed(<<>>) \o N)
    BY <1>2, <1>3, <1>6, UdecEnds DEF N
  <1> QED
    BY <1>5, <1>7 DEF N

LEMMA SignedEnds ==
  ASSUME IInv, Switch("d"), emit_dec(call.num)
  PROVE  Emits(SignedNumeral(call.num)) \/ StartsNumeral(SignedNumeral(call.num))
  <1>1. call \in Calls
    BY ArgumentAfter
  <1>2. /\ call.num \in 0 .. 2 * IntMin - 1 /\ call.num \in Nat
        /\ IntMin \in Nat \ {0} /\ 2 * IntMin \in Nat
    BY <1>1, CallFacts, SizesAssumption
  <1>3. CASE call.num < IntMin
    <2>1. emit_udec(<<>>, call.num)
      BY <1>2, <1>3 DEF emit_dec
    <2> QED
      BY <1>3, <2>1, UnsignedEnds DEF SignedNumeral
  <1>4. CASE ~(call.num < IntMin)
    <2> DEFINE n == 2 * IntMin - call.num
               before == emit_char("-")
    <2>1. n \in 0 .. 2 * IntMin - 1 /\ n # 0 /\ n % (2 * IntMin) = n
          /\ call.num >= IntMin
      BY <1>2, <1>4
    <2>2. emit_udec(before, n)
      BY <1>4, <2>1 DEF emit_dec
    <2>3. pc' = "udec" => Argument' = n
      BY <2>1, ArgumentAfter
    <2> HIDE DEF n, before
    <2>4. before \in {<<>>, emit_char("-")}
      BY DEF before
    <2>5. \/ Emits(Passed(before) \o Numeral(n, 10, 1))
          \/ StartsNumeral(Passed(before) \o Numeral(n, 10, 1))
      BY <2>1, <2>2, <2>3, <2>4, UdecEnds
    <2>6. SignedNumeral(call.num) = Passed(before) \o Numeral(n, 10, 1)
      <3>1. Passed(before) = <<"-">>
        BY DashAndZero, PassedOne, Zenon DEF before
      <3>2. SignedNumeral(call.num) = <<"-">> \o Numeral(n, 10, 1)
        BY <1>4 DEF SignedNumeral, n
      <3> QED
        BY <3>1, <3>2, Zenon
    <2> QED
      BY <2>5, <2>6, Zenon
  <1> QED
    BY <1>3, <1>4

LEMMA HexEnds ==
  ASSUME IInv, Switch("x"), emit_hex(call.num)
  PROVE  StartsNumeral(Numeral(call.num, 16, IF width > 0 THEN width ELSE 1))
  <1> DEFINE N == Numeral(call.num, 16, IF width > 0 THEN width ELSE 1)
  <1>1. /\ pc' = "hex" /\ v' = call.num /\ writes' = writes
        /\ tmp' = IF call.num = 0 THEN <<"0">> ELSE <<>>
    BY DEF emit_hex
  <1>2. writes = <<>>
    BY DEF IInv, FormatInv, Switch
  <1>3. /\ call \in Calls /\ Argument' = call.num /\ Base' = 16
        /\ Least' = IF width > 0 THEN width ELSE 1
    BY <1>1, ArgumentAfter
  <1>4. call.num \in 0 .. 2 * IntMin - 1 /\ call.num \in Nat
    BY <1>3, CallFacts, SizesAssumption
  <1>5. Starts(call.num, <<>>)
    BY <1>1, <1>2, <1>3, <1>4 DEF Starts
  <1>6. ToCome' = N
    BY <1>1, <1>3 DEF ToCome
  <1>7. N \in Seq(Chars)
    <2> DEFINE least == IF width > 0 THEN width ELSE 1
    <2>1. least \in Nat \ {0}
      BY SizesAssumption DEF IInv, TypeOK
    <2> HIDE DEF least
    <2>2. Numeral(call.num, 16, least) \in Seq(Chars)
      BY <1>4, <2>1, NumeralType
    <2> QED
      BY <2>2 DEF least
  <1> HIDE DEF N
  <1>8. N = Passed(<<>>) \o ToCome'
    BY <1>6, <1>7, PassedOne, EmptySeq
  <1> QED
    BY <1>5, <1>8, Zenon DEF StartsNumeral, N

LEMMA ConversionEnds ==
  ASSUME IInv, Conversion
  PROVE  \E c : /\ Switch(c)
                /\ Emits(Text(call, from)) \/ StartsNumeral(Text(call, from))
  <1> DEFINE t == Text(call, from)
  <1>0. ASSUME NEW c, Switch(c)
        PROVE  /\ call \in Calls /\ call.str \in Seq(Chars) /\ call.chr \in Chars
               /\ c \in Chars /\ At(p) = c
               /\ c \notin Listed => t = <<"%", c>>
               /\ c = "s" => t = call.str
               /\ c = "c" => t = <<call.chr>>
               /\ c = "%" => t = <<"%">>
               /\ c = "u" => t = Numeral(call.num, 10, 1)
               /\ c = "d" => t = SignedNumeral(call.num)
               /\ c = "x" => t = Numeral(call.num, 16, IF width > 0 THEN width ELSE 1)
    <2>1. call \in Calls
      BY <1>0, ArgumentAfter
    <2>2. call.str \in Seq(Chars) /\ call.chr \in Chars
      BY <2>1, CallFacts
    <2>3. /\ from \in 1 .. Len(call.fmt) /\ ~IsLiteral(call.fmt, from)
          /\ c \in Chars /\ At(p) = c
      BY <1>0, ConversionPlace
    <2>4. CASE IsPadded(call.fmt, from)
      <3>1. c = "x" /\ width = PaddedTo(call.fmt, from) /\ width \in Nat \ {0}
        BY <1>0, <2>4, ConversionPlace
      <3>2. t = Numeral(call.num, 16, width)
        BY <2>1, <2>3, <2>4, <3>1, TextOfItem
      <3>3. c \in Listed
        BY <3>1 DEF Listed
      <3> QED
        BY <2>1, <2>2, <2>3, <3>1, <3>2, <3>3
    <2>5. CASE ~IsPadded(call.fmt, from)
      <3>1. /\ width = 0 /\ call.fmt[from + 1] = c
            /\ IsPlain(call.fmt, from) <=> c \in Listed
            /\ IsUnlisted(call.fmt, from) <=> c \notin Listed
        BY <1>0, <2>5, ConversionPlace
      <3>2. c \notin Listed => t = <<"%", c>>
        BY <2>1, <2>3, <2>5, <3>1, TextOfItem
      <3>3. ASSUME c \in Listed
            PROVE  /\ c = "s" => t = call.str
                   /\ c = "c" => t = <<call.chr>>
                   /\ c = "%" => t = <<"%">>
                   /\ c = "u" => t = Numeral(call.num, 10, 1)
                   /\ c = "d" => t = SignedNumeral(call.num)
                   /\ c = "x" => t = Numeral(call.num, 16, 1)
        BY <2>1, <2>3, <2>5, <3>1, <3>3, TextOfItem
      <3>4. \A x \in {"s", "c", "%", "u", "d", "x"} : x \in Listed
        BY DEF Listed
      <3>5. (IF width > 0 THEN width ELSE 1) = 1
        BY <3>1
      <3> QED
        BY <2>1, <2>2, <2>3, <3>2, <3>3, <3>4, <3>5
    <2> QED
      BY <2>4, <2>5
  <1> HIDE DEF t
  <1>1. CASE Switch("s") /\ Emit(<<call.str>>)
    <2>1. <<call.str>> \in Seq(Seq(Chars)) /\ Passed(<<call.str>>) = t /\ Singles(<<call.str>>)
      BY <1>0, <1>1, OneWrite, PassedOne
    <2> QED
      BY <1>1, <2>1, Zenon DEF Emits, t
  <1>2. CASE Switch("c") /\ Emit(emit_char(call.chr))
    <2>1. /\ emit_char(call.chr) \in Seq(Seq(Chars))
          /\ Passed(emit_char(call.chr)) = t /\ Singles(emit_char(call.chr))
      BY <1>0, <1>2, CharWrite, PassedOne
    <2> QED
      BY <1>2, <2>1, Zenon DEF Emits, t
  <1>3. CASE Switch("u") /\ emit_udec(<<>>, call.num)
    <2>1. t = Numeral(call.num, 10, 1)
      BY <1>0, <1>3
    <2>2. Emits(Numeral(call.num, 10, 1)) \/ StartsNumeral(Numeral(call.num, 10, 1))
      BY <1>3, UnsignedEnds
    <2> QED
      BY <1>3, <2>1, <2>2, Zenon DEF t
  <1>4. CASE Switch("d") /\ emit_dec(call.num)
    <2>1. t = SignedNumeral(call.num)
      BY <1>0, <1>4
    <2> QED
      BY <1>4, <2>1, SignedEnds, Zenon DEF t
  <1>5. CASE Switch("x") /\ emit_hex(call.num)
    <2>1. t = Numeral(call.num, 16, IF width > 0 THEN width ELSE 1)
      BY <1>0, <1>5
    <2> QED
      BY <1>5, <2>1, HexEnds, Zenon DEF t
  <1>6. CASE Switch("%") /\ Emit(emit_char("%"))
    <2>1. t = <<"%">> /\ "%" \in Chars
      BY <1>0, <1>6
    <2>2. /\ emit_char("%") \in Seq(Seq(Chars))
          /\ Passed(emit_char("%")) = t /\ Singles(emit_char("%"))
      BY <2>1, CharWrite, PassedOne, Zenon
    <2> QED
      BY <1>6, <2>2, Zenon DEF Emits, t
  <1>7. CASE /\ Switch(At(p)) /\ At(p) \notin Listed
             /\ Emit(emit_char("%") \o emit_char(At(p)))
    <2> DEFINE c == At(p)
               ws == emit_char("%") \o emit_char(c)
    <2>1. t = <<"%", c>> /\ "%" \in Chars /\ c \in Chars
      BY <1>0, <1>7, DashAndZero
    <2>2. ws \in Seq(Seq(Chars)) /\ Passed(ws) = t /\ Singles(ws)
      BY <2>1, TwoWrites, PassedTwo, Zenon
    <2> QED
      BY <1>7, <2>2, Zenon DEF Emits, t
  <1> QED
    BY <1>1, <1>2, <1>3, <1>4, <1>5, <1>6, <1>7 DEF Conversion

LEMMA ConversionKeeps ==
  ASSUME IInv, Conversion
  PROVE  IInv'
  <1>1. PICK c : Switch(c) /\ (Emits(Text(call, from)) \/ StartsNumeral(Text(call, from)))
    BY ConversionEnds
  <1>2. CASE Emits(Text(call, from))
    BY <1>1, <1>2, EmitKeeps DEF Emits
  <1>3. CASE StartsNumeral(Text(call, from))
    BY <1>1, <1>3, StartsKeeps DEF StartsNumeral
  <1> QED
    BY <1>1, <1>2, <1>3

-----------------------------------------------------------------------------
(* The digit loops preserve the invariant.                                 *)

LEMMA NumberFacts ==
  ASSUME IInv, pc \in {"udec", "hex"}
  PROVE  /\ call \in Calls /\ Base \in {10, 16}
         /\ Argument \in 0 .. 2 * IntMin - 1 /\ Least \in Nat \ {0}
         /\ Least <= width \/ Least = 1
         /\ tmp \in Seq(Chars) /\ Len(tmp) \in Nat
         /\ Pow(Base)[Len(tmp)] \in Nat \ {0}
         /\ v = Argument \div Pow(Base)[Len(tmp)]
         /\ \A k \in 1 .. Len(tmp) : tmp[k] = Digit(Argument, Base, k - 1)
         /\ \A j \in 1 .. Len(tmp) - 1 : j < Least \/ Argument >= Pow(Base)[j]
         /\ Len(tmp) > 0 \/ Argument > 0
  <1>1. call \in Calls
    BY LoopFacts
  <1>2. call.num \in 0 .. 2 * IntMin - 1 /\ IntMin \in Nat \ {0}
    BY <1>1, CallFacts, SizesAssumption
  <1>3. Argument \in 0 .. 2 * IntMin - 1
    BY <1>2 DEF Argument
  <1>4. tmp \in Seq(Chars) /\ Len(tmp) \in Nat /\ width \in Nat
    BY SizesAssumption DEF IInv, TypeOK
  <1>5. Least \in Nat \ {0} /\ (Least <= width \/ Least = 1) /\ Base \in {10, 16}
    BY <1>4 DEF Least, Base
  <1>6. Pow(Base)[Len(tmp)] \in Nat \ {0}
    <2>1. Pow(Base) \in [Nat -> Nat] /\ \A k \in Nat : k < Pow(Base)[k]
      BY <1>5, PowProperties
    <2> QED
      BY <1>4, <2>1
  <1> QED
    BY <1>1, <1>3, <1>4, <1>5, <1>6 DEF IInv, NumberInv

(* One more digit, whether it is found or padded.                          *)
LEMMA DigitKeeps ==
  ASSUME IInv, pc \in {"udec", "hex"}, NEW d,
         d = HexDigits[(v % Base) + 1], tmp' = Append(tmp, d), v' = v \div Base,
         Len(tmp) = 0 \/ Len(tmp) < Least \/ v # 0,
         UNCHANGED <<call, pc, p, width, writes, from, asked, stored, room, drained>>
  PROVE  IInv'
  <1> DEFINE n == Len(tmp)
             A == Argument
             P == Pow(Base)
  <1>1. /\ Base \in {10, 16} /\ A \in Nat /\ n \in Nat /\ tmp \in Seq(Chars)
        /\ P[n] \in Nat \ {0} /\ v = A \div P[n] /\ A < 2 * IntMin /\ A <= 2 * IntMin - 1
    BY NumberFacts, SizesAssumption
  <1>2. P[n + 1] = Base * P[n] /\ P \in [Nat -> Nat] /\ P[n + 1] \in Nat
    <2>1. P \in [Nat -> Nat] /\ \A k \in Nat : P[k + 1] = Base * P[k]
      BY <1>1, PowProperties
    <2> HIDE DEF P, n
    <2>2. n \in Nat /\ n + 1 \in Nat
      BY <1>1
    <2>3. P[n + 1] = Base * P[n]
      BY <2>1, <2>2, Zenon
    <2>4. P[n + 1] \in Nat
      BY <2>1, <2>2
    <2> QED
      BY <2>1, <2>3, <2>4
  <1>3. Argument' = Argument /\ Base' = Base /\ Least' = Least
    BY DEF Argument, Base, Least, At
  <1>4. d = Digit(A, Base, n) /\ d \in Chars
    <2>1. d = Digit(A, Base, n)
      BY <1>1 DEF Digit
    <2>2. v \in Nat
      BY DEF IInv, TypeOK
    <2> QED
      BY <1>1, <2>1, <2>2, DigitType
  <1>5. /\ v' = A \div P[n + 1] /\ v' \in Nat
        /\ v # 0 => A >= P[n]
    <2> DEFINE q == P[n]
               b == Base
    <2> HIDE DEF q, b
    <2>1. b \in {10, 16} /\ q \in Nat \ {0} /\ v = A \div q /\ v' = v \div b
      BY <1>1 DEF q, b
    <2> HIDE DEF A
    <2>2. /\ (A \div q) \div b = A \div (b * q) /\ (A \div q) \div b \in Nat
          /\ (A \div q = 0) <=> A < q
      <3>1. A \in Nat
        BY <1>1
      <3>2. b \in {10, 16} /\ q \in Nat \ {0}
        BY <2>1
      <3> QED
        BY <3>1, <3>2, NextQuotient
    <2>3. b * q = P[n + 1]
      BY <1>2 DEF b, q
    <2>4. v' = A \div P[n + 1] /\ v' \in Nat
      BY <2>1, <2>2, <2>3
    <2>5. v # 0 => A >= q
      BY <1>1, <2>1, <2>2
    <2> QED
      BY <2>4, <2>5 DEF q
  <1>6. v' \in 0 .. 2 * IntMin - 1
    <2>1. v \in 0 .. 2 * IntMin - 1
      BY DEF IInv, TypeOK
    <2>2. v \in Nat /\ v < 2 * IntMin /\ IntMin \in Nat
      BY <2>1, SizesAssumption
    <2>3. v \div Base <= v
      BY <1>1, <2>2
    <2>4. v' \in Nat /\ v' <= v
      BY <1>5, <2>3
    <2> QED
      BY <2>2, <2>4
  <1>7. /\ tmp' \in Seq(Chars) /\ Len(tmp') = n + 1 /\ tmp'[n + 1] = d
        /\ \A k \in 1 .. n : tmp'[k] = tmp[k]
    BY <1>1, <1>4, AppendProperties
  <1>8. TypeOK'
    BY <1>6, <1>7 DEF IInv, TypeOK
  <1>9. OutInv' /\ FormatInv' /\ WritesInv' /\ TrimInv'
    BY DEF IInv, OutInv, FormatInv, WritesInv, TrimInv, At
  <1>10. NumberInv'
    <2> HIDE DEF n, A, P
    <2>1. \A k \in 1 .. n + 1 : tmp'[k] = Digit(A, Base, k - 1)
      <3>1. \A k \in 1 .. n : tmp[k] = Digit(A, Base, k - 1)
        BY NumberFacts DEF n, A
      <3>2. \A k \in 1 .. n + 1 : k \in 1 .. n \/ k = n + 1
        BY <1>1
      <3>3. (n + 1) - 1 = n
        BY <1>1
      <3> QED
        BY <1>4, <1>7, <3>1, <3>2, <3>3
    <2>2. \A j \in 1 .. n : j < Least \/ A >= P[j]
      <3>1. \A j \in 1 .. n - 1 : j < Least \/ A >= P[j]
        BY NumberFacts DEF n, A, P
      <3>2. n > 0 => n < Least \/ A >= P[n]
        BY <1>1, <1>5 DEF n
      <3>3. \A j \in 1 .. n : j \in 1 .. n - 1 \/ (j = n /\ n > 0)
        BY <1>1
      <3> QED
        BY <3>1, <3>2, <3>3
    <2>3. Len(tmp') - 1 = n /\ Len(tmp') > 0
      BY <1>1, <1>7
    <2> QED
      BY <1>3, <1>5, <1>7, <2>1, <2>2, <2>3 DEF NumberInv, A, P
  <1> QED
    BY <1>8, <1>9, <1>10 DEF IInv

LEMMA FoundDigitKeeps ==
  ASSUME IInv, FoundDigit
  PROVE  IInv'
  <1> DEFINE d == HexDigits[(v % Base) + 1]
  <1>1. /\ pc \in {"udec", "hex"} /\ v # 0 /\ tmp' = Append(tmp, d) /\ v' = v \div Base
        /\ UNCHANGED <<call, pc, p, width, writes, from, asked, stored, room, drained>>
    BY DEF FoundDigit, ring
  <1> HIDE DEF d
  <1> QED
    BY <1>1, DigitKeeps DEF d

LEMMA PadKeeps ==
  ASSUME IInv, Pad
  PROVE  IInv'
  <1>1. /\ pc = "hex" /\ v = 0 /\ Len(tmp) < width /\ tmp' = Append(tmp, "0") /\ v' = v
        /\ UNCHANGED <<call, pc, p, width, writes, from, asked, stored, room, drained>>
    BY DEF Pad, ring
  <1>2. Base \in {10, 16}
    BY <1>1, NumberFacts
  <1>3. (v % Base) + 1 = 1 /\ v \div Base = 0
    BY <1>1, <1>2
  <1>4. HexDigits[(v % Base) + 1] = "0"
    BY <1>3, HexDigitsAre
  <1>5. Len(tmp) < Least
    <2>1. Len(tmp) \in Nat /\ width \in Nat
      BY SizesAssumption DEF IInv, TypeOK
    <2> QED
      BY <1>1, <2>1 DEF Least
  <1>6. tmp' = Append(tmp, HexDigits[(v % Base) + 1]) /\ v' = v \div Base
    BY <1>1, <1>3, <1>4
  <1> DEFINE d == HexDigits[(v % Base) + 1]
  <1> HIDE DEF d
  <1>7. d = HexDigits[(v % Base) + 1] /\ tmp' = Append(tmp, d)
    BY <1>6 DEF d
  <1> QED
    BY <1>1, <1>5, <1>6, <1>7, DigitKeeps

(* The loop of emit_udec or emit_hex ends with the numeral in tmp.         *)
LEMMA DigitsAreNumeral ==
  ASSUME IInv, EmitDigits
  PROVE  /\ tmp # <<>> /\ Numeral(Argument, Base, Least) \in Seq(Chars)
         /\ Len(Numeral(Argument, Base, Least)) = Len(tmp)
         /\ \A k \in 1 .. Len(tmp) :
              Numeral(Argument, Base, Least)[k] = tmp[Len(tmp) + 1 - k]
  <1> DEFINE n == Len(tmp)
             A == Argument
             P == Pow(Base)
  <1>1. /\ pc \in {"udec", "hex"} /\ v = 0 /\ (pc = "hex" => n >= width)
    BY DEF EmitDigits
  <1>2. /\ Base \in {10, 16} /\ A \in Nat /\ n \in Nat /\ Least \in Nat \ {0}
        /\ Least <= width \/ Least = 1
        /\ P[n] \in Nat \ {0} /\ v = A \div P[n]
        /\ \A k \in 1 .. n : tmp[k] = Digit(A, Base, k - 1)
        /\ \A j \in 1 .. n - 1 : j < Least \/ A >= P[j]
        /\ n > 0 \/ A > 0
    BY <1>1, NumberFacts, SizesAssumption
  <1>3. A < P[n]
    <2> HIDE DEF A, P, n
    <2> DEFINE q == P[n]
    <2>1. q \in Nat \ {0} /\ A \div q = 0
      BY <1>1, <1>2
    <2> HIDE DEF q
    <2>2. A < q
      BY <1>2, <2>1, NextQuotient
    <2> QED
      BY <2>2 DEF q
  <1>4. n > 0
    <2>1. Pow(Base)[0] = 1
      BY <1>2, PowProperties
    <2> HIDE DEF A, n
    <2>2. n = 0 => A < 1
      BY <1>3, <2>1
    <2> QED
      BY <1>2, <2>2
  <1>5. n >= Least
    <2>1. pc = "udec" => Least = 1
      BY DEF Least
    <2>2. pc = "hex" => Least = 1 \/ Least = width
      BY DEF Least
    <2>3. width \in Nat
      BY SizesAssumption DEF IInv, TypeOK
    <2> HIDE DEF n
    <2> QED
      BY <1>1, <1>2, <1>4, <2>1, <2>2, <2>3
  <1>6. NumeralLength(A, Base, Least) = n
    <2> DEFINE b == Base
               l == Least
    <2> HIDE DEF A, n, b, l
    <2>1. /\ b \in {10, 16} /\ A \in Nat /\ l \in Nat \ {0} /\ n \in Nat
          /\ n >= l /\ A < Pow(b)[n]
          /\ \A j \in 1 .. n - 1 : j < l \/ A >= Pow(b)[j]
      BY <1>2, <1>3, <1>5 DEF b, l
    <2>2. NumeralLength(A, b, l) = n
      BY <2>1, LengthIs
    <2> QED
      BY <2>2 DEF b, l
  <1> HIDE DEF n, A, P
  <1>7. Numeral(A, Base, Least) = [j \in 1 .. n |-> Digit(A, Base, n - j)]
    BY <1>6 DEF Numeral
  <1>8. Numeral(A, Base, Least) \in Seq(Chars)
    BY <1>2, NumeralType
  <1>9. Len(Numeral(A, Base, Least)) = n
    BY <1>2, <1>7
  <1>10. ASSUME NEW k \in 1 .. n
         PROVE  Numeral(A, Base, Least)[k] = tmp[n + 1 - k]
    <2>1. n + 1 - k \in 1 .. n /\ (n + 1 - k) - 1 = n - k
      BY <1>2
    <2>2. tmp[n + 1 - k] = Digit(A, Base, n - k)
      BY <1>2, <2>1
    <2> QED
      BY <1>7, <2>2
  <1>11. tmp # <<>>
    BY <1>4 DEF n
  <1> QED
    BY <1>8, <1>9, <1>10, <1>11 DEF n, A

LEMMA BackwardsType ==
  ASSUME NEW s \in Seq(Chars)
  PROVE  /\ Backwards(s) \in Seq(Seq(Chars)) /\ Len(Backwards(s)) = Len(s)
         /\ \A k \in 1 .. Len(s) :
              /\ Backwards(s)[k] = <<s[Len(s) + 1 - k]>>
              /\ Len(Backwards(s)[k]) = 1
              /\ Backwards(s)[k][1] = s[Len(s) + 1 - k]
  <1> DEFINE n == Len(s)
  <1>1. n \in Nat
    OBVIOUS
  <1>2. ASSUME NEW k \in 1 .. n PROVE n + 1 - k \in 1 .. n /\ s[n + 1 - k] \in Chars
    <2>1. n + 1 - k \in 1 .. n
      BY <1>1
    <2> QED
      BY <2>1, ElementOfSeq
  <1>3. Backwards(s) = [k \in 1 .. n |-> <<s[n + 1 - k]>>]
    BY DEF Backwards
  <1>4. ASSUME NEW k \in 1 .. n
        PROVE  /\ <<s[n + 1 - k]>> \in Seq(Chars) /\ Len(<<s[n + 1 - k]>>) = 1
               /\ <<s[n + 1 - k]>>[1] = s[n + 1 - k]
    BY <1>2
  <1> HIDE DEF n
  <1>5. Backwards(s) \in [1 .. n -> Seq(Chars)]
    BY <1>3, <1>4
  <1>6. Backwards(s) \in Seq(Seq(Chars)) /\ Len(Backwards(s)) = n
    BY <1>1, <1>5, IsASeq, LenProperties
  <1> QED
    BY <1>3, <1>4, <1>6 DEF n

LEMMA EmitDigitsKeeps ==
  ASSUME IInv, EmitDigits
  PROVE  IInv'
  <1>1. /\ pc \in {"udec", "hex"} /\ pc' = "loop" /\ writes' = Backwards(tmp) /\ tmp' = <<>>
        /\ UNCHANGED <<call, p, width, v, from, asked, stored, room, drained>>
    BY DEF EmitDigits, ring
  <1>2. tmp \in Seq(Chars) /\ Len(tmp) \in Nat
    BY <1>1, NumberFacts
  <1>3. /\ writes' \in Seq(Seq(Chars)) /\ Len(writes') = Len(tmp)
        /\ \A k \in 1 .. Len(tmp) : Len(writes'[k]) = 1
    BY <1>1, <1>2, BackwardsType
  <1>4. TypeOK'
    BY <1>1, <1>3, EmptyWrites DEF IInv, TypeOK
  <1>5. OutInv' /\ FormatInv' /\ WritesInv' /\ NumberInv' /\ TrimInv'
    BY <1>1, <1>3 DEF IInv, OutInv, FormatInv, WritesInv, NumberInv, TrimInv, At
  <1> QED
    BY <1>4, <1>5 DEF IInv

-----------------------------------------------------------------------------
(* rtt_write, the return and the probe preserve the invariant.             *)

LEMMA ConcatElements ==
  ASSUME NEW s \in Seq(Chars), NEW t \in Seq(Chars)
  PROVE  /\ s \o t \in Seq(Chars) /\ Len(s \o t) = Len(s) + Len(t)
         /\ \A k \in 1 .. Len(s) : (s \o t)[k] = s[k]
         /\ \A k \in 1 .. Len(t) : (s \o t)[Len(s) + k] = t[k]
  OBVIOUS

LEMMA WriteKeeps ==
  ASSUME IInv, rtt_write
  PROVE  /\ IInv'
         /\ Head(writes) \in Seq(Chars) /\ asked' = asked \o Head(writes)
         /\ writes' = Tail(writes) /\ writes # <<>>
  <1> DEFINE d == Head(writes)
             n == IF Len(d) <= room THEN Len(d) ELSE room
             kept == SubSeq(d, 1, n)
  <1>1. /\ writes # <<>> /\ writes' = Tail(writes) /\ asked' = asked \o d
        /\ stored' = stored \o kept /\ room' = room - n
        /\ UNCHANGED <<call, pc, p, width, v, tmp, from, drained>>
    BY DEF rtt_write, number
  <1>2. /\ writes \in Seq(Seq(Chars)) /\ asked \in Seq(Chars) /\ stored \in Seq(Chars)
        /\ room \in 0 .. Capacity /\ room \in Nat
    BY SizesAssumption DEF IInv, TypeOK
  <1>3. d \in Seq(Chars) /\ Tail(writes) \in Seq(Seq(Chars))
        /\ Len(Tail(writes)) = Len(writes) - 1 /\ Len(writes) \in Nat /\ Len(writes) > 0
        /\ \A k \in 1 .. Len(Tail(writes)) : Tail(writes)[k] = writes[k + 1]
    BY <1>1, <1>2, HeadTailProperties
  <1> HIDE DEF d
  <1>4. n \in Nat /\ n <= Len(d) /\ n <= room /\ Len(d) \in Nat
    BY <1>2, <1>3
  <1> HIDE DEF n
  <1>5. /\ kept \in Seq(Chars) /\ Len(kept) = n
        /\ \A k \in 1 .. n : kept[k] = d[k]
    <2>1. \A k \in 1 .. n : d[k] \in Chars
      BY <1>3, <1>4
    <2> QED
      BY <1>3, <1>4, SubSeqProperties
  <1> HIDE DEF kept
  <1>6. asked' \in Seq(Chars) /\ stored' \in Seq(Chars) /\ room' \in 0 .. Capacity
    BY <1>1, <1>2, <1>3, <1>4, <1>5, SizesAssumption
  <1>7. TypeOK'
    BY <1>1, <1>3, <1>6 DEF IInv, TypeOK
  <1>8. OutInv' /\ FormatInv' /\ NumberInv'
    BY <1>1, EmptyWrites
    DEF IInv, OutInv, FormatInv, NumberInv, At, Argument, Base, Least
  <1>9. WritesInv'
    BY <1>1, <1>3 DEF IInv, WritesInv
  <1>10. TrimInv'
    <2> SUFFICES ASSUME ~drained'
                 PROVE  /\ Len(stored') <= Len(asked')
                        /\ \A k \in 1 .. Len(stored') : stored'[k] = asked'[k]
                        /\ Len(stored') < Len(asked') => room' = 0
      BY DEF TrimInv
    <2>1. /\ Len(stored) <= Len(asked) /\ Len(stored) \in Nat /\ Len(asked) \in Nat
          /\ \A k \in 1 .. Len(stored) : stored[k] = asked[k]
          /\ Len(stored) < Len(asked) => room = 0
      BY <1>1, <1>2 DEF IInv, TrimInv
    <2>2. /\ Len(stored') = Len(stored) + n /\ Len(asked') = Len(asked) + Len(d)
          /\ \A k \in 1 .. Len(stored) : stored'[k] = stored[k]
          /\ \A k \in 1 .. n : stored'[Len(stored) + k] = kept[k]
          /\ \A k \in 1 .. Len(asked) : asked'[k] = asked[k]
          /\ \A k \in 1 .. Len(d) : asked'[Len(asked) + k] = d[k]
      <3>1. /\ Len(stored') = Len(stored) + n
            /\ \A k \in 1 .. Len(stored) : stored'[k] = stored[k]
            /\ \A k \in 1 .. n : stored'[Len(stored) + k] = kept[k]
        BY <1>1, <1>2, <1>5, ConcatElements
      <3>2. /\ Len(asked') = Len(asked) + Len(d)
            /\ \A k \in 1 .. Len(asked) : asked'[k] = asked[k]
            /\ \A k \in 1 .. Len(d) : asked'[Len(asked) + k] = d[k]
        BY <1>1, <1>2, <1>3, ConcatElements
      <3> QED
        BY <3>1, <3>2
    <2>3. CASE Len(stored) = Len(asked)
      <3>1. ASSUME NEW k \in 1 .. Len(stored) + n PROVE stored'[k] = asked'[k]
        <4>1. CASE k <= Len(stored)
          BY <2>1, <2>2, <2>3, <4>1
        <4>2. CASE k > Len(stored)
          <5> DEFINE j == k - Len(stored)
          <5>1. j \in 1 .. n /\ j \in 1 .. Len(d) /\ k = Len(stored) + j
            BY <1>4, <2>1, <4>2
          <5> HIDE DEF j
          <5>2. stored'[k] = kept[j] /\ kept[j] = d[j]
            BY <1>5, <2>2, <5>1
          <5>3. asked'[k] = d[j]
            BY <2>2, <2>3, <5>1
          <5> QED
            BY <5>2, <5>3
        <4> QED
          BY <2>1, <4>1, <4>2
      <3>2. n < Len(d) => n = room
        BY DEF n
      <3>3. \A k \in 1 .. Len(stored') : stored'[k] = asked'[k]
        BY <2>2, <3>1
      <3>4. Len(stored') <= Len(asked') /\ (Len(stored') < Len(asked') => n < Len(d))
        BY <1>4, <2>1, <2>2, <2>3
      <3>5. n = room => room' = 0
        BY <1>1, <1>2
      <3> QED
        BY <3>2, <3>3, <3>4, <3>5
    <2>4. CASE Len(stored) < Len(asked)
      <3>1. room = 0 /\ n = 0
        BY <1>4, <2>1, <2>4
      <3> QED
        BY <1>1, <1>4, <2>1, <2>2, <2>4, <3>1
    <2> QED
      BY <2>1, <2>3, <2>4
  <1> QED
    BY <1>1, <1>3, <1>7, <1>8, <1>9, <1>10 DEF IInv, d

LEMMA ReturnKeeps ==
  ASSUME IInv, Return
  PROVE  IInv'
  <1>1. /\ call' = NoCall /\ pc' = "out" /\ p' = 0 /\ width' = 0 /\ from' = 0
        /\ asked' = <<>> /\ stored' = <<>> /\ drained' = FALSE /\ writes = <<>>
        /\ UNCHANGED <<v, tmp, writes, room>>
    BY DEF Return, number
  <1>2. 0 \in 0 .. HexTmp
    BY SizesAssumption
  <1>3. TypeOK'
    BY <1>1, <1>2, EmptyWrites DEF IInv, TypeOK
  <1>4. OutInv' /\ FormatInv' /\ WritesInv' /\ NumberInv' /\ TrimInv'
    BY <1>1, EmptyWrites DEF OutInv, FormatInv, WritesInv, NumberInv, TrimInv
  <1> QED
    BY <1>3, <1>4 DEF IInv

LEMMA ProbeKeeps ==
  ASSUME IInv, Probe
  PROVE  IInv'
  <1>1. /\ room' \in 0 .. Capacity /\ drained' = (pc # "out")
        /\ UNCHANGED <<call, pc, p, width, v, tmp, writes, from, asked, stored>>
    BY SizesAssumption DEF Probe, IInv, TypeOK, number
  <1>2. TypeOK'
    BY <1>1 DEF IInv, TypeOK
  <1>3. OutInv' /\ FormatInv' /\ WritesInv' /\ NumberInv'
    BY <1>1
    DEF IInv, OutInv, FormatInv, WritesInv, NumberInv, At, Argument, Base, Least
  <1>4. TrimInv'
    <2>1. CASE pc = "out"
      <3>1. stored' = <<>> /\ asked' = <<>>
        BY <1>1, <2>1 DEF IInv, OutInv
      <3>2. Len(stored') = 0 /\ Len(asked') = 0
        BY <3>1
      <3> QED
        BY <3>2 DEF TrimInv
    <2>2. CASE pc # "out"
      BY <1>1, <2>2 DEF TrimInv
    <2> QED
      BY <2>1, <2>2
  <1> QED
    BY <1>2, <1>3, <1>4 DEF IInv

LEMMA StutterKeeps ==
  ASSUME IInv, UNCHANGED vars
  PROVE  IInv'
  <1>1. TypeOK'
    BY DEF IInv, TypeOK, vars
  <1>2. OutInv' /\ FormatInv' /\ WritesInv' /\ NumberInv' /\ TrimInv'
    BY DEF IInv, OutInv, FormatInv, WritesInv, NumberInv, TrimInv, At,
           Argument, Base, Least, vars
  <1> QED
    BY <1>1, <1>2 DEF IInv

THEOREM RttFormatInvariant == Spec => []IInv
  <1>1. IInv /\ [Next]_vars => IInv'
    <2> SUFFICES ASSUME IInv, [Next]_vars PROVE IInv'
      OBVIOUS
    <2>1. CASE \E c \in Calls : rtt_printf(c)
      BY <2>1, CallKeeps
    <2>2. CASE Literal \/ Percent \/ WidthDigit \/ Conversion
      BY <2>2, LiteralKeeps, PercentKeeps, WidthDigitKeeps, ConversionKeeps
    <2>3. CASE FoundDigit \/ Pad \/ EmitDigits
      BY <2>3, FoundDigitKeeps, PadKeeps, EmitDigitsKeeps
    <2>4. CASE rtt_write \/ Return \/ Probe \/ UNCHANGED vars
      BY <2>4, WriteKeeps, ReturnKeeps, ProbeKeeps, StutterKeeps
    <2> QED
      BY <2>1, <2>2, <2>3, <2>4 DEF Next
  <1> QED
    BY <1>1, InitInv, PTL DEF Spec

-----------------------------------------------------------------------------
(* What the invariant says of tmp and of a full ring.                      *)

LEMMA InvariantStays == IInv => StaysInBounds
  <1> SUFFICES ASSUME IInv PROVE StaysInBounds
    OBVIOUS
  <1>1. p <= Len(call.fmt) + 1
    <2>1. CASE pc = "out"
      <3>1. call.fmt \in Seq(Chars)
        <4>1. CASE call \in Calls
          BY <4>1, CallFacts
        <4>2. CASE call = NoCall
          <5>1. call.fmt = <<>>
            BY <4>2 DEF NoCall
          <5> QED
            BY <5>1
        <4> QED
          BY <4>1, <4>2 DEF IInv, TypeOK
      <3> QED
        BY <2>1, <3>1 DEF IInv, OutInv
    <2>2. CASE pc \in {"loop", "udec", "hex"}
      <3>1. ItemsFrom(call.fmt, p) /\ p \in Nat
        BY <2>2 DEF IInv, FormatInv, TypeOK
      <3> QED
        BY <2>2, <3>1, LoopFacts, ItemsFromStep
    <2>3. CASE pc = "width"
      <3>1. p = from + 2 \/ p = from + 3
        BY <2>3 DEF IInv, FormatInv
      <3>2. At(from + 3) # NUL /\ from \in Nat
        BY <2>3, WidthFacts, LoopFacts
      <3>3. from + 3 \in 1 .. Len(call.fmt)
        BY <2>3, <3>2, LoopFacts
      <3> QED
        BY <2>3, <3>1, <3>2, <3>3, LoopFacts
    <2>4. CASE pc = "switch"
      BY <2>4, SwitchFacts, LoopFacts
    <2> QED
      BY <2>1, <2>2, <2>3, <2>4 DEF IInv, TypeOK
  <1> DEFINE n == Len(tmp)
             A == Argument
             P == Pow(Base)
             size == IF pc = "hex" THEN HexTmp ELSE DecTmp
  <1>2. ASSUME pc \in {"udec", "hex"} PROVE n <= size
    <2>1. /\ n \in Nat /\ A \in Nat /\ A < 2 * IntMin /\ Least \in Nat \ {0}
          /\ \A j \in 1 .. n - 1 : j < Least \/ A >= P[j]
          /\ P \in [Nat -> Nat] /\ P[0] = 1
      <3>1. Base \in {10, 16} /\ A \in 0 .. 2 * IntMin - 1 /\ IntMin \in Nat
        BY <1>2, NumberFacts, SizesAssumption
      <3>2. P \in [Nat -> Nat] /\ P[0] = 1
        BY <3>1, PowProperties
      <3>3. A \in Nat /\ A < 2 * IntMin
        <4> HIDE DEF A
        <4> QED
          BY <3>1
      <3>4. /\ n \in Nat /\ Least \in Nat \ {0}
            /\ \A j \in 1 .. n - 1 : j < Least \/ A >= P[j]
        BY <1>2, NumberFacts
      <3> QED
        BY <3>2, <3>3, <3>4
    <2>2. size \in Nat /\ 2 * IntMin <= P[size] /\ IntMin \in Nat \ {0}
      BY <1>2, SizesAssumption DEF Pow, Base
    <2>3. size # 0
      <3> HIDE DEF size, P
      <3> QED
        BY <2>1, <2>2
    <2>4. Least <= size
      <3>1. Least = 1 \/ (pc = "hex" /\ Least = width)
        BY DEF Least
      <3>2. width <= HexTmp
        BY SizesAssumption DEF IInv, TypeOK
      <3>3. pc = "hex" => size = HexTmp
        OBVIOUS
      <3> HIDE DEF size
      <3> QED
        BY <2>2, <2>3, <3>1, <3>2, <3>3
    <2> HIDE DEF n, A, P, size
    <2>5. ASSUME n > size PROVE FALSE
      <3>1. size \in 1 .. n - 1
        BY <2>1, <2>2, <2>3, <2>5
      <3>2. size < Least \/ A >= P[size]
        BY <2>1, <3>1
      <3>3. P[size] \in Nat
        BY <2>1, <2>2
      <3> QED
        BY <2>1, <2>2, <2>4, <3>2, <3>3
    <2> QED
      BY <2>1, <2>2, <2>5
  <1> QED
    BY <1>1, <1>2 DEF StaysInBounds

(* rtt_printf reads no format beyond its NUL and writes no digit beyond    *)
(* the end of tmp, whatever the width of the integers: it is enough that   *)
(* tmp holds the digits of the largest one.                                *)
THEOREM RttFormatStaysInBounds == Spec => []StaysInBounds
  BY RttFormatInvariant, InvariantStays, PTL

(* Without a probe that drains it, a ring of any size cuts the end of a    *)
(* line off, and no character after the first lost one is stored.          *)
THEOREM RttFormatTrimsTheEnd == Spec => []TrimsTheEnd
  <1>1. IInv => TrimsTheEnd
    BY DEF IInv, TrimInv, TrimsTheEnd
  <1> QED
    BY <1>1, RttFormatInvariant, PTL

-----------------------------------------------------------------------------
(* The refinement.                                                         *)

LEMMA SameText ==
  /\ \A f, k : Documented!IsItem(f, k) <=> IsItem(f, k)
  /\ \A f, k : Documented!ItemLength(f, k) = ItemLength(f, k)
  /\ \A c, k : IsItem(c.fmt, k) => Documented!Text(c, k) = Text(c, k)
  <1>1. Documented!Pow10 = Pow10 /\ Documented!Pow16 = Pow16
    BY DEF Documented!Pow10, Documented!Pow16, Pow10, Pow16
  <1>2. \A b : Documented!Pow(b) = Pow(b)
    BY <1>1 DEF Documented!Pow, Pow
  <1>3. Documented!HexDigits = HexDigits
    BY DEF Documented!HexDigits, HexDigits
  <1>4. \A n, b, j : Documented!Digit(n, b, j) = Digit(n, b, j)
    BY <1>2, <1>3 DEF Documented!Digit, Digit
  <1>5. \A n, b, l : Documented!NumeralLength(n, b, l) = NumeralLength(n, b, l)
    BY <1>2 DEF Documented!NumeralLength, NumeralLength
  <1>6. \A n, b, l : Documented!Numeral(n, b, l) = Numeral(n, b, l)
    BY <1>4, <1>5 DEF Documented!Numeral, Numeral
  <1>7. \A n : Documented!SignedNumeral(n) = SignedNumeral(n)
    BY <1>6 DEF Documented!SignedNumeral, SignedNumeral
  <1>8. \A f, k : /\ Documented!IsLiteral(f, k) <=> IsLiteral(f, k)
                  /\ Documented!IsPlain(f, k) <=> IsPlain(f, k)
                  /\ Documented!IsPadded(f, k) <=> IsPadded(f, k)
                  /\ Documented!IsUnlisted(f, k) <=> IsUnlisted(f, k)
    BY <1>3 DEF Documented!IsLiteral, IsLiteral, Documented!IsPlain, IsPlain,
                Documented!IsPadded, IsPadded, Documented!IsUnlisted, IsUnlisted,
                Documented!Listed, Listed
  <1>9. \A f, k : Documented!PaddedTo(f, k) = PaddedTo(f, k)
    BY <1>3 DEF Documented!PaddedTo, PaddedTo
  <1>10. \A f, k : Documented!IsItem(f, k) <=> IsItem(f, k)
    BY <1>8 DEF Documented!IsItem, IsItem
  <1>11. \A f, k : Documented!ItemLength(f, k) = ItemLength(f, k)
    BY <1>8 DEF Documented!ItemLength, ItemLength
  <1>12. ASSUME NEW c, NEW k, IsItem(c.fmt, k)
         PROVE  Documented!Text(c, k) = Text(c, k)
    <2> DEFINE f == c.fmt
    <2>1. /\ IsPadded(f, k) => ~IsUnlisted(f, k) /\ ~IsPlain(f, k) /\ ~IsLiteral(f, k)
          /\ IsUnlisted(f, k) => ~IsPlain(f, k) /\ ~IsLiteral(f, k)
          /\ IsPlain(f, k) => ~IsLiteral(f, k)
      BY DEF IsPadded, IsUnlisted, IsPlain, IsLiteral, Listed
    <2>2. /\ Documented!IsLiteral(f, k) <=> IsLiteral(f, k)
          /\ Documented!IsPlain(f, k) <=> IsPlain(f, k)
          /\ Documented!IsPadded(f, k) <=> IsPadded(f, k)
          /\ Documented!IsUnlisted(f, k) <=> IsUnlisted(f, k)
          /\ Documented!PaddedTo(f, k) = PaddedTo(f, k)
      BY <1>8, <1>9
    <2>3. CASE IsLiteral(f, k)
      BY <2>1, <2>2, <2>3 DEF Documented!Text, Text
    <2>4. CASE IsPadded(f, k)
      <3>1. Documented!Text(c, k) = Documented!Numeral(c.num, 16, PaddedTo(f, k))
        BY <2>1, <2>2, <2>4 DEF Documented!Text
      <3>2. Text(c, k) = Numeral(c.num, 16, PaddedTo(f, k))
        BY <2>1, <2>4 DEF Text
      <3> QED
        BY <1>6, <3>1, <3>2
    <2>5. CASE IsUnlisted(f, k)
      BY <2>1, <2>2, <2>5 DEF Documented!Text, Text
    <2>6. CASE IsPlain(f, k)
      <3> DEFINE x == f[k + 1]
      <3>1. x \in {"s", "c", "%", "u", "d", "x"}
        BY <2>6 DEF IsPlain, Listed
      <3>2. Documented!Text(c, k) =
              CASE x = "s" -> c.str
                [] x = "c" -> <<c.chr>>
                [] x = "%" -> <<"%">>
                [] x = "u" -> Documented!Numeral(c.num, 10, 1)
                [] x = "d" -> Documented!SignedNumeral(c.num)
                [] x = "x" -> Documented!Numeral(c.num, 16, 1)
        BY <2>1, <2>2, <2>6 DEF Documented!Text
      <3>3. Text(c, k) =
              CASE x = "s" -> c.str
                [] x = "c" -> <<c.chr>>
                [] x = "%" -> <<"%">>
                [] x = "u" -> Numeral(c.num, 10, 1)
                [] x = "d" -> SignedNumeral(c.num)
                [] x = "x" -> Numeral(c.num, 16, 1)
        BY <2>1, <2>6 DEF Text
      <3>4. /\ Documented!Numeral(c.num, 10, 1) = Numeral(c.num, 10, 1)
            /\ Documented!Numeral(c.num, 16, 1) = Numeral(c.num, 16, 1)
            /\ Documented!SignedNumeral(c.num) = SignedNumeral(c.num)
        BY <1>6, <1>7, Zenon
      <3> HIDE DEF x
      <3> QED
        BY <3>1, <3>2, <3>3, <3>4
    <2> QED
      BY <1>12, <2>3, <2>4, <2>5, <2>6 DEF IsItem
  <1> QED
    BY <1>10, <1>11, <1>12

(* The abstract state.                                                     *)
place == IF pc \in {"width", "switch"} THEN from ELSE p
out == asked \o Passed(writes) \o ToCome

LEMMA PassedSeq ==
  ASSUME NEW ws \in Seq(Seq(Chars)), Singles(ws)
  PROVE  Passed(ws) \in Seq(Chars)
  <1>1. CASE Len(ws) = 1
    <2>1. ws[1] \in Seq(Chars)
      BY <1>1
    <2> QED
      BY <1>1, <2>1 DEF Passed
  <1>2. CASE Len(ws) # 1
    <2>1. Len(ws) \in Nat
      OBVIOUS
    <2>2. ASSUME NEW k \in 1 .. Len(ws) PROVE ws[k][1] \in Chars
      <3>1. Len(ws) > 1 /\ ws[k] \in Seq(Chars)
        <4>1. Len(ws) > 1
          <5> DEFINE n == Len(ws)
          <5>1. n \in Nat /\ n # 1 /\ k \in 1 .. n
            BY <1>2, <2>1
          <5> HIDE DEF n
          <5>2. n > 1
            BY <5>1
          <5> QED
            BY <5>2 DEF n
        <4>2. ws[k] \in Seq(Chars)
          BY ElementOfSeq
        <4> QED
          BY <4>1, <4>2
      <3>2. Len(ws[k]) = 1
        BY <3>1 DEF Singles
      <3> QED
        BY <3>1, <3>2
    <2> QED
      BY <1>2, <2>1, <2>2 DEF Passed
  <1> QED
    BY <1>1, <1>2

LEMMA AbstractTypes ==
  ASSUME IInv
  PROVE  /\ asked \in Seq(Chars) /\ writes \in Seq(Seq(Chars)) /\ Singles(writes)
         /\ Passed(writes) \in Seq(Chars) /\ ToCome \in Seq(Chars)
  <1>1. asked \in Seq(Chars) /\ writes \in Seq(Seq(Chars)) /\ Singles(writes)
    BY DEF IInv, TypeOK, WritesInv, Singles
  <1>2. Passed(writes) \in Seq(Chars)
    BY <1>1, PassedSeq
  <1>3. CASE pc \in {"udec", "hex"}
    <2>1. Base \in {10, 16} /\ Argument \in Nat /\ Least \in Nat \ {0}
      BY <1>3, NumberFacts, SizesAssumption
    <2>2. Numeral(Argument, Base, Least) \in Seq(Chars)
      BY <2>1, NumeralType
    <2> QED
      BY <1>1, <1>2, <1>3, <2>2 DEF ToCome
  <1>4. CASE pc \notin {"udec", "hex"}
    BY <1>1, <1>2, <1>4, EmptySeq DEF ToCome
  <1> QED
    BY <1>1, <1>2, <1>3, <1>4

(* Joining sequences of characters.                                        *)
LEMMA Join ==
  ASSUME NEW a \in Seq(Chars), NEW b \in Seq(Chars), NEW c \in Seq(Chars)
  PROVE  /\ (a \o b) \o c = a \o (b \o c) /\ a \o <<>> = a /\ <<>> \o a = a
         /\ a \o b \in Seq(Chars)
  BY ConcatAssociative, ConcatEmptySeq

LEMMA PassedStep ==
  ASSUME NEW ws \in Seq(Seq(Chars)), Singles(ws), ws # <<>>
  PROVE  Passed(ws) = Head(ws) \o Passed(Tail(ws))
  <1> DEFINE h == Head(ws)
             t == Tail(ws)
             n == Len(ws)
  <1>1. /\ n \in Nat /\ n > 0 /\ h \in Seq(Chars) /\ h = ws[1]
        /\ t \in Seq(Seq(Chars)) /\ Len(t) = n - 1
        /\ \A k \in 1 .. n - 1 : t[k] = ws[k + 1]
    BY HeadTailProperties
  <1>2. Passed(<<>>) = <<>>
    BY PassedOne
  <1>3. CASE n = 1
    <2>1. Passed(ws) = h
      BY <1>1, <1>3 DEF Passed
    <2> HIDE DEF h, t, n
    <2>2. Len(t) = 0
      BY <1>1, <1>3
    <2>3. t = <<>>
      BY <1>1, <2>2, EmptySeq
    <2>4. h = h \o Passed(t)
      BY <1>1, <1>2, <2>3, EmptySeq, Join
    <2> QED
      BY <2>1, <2>4 DEF h, t
  <1>4. CASE n > 1
    <2>1. \A k \in 1 .. n : Len(ws[k]) = 1 /\ ws[k] \in Seq(Chars) /\ ws[k][1] \in Chars
      BY <1>1, <1>4 DEF Singles
    <2>2. Passed(ws) = [k \in 1 .. n |-> ws[k][1]]
      BY <1>4 DEF Passed
    <2>3. Singles(t)
      <3> HIDE DEF t, n
      <3>1. \A k \in 1 .. Len(t) : k + 1 \in 1 .. n /\ k \in 1 .. n - 1
        BY <1>1
      <3>2. \A k \in 1 .. Len(t) : Len(t[k]) = 1
        BY <1>1, <2>1, <3>1
      <3> QED
        BY <3>2 DEF Singles
    <2> HIDE DEF h, t, n
    <2>4. /\ Passed(t) \in Seq(Chars) /\ Len(Passed(t)) = n - 1
          /\ \A k \in 1 .. n - 1 : Passed(t)[k] = ws[k + 1][1]
      <3>1. Passed(t) \in Seq(Chars)
        BY <1>1, <2>3, PassedSeq
      <3>2. CASE n - 1 = 1
        <4>1. Passed(t) = t[1] /\ t[1] = ws[2]
          BY <1>1, <3>2 DEF Passed
        <4>2. Len(ws[2]) = 1 /\ \A k \in 1 .. n - 1 : k = 1 /\ k + 1 = 2
          BY <1>1, <1>4, <2>1, <3>2
        <4> QED
          BY <3>1, <3>2, <4>1, <4>2
      <3>3. CASE n - 1 # 1
        <4>1. Passed(t) = [k \in 1 .. n - 1 |-> t[k][1]]
          BY <1>1, <3>3 DEF Passed
        <4>2. Len(Passed(t)) = n - 1
          BY <1>1, <4>1
        <4> QED
          BY <1>1, <3>1, <4>1, <4>2
      <3> QED
        BY <3>2, <3>3
    <2>5. Len(h) = 1 /\ h[1] = ws[1][1]
      BY <1>1, <1>4, <2>1
    <2>6. /\ h \o Passed(t) \in Seq(Chars) /\ Len(h \o Passed(t)) = n
          /\ (h \o Passed(t))[1] = ws[1][1]
          /\ \A k \in 1 .. n - 1 : (h \o Passed(t))[1 + k] = ws[k + 1][1]
      <3> DEFINE u == Passed(t)
      <3> HIDE DEF u
      <3>1. /\ u \in Seq(Chars) /\ Len(u) = n - 1
            /\ \A k \in 1 .. n - 1 : u[k] = ws[k + 1][1]
        BY <2>4 DEF u
      <3>2. /\ h \o u \in Seq(Chars) /\ Len(h \o u) = Len(h) + Len(u)
            /\ \A k \in 1 .. Len(h) : (h \o u)[k] = h[k]
            /\ \A k \in 1 .. Len(u) : (h \o u)[Len(h) + k] = u[k]
        BY <1>1, <3>1, ConcatElements
      <3>3. (h \o u)[1] = h[1]
        BY <2>5, <3>2
      <3>4. \A k \in 1 .. n - 1 : (h \o u)[1 + k] = u[k]
        <4>1. \A k \in 1 .. n - 1 : k \in 1 .. Len(u) /\ Len(h) + k = 1 + k
          BY <2>5, <3>1
        <4> QED
          BY <3>2, <4>1
      <3>5. Len(h \o u) = n
        BY <1>1, <2>5, <3>1, <3>2
      <3> QED
        BY <2>5, <3>1, <3>2, <3>3, <3>4, <3>5 DEF u
    <2>7. \A k \in 1 .. n : (h \o Passed(t))[k] = ws[k][1]
      <3>1. ASSUME NEW k \in 1 .. n, k # 1 PROVE (h \o Passed(t))[k] = ws[k][1]
        <4>1. k - 1 \in 1 .. n - 1 /\ 1 + (k - 1) = k /\ (k - 1) + 1 = k
          BY <1>1, <3>1
        <4> QED
          BY <2>6, <4>1
      <3> QED
        BY <2>6, <3>1
    <2>8. Passed(ws) \in Seq(Chars) /\ Len(Passed(ws)) = n
      <3>1. Passed(ws) \in Seq(Chars)
        BY PassedSeq
      <3> QED
        BY <1>1, <2>2, <3>1
    <2>9. \A k \in 1 .. n : Passed(ws)[k] = (h \o Passed(t))[k]
      BY <2>2, <2>7
    <2> DEFINE a == Passed(ws)
               b == h \o Passed(t)
    <2>10. /\ a \in Seq(Chars) /\ b \in Seq(Chars) /\ Len(a) = Len(b)
           /\ \A k \in 1 .. Len(a) : a[k] = b[k]
      BY <2>6, <2>8, <2>9
    <2> HIDE DEF a, b
    <2>11. a = b
      BY <2>10, SeqEqual
    <2> QED
      BY <2>11 DEF a, b, h, t
  <1> QED
    BY <1>1, <1>3, <1>4

LEMMA ItemStep ==
  ASSUME place > 0, IsItem(call.fmt, place), call' = call,
         out' = out \o Text(call, place),
         place' = place + ItemLength(call.fmt, place)
  PROVE  Documented!Next
  BY SameText DEF Documented!Next, Documented!Item, place, out

LEMMA HiddenStep ==
  ASSUME call' = call, place' = place, out' = out
  PROVE  UNCHANGED Documented!vars
  BY DEF Documented!vars, place, out

LEMMA InitMaps == Init => Documented!Init
  <1> SUFFICES ASSUME Init PROVE place = 0 /\ out = <<>>
    BY DEF Documented!Init, place, out
  <1>1. pc = "out" /\ p = 0 /\ writes = <<>> /\ asked = <<>>
    BY DEF Init
  <1>2. ToCome = <<>> /\ Passed(writes) = <<>>
    BY <1>1, PassedOne DEF ToCome
  <1> QED
    BY <1>1, <1>2, EmptySeq, Join DEF place, out

LEMMA CallMaps ==
  ASSUME IInv, NEW c \in Calls, rtt_printf(c)
  PROVE  Documented!Next
  <1>1. pc = "out" /\ call' = c /\ pc' = "loop" /\ p' = 1 /\ UNCHANGED <<writes, asked>>
    BY DEF rtt_printf, number, ring
  <1>2. p = 0 /\ writes = <<>> /\ asked = <<>>
    BY <1>1 DEF IInv, OutInv
  <1>3. ToCome' = <<>> /\ Passed(writes)' = <<>> /\ asked' = <<>>
    BY <1>1, <1>2, PassedOne DEF ToCome
  <1>4. out' = <<>>
    BY <1>3, EmptySeq, Join DEF out
  <1>5. place = 0 /\ place' = 1
    BY <1>1, <1>2 DEF place
  <1>6. Documented!Called
    BY <1>1, <1>4, <1>5 DEF Documented!Called, place, out
  <1> QED
    BY <1>6 DEF Documented!Next

LEMMA LiteralMaps ==
  ASSUME IInv, Literal
  PROVE  Documented!Next
  <1>1. /\ pc = "loop" /\ pc' = pc /\ writes = <<>> /\ p' = p + 1
        /\ UNCHANGED <<call, asked>>
    BY DEF Literal, number, ring
  <1>2. /\ p \in 1 .. Len(call.fmt) /\ IsItem(call.fmt, p) /\ IsLiteral(call.fmt, p)
        /\ ItemLength(call.fmt, p) = 1 /\ call.fmt[p] \in Chars
        /\ writes' = emit_char(call.fmt[p])
    BY LiteralKeeps
  <1>3. Passed(writes)' = <<call.fmt[p]>> /\ Passed(writes) = <<>>
    BY <1>1, <1>2, PassedOne
  <1>4. ToCome = <<>> /\ ToCome' = <<>>
    BY <1>1 DEF ToCome
  <1>5. Text(call, p) = <<call.fmt[p]>>
    BY <1>2 DEF Text, IsLiteral, IsPlain, IsPadded, IsUnlisted
  <1>6. <<call.fmt[p]>> \in Seq(Chars) /\ asked \in Seq(Chars)
    BY <1>2, CharWrite, AbstractTypes
  <1>7. out' = asked \o <<call.fmt[p]>> /\ out = asked
    BY <1>1, <1>3, <1>4, <1>6, EmptySeq, Join DEF out
  <1>8. place = p /\ place' = p + 1 /\ p > 0
    BY <1>1, <1>2 DEF place
  <1> QED
    BY <1>1, <1>2, <1>5, <1>7, <1>8, ItemStep

LEMMA WidthMaps ==
  ASSUME IInv, Percent \/ WidthDigit
  PROVE  UNCHANGED Documented!vars
  <1>1. /\ pc' \in {"width", "switch"} /\ UNCHANGED <<call, writes, asked>>
        /\ place' = place /\ pc \notin {"udec", "hex"}
    BY DEF Percent, WidthDigit, number, ring, place
  <1>2. ToCome = <<>> /\ ToCome' = <<>>
    BY <1>1 DEF ToCome
  <1>3. Passed(writes)' = Passed(writes)
    BY <1>1
  <1> QED
    BY <1>1, <1>2, <1>3, HiddenStep DEF out

LEMMA ConversionMaps ==
  ASSUME IInv, Conversion
  PROVE  Documented!Next
  <1> DEFINE t == Text(call, from)
  <1>1. PICK c : Switch(c) /\ (Emits(t) \/ StartsNumeral(t))
    BY ConversionEnds
  <1>2. /\ pc \in {"width", "switch"} /\ p' = p + 1 /\ UNCHANGED <<call, asked>>
    BY <1>1 DEF Switch, ring
  <1>3. /\ from \in 1 .. Len(call.fmt) /\ IsItem(call.fmt, from)
        /\ p + 1 = from + ItemLength(call.fmt, from)
    BY <1>1, ConversionPlace
  <1>4. writes = <<>> /\ Passed(writes) = <<>> /\ ToCome = <<>>
    BY <1>2, PassedOne DEF IInv, FormatInv, ToCome
  <1>5. asked \in Seq(Chars) /\ out = asked
    BY <1>4, AbstractTypes, EmptySeq, Join DEF out
  <1>6. /\ IInv' /\ asked' \in Seq(Chars) /\ Passed(writes)' \in Seq(Chars)
        /\ ToCome' \in Seq(Chars)
    <2>1. IInv'
      BY ConversionKeeps
    <2>2. (asked \in Seq(Chars) /\ Passed(writes) \in Seq(Chars) /\ ToCome \in Seq(Chars))'
      BY <2>1, AbstractTypes, PTL
    <2> QED
      BY <2>1, <2>2
  <1>7. out' = asked \o t /\ pc' \notin {"width", "switch"}
    <2>1. CASE Emits(t)
      <3>1. Passed(writes)' = t /\ pc' = "loop"
        BY <2>1 DEF Emits, Emit
      <3>2. ToCome' = <<>>
        BY <3>1 DEF ToCome
      <3> HIDE DEF t
      <3>3. t \in Seq(Chars)
        BY <1>6, <3>1
      <3>4. asked \o t \o <<>> = asked \o t
        BY <1>5, <3>3, Join
      <3>5. out' = asked \o t \o <<>>
        BY <1>2, <3>1, <3>2 DEF out
      <3> QED
        BY <3>1, <3>4, <3>5
    <2>2. CASE StartsNumeral(t)
      <3>1. t = Passed(writes)' \o ToCome' /\ pc' \in {"udec", "hex"}
        BY <2>2 DEF StartsNumeral, Starts
      <3> DEFINE a == Passed(writes)'
                 b == ToCome'
      <3> HIDE DEF a, b, t
      <3>2. a \in Seq(Chars) /\ b \in Seq(Chars) /\ t = a \o b
        BY <1>6, <3>1 DEF a, b
      <3>3. (asked \o a) \o b = asked \o (a \o b)
        BY <1>5, <3>2, Join
      <3>4. out' = (asked \o a) \o b
        BY <1>2 DEF out, a, b
      <3> QED
        BY <3>1, <3>2, <3>3, <3>4
    <2> QED
      BY <1>1, <2>1, <2>2
  <1>8. place = from /\ place' = from + ItemLength(call.fmt, from) /\ from > 0
    BY <1>2, <1>3, <1>7 DEF place
  <1> QED
    BY <1>2, <1>3, <1>5, <1>7, <1>8, ItemStep

LEMMA DigitMaps ==
  ASSUME IInv, FoundDigit \/ Pad
  PROVE  UNCHANGED Documented!vars
  <1>1. UNCHANGED <<call, pc, p, width, writes, from, asked>>
    BY DEF FoundDigit, Pad, ring
  <1>2. ToCome' = ToCome
    BY <1>1 DEF ToCome, Argument, Base, Least, At
  <1>3. Passed(writes)' = Passed(writes) /\ place' = place
    BY <1>1 DEF place
  <1> QED
    BY <1>1, <1>2, <1>3, HiddenStep DEF out

LEMMA EmitDigitsMaps ==
  ASSUME IInv, EmitDigits
  PROVE  UNCHANGED Documented!vars
  <1> DEFINE N == Numeral(Argument, Base, Least)
             n == Len(tmp)
             ws == Backwards(tmp)
  <1>1. /\ pc \in {"udec", "hex"} /\ pc' = "loop" /\ writes = <<>> /\ writes' = ws
        /\ UNCHANGED <<call, p, asked>>
    BY DEF EmitDigits, ring
  <1>2. /\ tmp \in Seq(Chars) /\ n \in Nat /\ tmp # <<>> /\ N \in Seq(Chars) /\ Len(N) = n
        /\ \A k \in 1 .. n : N[k] = tmp[n + 1 - k]
    BY <1>1, NumberFacts, DigitsAreNumeral
  <1>3. /\ ws \in Seq(Seq(Chars)) /\ Len(ws) = n
        /\ \A k \in 1 .. n : /\ ws[k] = <<tmp[n + 1 - k]>> /\ Len(ws[k]) = 1
                             /\ ws[k][1] = tmp[n + 1 - k]
    BY <1>2, BackwardsType
  <1>4. Passed(ws) = N
    <2> HIDE DEF N, ws, n
    <2>1. CASE n = 1
      <3>1. Passed(ws) = ws[1] /\ ws[1] = <<tmp[n + 1 - 1]>>
        BY <1>3, <2>1 DEF Passed
      <3>2. ws[1] \in Seq(Chars) /\ Len(ws[1]) = 1 /\ ws[1][1] = N[1]
        BY <1>2, <1>3, <2>1
      <3>3. \A k \in 1 .. Len(ws[1]) : ws[1][k] = N[k]
        BY <3>2
      <3>4. ws[1] = N
        BY <1>2, <2>1, <3>2, <3>3, SeqEqual
      <3> QED
        BY <3>1, <3>4
    <2>2. CASE n # 1
      <3>1. Passed(ws) = [k \in 1 .. n |-> ws[k][1]]
        BY <1>3, <2>2 DEF Passed
      <3>2. Singles(ws)
        BY <1>3 DEF Singles
      <3>3. Passed(ws) \in Seq(Chars)
        BY <1>3, <3>2, PassedSeq
      <3>4. Len(Passed(ws)) = n
        BY <1>2, <3>1
      <3>5. \A k \in 1 .. n : Passed(ws)[k] = N[k]
        BY <1>2, <1>3, <3>1
      <3> DEFINE a == Passed(ws)
      <3>6. a \in Seq(Chars) /\ Len(a) = n /\ \A k \in 1 .. n : a[k] = N[k]
        BY <3>3, <3>4, <3>5
      <3> HIDE DEF a
      <3>7. a = N
        BY <1>2, <3>6, SeqEqual
      <3> QED
        BY <3>7 DEF a
    <2> QED
      BY <2>1, <2>2
  <1>5. ToCome = N /\ ToCome' = <<>>
    BY <1>1 DEF ToCome
  <1>6. Passed(writes) = <<>> /\ Passed(writes)' = N
    BY <1>1, <1>4, PassedOne
  <1>7. asked \in Seq(Chars)
    BY AbstractTypes
  <1> HIDE DEF N
  <1>8. out = asked \o N /\ out' = asked \o N
    <2>1. out = (asked \o <<>>) \o N /\ out' = (asked \o N) \o <<>>
      BY <1>1, <1>5, <1>6 DEF out
    <2>2. N \in Seq(Chars) /\ asked \o N \in Seq(Chars)
      BY <1>2, <1>7, Join
    <2>3. asked \o <<>> = asked /\ (asked \o N) \o <<>> = asked \o N
      BY <1>7, <2>2, ConcatEmptySeq
    <2> QED
      BY <2>1, <2>3
  <1>9. place' = place
    BY <1>1 DEF place
  <1> QED
    BY <1>1, <1>8, <1>9, HiddenStep

LEMMA WriteMaps ==
  ASSUME IInv, rtt_write
  PROVE  UNCHANGED Documented!vars
  <1> DEFINE h == Head(writes)
             r == Passed(Tail(writes))
  <1>1. UNCHANGED <<call, pc, p, width, v, tmp, from>>
    BY DEF rtt_write, number
  <1>2. /\ h \in Seq(Chars) /\ asked' = asked \o h /\ writes' = Tail(writes)
        /\ writes # <<>> /\ IInv'
    BY WriteKeeps
  <1>3. /\ asked \in Seq(Chars) /\ ToCome \in Seq(Chars)
        /\ Passed(writes) = h \o r /\ Passed(writes)' = r
    BY <1>2, AbstractTypes, PassedStep
  <1>4. r \in Seq(Chars)
    <2>1. (Passed(writes) \in Seq(Chars))'
      BY <1>2, AbstractTypes, PTL
    <2> QED
      BY <1>3, <2>1
  <1>5. ToCome' = ToCome
    BY <1>1 DEF ToCome, Argument, Base, Least, At
  <1> DEFINE c == ToCome
  <1>6. out = asked \o (h \o r) \o c /\ out' = (asked \o h) \o r \o c
    BY <1>2, <1>3, <1>5 DEF out
  <1> HIDE DEF h, r, c
  <1>7. (asked \o h) \o r = asked \o (h \o r)
    <2>1. asked \in Seq(Chars) /\ h \in Seq(Chars) /\ r \in Seq(Chars)
      BY <1>2, <1>3, <1>4
    <2> QED
      BY <2>1, Join
  <1>8. place' = place
    BY <1>1 DEF place
  <1> QED
    BY <1>1, <1>6, <1>7, <1>8, HiddenStep

LEMMA ReturnMaps ==
  ASSUME IInv, Return
  PROVE  Documented!Next
  <1>1. /\ pc = "loop" /\ At(p) = NUL /\ writes = <<>> /\ writes' = writes
        /\ pc' = "out" /\ p' = 0 /\ asked' = <<>>
    BY DEF Return
  <1>2. p \in 1 .. Len(call.fmt) + 1
    <2>1. ItemsFrom(call.fmt, p) /\ p \in Nat
      BY <1>1 DEF IInv, FormatInv, TypeOK
    <2> QED
      BY <1>1, <2>1, LoopFacts, ItemsFromStep
  <1>3. p = Len(call.fmt) + 1
    BY <1>1, <1>2, LoopFacts
  <1>4. ToCome' = <<>> /\ Passed(writes)' = <<>>
    BY <1>1, PassedOne DEF ToCome
  <1>5. out' = <<>>
    BY <1>1, <1>4, EmptySeq, Join DEF out
  <1>6. place = p /\ place' = 0
    BY <1>1 DEF place
  <1>7. Documented!Returned
    BY <1>3, <1>5, <1>6 DEF Documented!Returned, place, out
  <1> QED
    BY <1>7 DEF Documented!Next

LEMMA ProbeMaps ==
  ASSUME Probe \/ UNCHANGED vars
  PROVE  UNCHANGED Documented!vars
  <1>1. UNCHANGED <<call, pc, p, width, writes, from, asked>>
    BY DEF Probe, vars, number
  <1>2. ToCome' = ToCome
    BY <1>1 DEF ToCome, Argument, Base, Least, At
  <1>3. Passed(writes)' = Passed(writes) /\ place' = place
    BY <1>1 DEF place
  <1> QED
    BY <1>1, <1>2, <1>3, HiddenStep DEF out

(* rtt_printf asks rtt_write for what rtt.h says: of each item of the      *)
(* format its text, in the order of the format, for every number of every  *)
(* width, and whatever the ring takes of it.                               *)
THEOREM RttFormatDocumentedOutput == Spec => DocumentedOutput
  <1>1. IInv /\ [Next]_vars => [Documented!Next]_(Documented!vars)
    <2> SUFFICES ASSUME IInv, [Next]_vars
                 PROVE  Documented!Next \/ UNCHANGED Documented!vars
      OBVIOUS
    <2>1. CASE \E c \in Calls : rtt_printf(c)
      BY <2>1, CallMaps
    <2>2. CASE Literal \/ Percent \/ WidthDigit \/ Conversion
      BY <2>2, LiteralMaps, WidthMaps, ConversionMaps
    <2>3. CASE FoundDigit \/ Pad \/ EmitDigits
      BY <2>3, DigitMaps, EmitDigitsMaps
    <2>4. CASE rtt_write \/ Return \/ Probe \/ UNCHANGED vars
      BY <2>4, WriteMaps, ReturnMaps, ProbeMaps
    <2> QED
      BY <2>1, <2>2, <2>3, <2>4 DEF Next
  <1> QED
    BY <1>1, InitMaps, RttFormatInvariant, PTL
    DEF Spec, DocumentedOutput, Documented!Spec


=============================================================================
