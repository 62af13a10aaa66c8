---------------------------- MODULE BleAdvProof ----------------------------
(***************************************************************************)
(* Proofs about BleAdv, for every set of names of at most MaxName bytes,   *)
(* of device addresses and of counters, and every hash; and about the      *)
(* blocks in which the two programs hash a message.                        *)
(***************************************************************************)
EXTENDS BleAdv, SequenceTheorems, TLAPS

N == Len(name)

(* The AD structure that Manufacturer puts into the PDU, and its tag.      *)
Tag == auth_compute_tag(mac, BEACON_VERSION, counter)
Structure ==
  <<12, 255, BEACON_COMPANY_ID % 256, BEACON_COMPANY_ID \div 256, BEACON_VERSION>>
    \o LE32(counter) \o Tag

(* The index at each place, and what has been written when it is reached.  *)
IndexIs ==
  /\ pc = "adva" => i = 2
  /\ pc = "flags" => i = 8
  /\ pc = "name" => i = 11
  /\ pc = "manufacturer" => i = 13 + N
  /\ pc \in {"length", "built"} => i = 26 + N

AddressRead == pc # "boot" => mac = Address(addr)

CounterTaken == pc \notin {"boot", "loop"} => counter \in Counters

WroteAdvA ==
  pc \in {"flags", "name", "manufacturer", "length", "built"} =>
    \A k \in 1 .. 6 : s_pdu[k + 1] = mac[k]
WroteFlags ==
  pc \in {"name", "manufacturer", "length", "built"} =>
    s_pdu[8] = 2 /\ s_pdu[9] = 1
WroteName ==
  pc \in {"manufacturer", "length", "built"} =>
    /\ s_pdu[11] = 1 + N /\ s_pdu[12] = 9
    /\ \A k \in 1 .. N : s_pdu[12 + k] = name[k]
WroteManufacturer ==
  pc \in {"length", "built"} =>
    \A k \in 1 .. 13 : s_pdu[12 + N + k] = Structure[k]
WroteLength == pc = "built" => s_pdu[1] = 24 + N

IInv ==
  /\ TypeOK /\ IndexIs /\ AddressRead /\ CounterTaken
  /\ WroteAdvA /\ WroteFlags /\ WroteName /\ WroteManufacturer /\ WroteLength

-----------------------------------------------------------------------------
LEMMA NameLength ==
  ASSUME TypeOK
  PROVE  N \in 0 .. 13 /\ name \in Seq(Byte)
<1>1. name \in Names
  BY DEF TypeOK
<1>2. name \in Seq(Byte) /\ Len(name) <= MaxName
  BY <1>1, NamesAssumption
<1>3. N \in Nat /\ N <= MaxName
  BY <1>2 DEF N
<1> QED  BY <1>2, <1>3 DEF MaxName, BLE_PDU_MAX

LEMMA LE32Bytes ==
  ASSUME NEW c \in Nat
  PROVE  LE32(c) \in Seq(Byte) /\ Len(LE32(c)) = 4
<1>1. /\ c % 256 \in Byte /\ (c \div 256) % 256 \in Byte
      /\ (c \div 65536) % 256 \in Byte /\ (c \div 16777216) % 256 \in Byte
  BY DEF Byte
<1> QED  BY <1>1 DEF LE32

LEMMA SequenceIsFunction ==
  ASSUME NEW S, NEW s \in Seq(S)
  PROVE  s \in [1 .. Len(s) -> S]
OBVIOUS

LEMMA FunctionIsSequence ==
  ASSUME NEW S, NEW n \in Nat, NEW s \in [1 .. n -> S]
  PROVE  s \in Seq(S) /\ Len(s) = n
OBVIOUS

LEMMA AddressBytes ==
  ASSUME NEW a \in DeviceAddrs
  PROVE  Address(a) \in [1 .. 6 -> Byte] /\ Address(a) \in Seq(Byte)
         /\ Len(Address(a)) = 6 /\ Address(a)[6] \in 192 .. 255
<1>1. a \in [1 .. 8 -> Byte]  BY InputsAssumption
<1>2. /\ a[1] \in Byte /\ a[2] \in Byte /\ a[3] \in Byte /\ a[4] \in Byte
      /\ a[5] \in Byte /\ OrC0(a[6]) \in 192 .. 255
  BY <1>1 DEF OrC0, Byte
<1>3. OrC0(a[6]) \in Byte
  BY <1>2 DEF Byte
<1> HIDE DEF Byte
<1>4. Address(a) \in Seq(Byte) /\ Len(Address(a)) = 6
  BY <1>2, <1>3 DEF Address
<1>5. Address(a)[6] = OrC0(a[6])
  BY DEF Address
<1>6. Address(a) \in [1 .. 6 -> Byte]
  BY ONLY <1>4, SequenceIsFunction
<1>7. Address(a)[6] \in 192 .. 255
  BY ONLY <1>2, <1>5
<1> QED  BY ONLY <1>4, <1>6, <1>7

LEMMA IndexRange ==
  ASSUME NEW j \in 0 .. BLE_PDU_MAX, NEW n \in Nat, j + n <= BLE_PDU_MAX,
         NEW k \in 1 .. n
  PROVE  /\ j + k - 1 \in Buffer /\ j + k - 1 \in j .. j + n - 1
         /\ (j + k - 1) - j + 1 = k
  BY DEF Buffer, BLE_PDU_MAX

(* One section: its bytes are put behind the others, which stay.           *)
LEMMA PutBytes ==
  ASSUME TypeOK, NEW bs \in Seq(Byte), NEW n, Len(bs) = n, i + n <= BLE_PDU_MAX,
         Put(bs)
  PROVE  /\ i' = i + n /\ i' \in 0 .. BLE_PDU_MAX
         /\ s_pdu' \in [Buffer -> Byte]
         /\ \A k \in 1 .. n : s_pdu'[i + k - 1] = bs[k]
         /\ \A k \in Buffer : k < i => s_pdu'[k] = s_pdu[k]
<1>1. n \in Nat
  OBVIOUS
<1>2. \A k \in 1 .. n : bs[k] \in Byte
  OBVIOUS
<1>3. /\ i' = i + n
      /\ s_pdu' = [k \in Buffer |-> IF k \in i .. i + n - 1
                                     THEN bs[k - i + 1] ELSE s_pdu[k]]
  BY DEF Put
<1>4. i \in 0 .. BLE_PDU_MAX /\ s_pdu \in [Buffer -> Byte]
  BY DEF TypeOK
<1>5. s_pdu' \in [Buffer -> Byte]
  BY <1>1, <1>2, <1>3, <1>4
<1>6. ASSUME NEW k \in 1 .. n  PROVE  s_pdu'[i + k - 1] = bs[k]
  <2>1. i + k - 1 \in Buffer /\ i + k - 1 \in i .. i + n - 1
        /\ (i + k - 1) - i + 1 = k
    BY <1>1, <1>4, IndexRange
  <2> QED  BY <2>1, <1>3
<1>7. \A k \in Buffer : k < i => s_pdu'[k] = s_pdu[k]
  BY <1>1, <1>3, <1>4 DEF Buffer, BLE_PDU_MAX
<1>8. i' = i + n /\ i' \in 0 .. BLE_PDU_MAX
  BY <1>1, <1>3, <1>4 DEF BLE_PDU_MAX
<1> QED  BY <1>5, <1>6, <1>7, <1>8

LEMMA InitHolds == Init => IInv
  BY DEF Init, IInv, TypeOK, Places, Zeroed, Buffer, Byte, BLE_PDU_MAX, IndexIs,
         AddressRead, CounterTaken, WroteAdvA, WroteFlags, WroteName,
         WroteManufacturer, WroteLength

(* What a section leaves in place: the sections before it, which lie below *)
(* the index.                                                              *)
LEMMA SectionKeeps ==
  ASSUME IInv, NEW from, NEW bs \in Seq(Byte), NEW to \in Places,
         i + Len(bs) <= BLE_PDU_MAX, Section(from, bs, to)
  PROVE  /\ TypeOK' /\ N' = N /\ i' = i + Len(bs)
         /\ mac' = mac /\ addr' = addr /\ counter' = counter
         /\ \A k \in 1 .. Len(bs) : s_pdu'[i + k - 1] = bs[k]
         /\ \A k \in Buffer : k < i => s_pdu'[k] = s_pdu[k]
<1> DEFINE n == Len(bs)
<1>0. n = Len(bs)
  OBVIOUS
<1> HIDE DEF n
<1>1. /\ i' = i + n /\ i' \in 0 .. BLE_PDU_MAX
      /\ s_pdu' \in [Buffer -> Byte]
      /\ \A k \in 1 .. n : s_pdu'[i + k - 1] = bs[k]
      /\ \A k \in Buffer : k < i => s_pdu'[k] = s_pdu[k]
  BY <1>0, PutBytes DEF IInv, Section
<1>2. /\ name' = name /\ addr' = addr /\ mac' = mac /\ counter' = counter /\ pc' = to
  BY DEF Section
<1>3. TypeOK'
  BY <1>1, <1>2 DEF IInv, TypeOK
<1>4. N' = N
  BY <1>2 DEF N
<1> QED  BY ONLY <1>0, <1>1, <1>2, <1>3, <1>4

(* Concatenation, kept apart from the provers' own rules for it.           *)
Cat(s, t) == s \o t

LEMMA Concat ==
  ASSUME NEW S, NEW s \in Seq(S), NEW t \in Seq(S), NEW m \in Nat, NEW n \in Nat,
         Len(s) = m, Len(t) = n
  PROVE  /\ Cat(s, t) \in Seq(S) /\ Len(Cat(s, t)) = m + n
         /\ \A k \in 1 .. m : Cat(s, t)[k] = s[k]
         /\ \A k \in 1 .. n : Cat(s, t)[m + k] = t[k]
<1>1. /\ Cat(s, t) \in Seq(S) /\ Len(Cat(s, t)) = Len(s) + Len(t)
      /\ \A k \in 1 .. Len(s) + Len(t) :
           Cat(s, t)[k] = IF k <= Len(s) THEN s[k] ELSE t[k - Len(s)]
  BY ConcatProperties DEF Cat
<1>2. /\ Cat(s, t) \in Seq(S) /\ Len(Cat(s, t)) = m + n
      /\ \A k \in 1 .. m + n : Cat(s, t)[k] = IF k <= m THEN s[k] ELSE t[k - m]
  BY <1>1
<1>3. ASSUME NEW k \in 1 .. m  PROVE  Cat(s, t)[k] = s[k]
  <2>1. k \in 1 .. m + n /\ k <= m
    BY ONLY m \in Nat, n \in Nat, k \in 1 .. m
  <2> QED  BY ONLY <2>1, <1>2
<1>4. ASSUME NEW k \in 1 .. n  PROVE  Cat(s, t)[m + k] = t[k]
  <2>1. m + k \in 1 .. m + n /\ ~(m + k <= m) /\ (m + k) - m = k
    BY ONLY m \in Nat, n \in Nat, k \in 1 .. n
  <2> QED  BY ONLY <2>1, <1>2
<1> QED  BY <1>2, <1>3, <1>4

LEMMA ConcatThree ==
  ASSUME NEW S, NEW h \in Seq(S), NEW l \in Seq(S), NEW t \in Seq(S),
         NEW m \in Nat, NEW n \in Nat, NEW o \in Nat,
         Len(h) = m, Len(l) = n, Len(t) = o
  PROVE  /\ Cat(Cat(h, l), t) \in Seq(S) /\ Len(Cat(Cat(h, l), t)) = m + n + o
         /\ \A k \in 1 .. m : Cat(Cat(h, l), t)[k] = h[k]
         /\ \A k \in 1 .. n : Cat(Cat(h, l), t)[m + k] = l[k]
         /\ \A k \in 1 .. o : Cat(Cat(h, l), t)[m + n + k] = t[k]
<1> DEFINE hl == Cat(h, l)
           hlt == Cat(hl, t)
<1>1. /\ hl \in Seq(S) /\ Len(hl) = m + n
      /\ \A k \in 1 .. m : hl[k] = h[k]
      /\ \A k \in 1 .. n : hl[m + k] = l[k]
  BY Concat
<1>2. m + n \in Nat
  BY ONLY m \in Nat, n \in Nat
<1> HIDE DEF hl
<1>3. /\ hlt \in Seq(S) /\ Len(hlt) = (m + n) + o
      /\ \A k \in 1 .. m + n : hlt[k] = hl[k]
      /\ \A k \in 1 .. o : hlt[(m + n) + k] = t[k]
  BY <1>1, <1>2, Concat
<1>4. hlt = Cat(Cat(h, l), t)
  BY DEF hl
<1> HIDE DEF hlt
<1>5. ASSUME NEW k \in 1 .. m  PROVE  hlt[k] = h[k]
  <2>1. k \in 1 .. m + n
    BY ONLY m \in Nat, n \in Nat, k \in 1 .. m
  <2> QED  BY ONLY <2>1, <1>1, <1>3, k \in 1 .. m
<1>6. ASSUME NEW k \in 1 .. n  PROVE  hlt[m + k] = l[k]
  <2>1. m + k \in 1 .. m + n
    BY ONLY m \in Nat, n \in Nat, k \in 1 .. n
  <2> QED  BY ONLY <2>1, <1>1, <1>3, k \in 1 .. n
<1> QED  BY ONLY <1>3, <1>4, <1>5, <1>6

LEMMA TagBytes ==
  ASSUME TypeOK, AddressRead, pc # "boot", counter \in Counters
  PROVE  Tag \in Seq(Byte) /\ Len(Tag) = 4
<1> DEFINE h == siphash24(Message(mac, BEACON_VERSION, counter))
<1>1. h \in [1 .. 8 -> Byte]
  BY HashAssumption DEF TypeOK, AddressRead
<1>2. Tag = <<h[1], h[2], h[3], h[4]>>
  BY DEF Tag, auth_compute_tag, Truncated
<1> HIDE DEF h
<1>3. h[1] \in Byte /\ h[2] \in Byte /\ h[3] \in Byte /\ h[4] \in Byte
  BY ONLY <1>1
<1> QED  BY ONLY <1>2, <1>3

LEMMA ManufacturerBytes ==
  ASSUME TypeOK, AddressRead, pc # "boot", counter \in Counters
  PROVE  /\ Structure \in Seq(Byte) /\ Len(Structure) = 13
         /\ Structure[1] = 12 /\ Structure[2] = 255 /\ Structure[3] = 255
         /\ Structure[4] = 255 /\ Structure[5] = 1
         /\ \A k \in 1 .. 4 : Structure[5 + k] = LE32(counter)[k]
         /\ \A k \in 1 .. 4 : Structure[9 + k] = Tag[k]
<1> DEFINE head == <<12, 255, BEACON_COMPANY_ID % 256, BEACON_COMPANY_ID \div 256,
                     BEACON_VERSION>>
<1>1. /\ BEACON_COMPANY_ID % 256 = 255 /\ BEACON_COMPANY_ID \div 256 = 255
      /\ 12 \in Byte /\ 255 \in Byte /\ 1 \in Byte
  BY DEF BEACON_COMPANY_ID, Byte
<1>2. /\ head \in Seq(Byte) /\ Len(head) = 5
      /\ head[1] = 12 /\ head[2] = 255 /\ head[3] = 255 /\ head[4] = 255 /\ head[5] = 1
  BY <1>1 DEF BEACON_VERSION
<1>3. LE32(counter) \in Seq(Byte) /\ Len(LE32(counter)) = 4
  BY LE32Bytes, InputsAssumption
<1>4. Tag \in Seq(Byte) /\ Len(Tag) = 4
  BY TagBytes
<1>5. Structure = Cat(Cat(head, LE32(counter)), Tag)
  BY DEF Structure, Cat
<1> HIDE DEF head
<1> DEFINE Holds(m, n, o) ==
      /\ Structure \in Seq(Byte) /\ Len(Structure) = m + n + o
      /\ \A k \in 1 .. m : Structure[k] = head[k]
      /\ \A k \in 1 .. n : Structure[m + k] = LE32(counter)[k]
      /\ \A k \in 1 .. o : Structure[m + n + k] = Tag[k]
<1>6. ASSUME NEW m \in Nat, NEW n \in Nat, NEW o \in Nat,
             Len(head) = m, Len(LE32(counter)) = n, Len(Tag) = o
      PROVE  Holds(m, n, o)
  <2>1. head \in Seq(Byte) /\ LE32(counter) \in Seq(Byte) /\ Tag \in Seq(Byte)
    BY ONLY <1>2, <1>3, <1>4
  <2> QED  BY ONLY <1>5, <1>6, <2>1, ConcatThree, m \in Nat, n \in Nat, o \in Nat
<1> HIDE DEF Holds
<1>7. Holds(5, 4, 4)
  BY ONLY <1>2, <1>3, <1>4, <1>6
<1> QED  BY ONLY <1>2, <1>7 DEF Holds

LEMMA NameBytes ==
  ASSUME TypeOK, NEW bs, bs = <<1 + Len(name), 9>> \o name
  PROVE  /\ bs \in Seq(Byte) /\ Len(bs) = 2 + N
         /\ bs[1] = 1 + N /\ bs[2] = 9
         /\ \A k \in 1 .. N : bs[k + 2] = name[k]
<1>1. N \in 0 .. 13 /\ name \in Seq(Byte)
  BY NameLength
<1>2. 1 + N \in Byte /\ 9 \in Byte
  BY <1>1 DEF Byte
<1>3. bs = <<1 + N, 9>> \o name
  BY DEF N
<1>4. /\ <<1 + N, 9>> \in Seq(Byte) /\ Len(<<1 + N, 9>>) = 2
      /\ <<1 + N, 9>>[1] = 1 + N /\ <<1 + N, 9>>[2] = 9
  BY <1>2
<1>5. /\ bs \in Seq(Byte) /\ Len(bs) = 2 + Len(name)
      /\ bs[1] = 1 + N /\ bs[2] = 9
      /\ \A k \in 1 .. Len(name) : bs[k + 2] = name[k]
  BY <1>1, <1>3, <1>4
<1> QED  BY <1>5 DEF N

-----------------------------------------------------------------------------
(* The steps.                                                              *)

LEMMA CallKeeps ==
  ASSUME IInv, NEW c \in Counters, ble_build_adv(c)
  PROVE  IInv'
<1>1. /\ pc = "loop" /\ pc' = "adva" /\ i' = 2 /\ counter' = c
      /\ name' = name /\ addr' = addr /\ mac' = mac
      /\ s_pdu' = [s_pdu EXCEPT ![0] = 66]
  BY DEF ble_build_adv, ADV_NONCONN_IND_HEADER
<1>2. s_pdu' \in [Buffer -> Byte]
  <2>1. s_pdu \in [Buffer -> Byte]
    BY DEF IInv, TypeOK
  <2>2. 66 \in Byte
    BY ONLY TRUE DEF Byte
  <2> QED  BY ONLY <1>1, <2>1, <2>2
<1>3. TypeOK'
  <2>1. name \in Names /\ addr \in DeviceAddrs /\ mac \in [1 .. 6 -> Byte]
    BY DEF IInv, TypeOK
  <2>2. "adva" \in Places /\ 2 \in 0 .. BLE_PDU_MAX
    BY ONLY TRUE DEF Places, BLE_PDU_MAX
  <2> QED  BY ONLY <1>1, <1>2, <2>1, <2>2, c \in Counters DEF TypeOK
<1>4. IndexIs' /\ CounterTaken'
  BY ONLY <1>1, c \in Counters DEF IndexIs, CounterTaken
<1>5. AddressRead'
  BY <1>1 DEF IInv, AddressRead
<1>6. WroteAdvA' /\ WroteFlags' /\ WroteName' /\ WroteManufacturer' /\ WroteLength'
  BY ONLY <1>1 DEF WroteAdvA, WroteFlags, WroteName, WroteManufacturer, WroteLength
<1> QED  BY ONLY <1>3, <1>4, <1>5, <1>6 DEF IInv

LEMMA AdvAKeeps == ASSUME IInv, AdvA  PROVE  IInv'
<1>1. mac \in Seq(Byte) /\ Len(mac) = 6
  BY AddressBytes DEF IInv, TypeOK, AddressRead, AdvA, Section
<1>2. pc = "adva" /\ pc' = "flags" /\ i = 2 /\ Section("adva", mac, "flags")
  BY DEF AdvA, Section, IInv, IndexIs
<1>3. "flags" \in Places /\ i + Len(mac) <= BLE_PDU_MAX
  BY <1>1, <1>2 DEF Places, BLE_PDU_MAX
<1>4. /\ TypeOK' /\ i' = i + Len(mac) /\ mac' = mac
      /\ addr' = addr /\ counter' = counter
      /\ \A k \in 1 .. Len(mac) : s_pdu'[i + k - 1] = mac[k]
  BY ONLY IInv, <1>1, <1>2, <1>3, SectionKeeps
<1>5. \A k \in 1 .. 6 : s_pdu'[k + 1] = mac[k]
  <2>1. ASSUME NEW k \in 1 .. 6  PROVE  i + k - 1 = k + 1 /\ k \in 1 .. Len(mac)
    BY ONLY <1>1, <1>2, k \in 1 .. 6
  <2> QED  BY <1>4, <2>1
<1>6. WroteAdvA'
  BY ONLY <1>4, <1>5 DEF WroteAdvA
<1>7. IndexIs'
  BY ONLY <1>1, <1>2, <1>4 DEF IndexIs
<1>8. AddressRead' /\ CounterTaken'
  BY <1>2, <1>4 DEF IInv, AddressRead, CounterTaken
<1>9. WroteFlags' /\ WroteName' /\ WroteManufacturer' /\ WroteLength'
  BY ONLY <1>2 DEF WroteFlags, WroteName, WroteManufacturer, WroteLength
<1> QED  BY ONLY <1>4, <1>6, <1>7, <1>8, <1>9 DEF IInv

LEMMA FlagsKeeps == ASSUME IInv, Flags  PROVE  IInv'
<1> DEFINE bs == <<2, 1, 6>>
<1>1. bs \in Seq(Byte) /\ Len(bs) = 3 /\ bs[1] = 2 /\ bs[2] = 1
  BY DEF Byte
<1>2. pc = "flags" /\ pc' = "name" /\ i = 8 /\ Section("flags", bs, "name")
  BY DEF Flags, Section, IInv, IndexIs
<1> HIDE DEF bs
<1>3. "name" \in Places /\ i + Len(bs) <= BLE_PDU_MAX
  BY <1>1, <1>2 DEF Places, BLE_PDU_MAX
<1>4. /\ TypeOK' /\ i' = i + Len(bs) /\ mac' = mac
      /\ addr' = addr /\ counter' = counter
      /\ \A k \in 1 .. Len(bs) : s_pdu'[i + k - 1] = bs[k]
      /\ \A k \in Buffer : k < i => s_pdu'[k] = s_pdu[k]
  BY ONLY IInv, <1>1, <1>2, <1>3, SectionKeeps
<1>5. WroteAdvA'
  BY <1>2, <1>4 DEF IInv, WroteAdvA, Buffer, BLE_PDU_MAX
<1>6. s_pdu'[8] = 2 /\ s_pdu'[9] = 1
  <2>1. /\ 1 \in 1 .. Len(bs) /\ 2 \in 1 .. Len(bs)
        /\ i + 1 - 1 = 8 /\ i + 2 - 1 = 9
    BY ONLY <1>1, <1>2
  <2> QED  BY ONLY <2>1, <1>1, <1>4
<1>7. IndexIs'
  BY ONLY <1>1, <1>2, <1>4 DEF IndexIs
<1>8. AddressRead' /\ CounterTaken'
  BY <1>2, <1>4 DEF IInv, AddressRead, CounterTaken
<1>9. WroteFlags' /\ WroteName' /\ WroteManufacturer' /\ WroteLength'
  BY ONLY <1>2, <1>6 DEF WroteFlags, WroteName, WroteManufacturer, WroteLength
<1> QED  BY ONLY <1>4, <1>5, <1>7, <1>8, <1>9 DEF IInv

LEMMA NameKeeps == ASSUME IInv, CompleteName  PROVE  IInv'
<1> DEFINE bs == <<1 + Len(name), 9>> \o name
<1>1. /\ bs \in Seq(Byte) /\ Len(bs) = 2 + N
      /\ bs[1] = 1 + N /\ bs[2] = 9
      /\ \A k \in 1 .. N : bs[k + 2] = name[k]
  BY NameBytes DEF IInv
<1>2. /\ pc = "name" /\ pc' = "manufacturer" /\ i = 11 /\ name' = name
      /\ Section("name", bs, "manufacturer")
  BY DEF CompleteName, Section, IInv, IndexIs
<1> HIDE DEF bs
<1>3. N \in 0 .. 13
  BY NameLength DEF IInv
<1>4. "manufacturer" \in Places /\ i + Len(bs) <= BLE_PDU_MAX
  BY <1>1, <1>2, <1>3 DEF Places, BLE_PDU_MAX
<1>5. /\ TypeOK' /\ N' = N /\ i' = i + (2 + N) /\ mac' = mac
      /\ addr' = addr /\ counter' = counter
      /\ \A k \in 1 .. 2 + N : s_pdu'[i + k - 1] = bs[k]
      /\ \A k \in Buffer : k < i => s_pdu'[k] = s_pdu[k]
  <2>1. /\ TypeOK' /\ N' = N /\ i' = i + Len(bs) /\ mac' = mac
        /\ addr' = addr /\ counter' = counter
        /\ \A k \in 1 .. Len(bs) : s_pdu'[i + k - 1] = bs[k]
        /\ \A k \in Buffer : k < i => s_pdu'[k] = s_pdu[k]
    BY ONLY IInv, <1>1, <1>2, <1>4, SectionKeeps
  <2> QED  BY ONLY <2>1, <1>1
<1>6. WroteAdvA'
  BY <1>2, <1>5 DEF IInv, WroteAdvA, Buffer, BLE_PDU_MAX
<1>7. WroteFlags'
  BY <1>2, <1>5 DEF IInv, WroteFlags, Buffer, BLE_PDU_MAX
<1>8. s_pdu'[11] = 1 + N /\ s_pdu'[12] = 9
  <2>1. 1 \in 1 .. 2 + N /\ 2 \in 1 .. 2 + N /\ i + 1 - 1 = 11 /\ i + 2 - 1 = 12
    BY <1>2, <1>3
  <2> QED  BY ONLY <2>1, <1>1, <1>5
<1>9. ASSUME NEW k \in 1 .. N  PROVE  s_pdu'[12 + k] = name[k]
  <2>1. k + 2 \in 1 .. 2 + N /\ i + (k + 2) - 1 = 12 + k
    BY <1>2, <1>3
  <2>2. s_pdu'[i + (k + 2) - 1] = bs[k + 2]
    BY ONLY <2>1, <1>5
  <2> QED  BY ONLY <2>1, <2>2, <1>1, k \in 1 .. N
<1>10. WroteName'
  BY <1>2, <1>5, <1>8, <1>9 DEF WroteName
<1>11. IndexIs'
  BY <1>2, <1>3, <1>5 DEF IndexIs
<1> QED
  BY <1>2, <1>5, <1>6, <1>7, <1>10, <1>11
     DEF IInv, AddressRead, CounterTaken, WroteManufacturer, WroteLength

LEMMA ManufacturerKeeps == ASSUME IInv, Manufacturer  PROVE  IInv'
<1>1. /\ pc = "manufacturer" /\ pc' = "length" /\ i = 13 + N /\ name' = name
      /\ Section("manufacturer", Structure, "length")
  BY DEF Manufacturer, Section, Structure, Tag, IInv, IndexIs
<1>2. counter \in Counters
  BY <1>1 DEF IInv, CounterTaken
<1>3. Structure \in Seq(Byte) /\ Len(Structure) = 13
  <2>1. TypeOK /\ AddressRead
    BY DEF IInv
  <2>2. pc # "boot"
    BY <1>1
  <2> QED  BY ONLY <1>2, <2>1, <2>2, ManufacturerBytes
<1>4. N \in 0 .. 13
  BY NameLength DEF IInv
<1>5. "length" \in Places /\ i + Len(Structure) <= BLE_PDU_MAX
  BY <1>1, <1>3, <1>4 DEF Places, BLE_PDU_MAX
<1>6. /\ TypeOK' /\ N' = N /\ i' = i + 13 /\ mac' = mac
      /\ addr' = addr /\ counter' = counter
      /\ \A k \in 1 .. 13 : s_pdu'[i + k - 1] = Structure[k]
      /\ \A k \in Buffer : k < i => s_pdu'[k] = s_pdu[k]
  <2>1. /\ TypeOK' /\ N' = N /\ i' = i + Len(Structure) /\ mac' = mac
        /\ addr' = addr /\ counter' = counter
        /\ \A k \in 1 .. Len(Structure) : s_pdu'[i + k - 1] = Structure[k]
        /\ \A k \in Buffer : k < i => s_pdu'[k] = s_pdu[k]
    <3>1. Structure \in Seq(Byte) /\ Section("manufacturer", Structure, "length")
      BY <1>1, <1>3
    <3> QED  BY ONLY IInv, <1>5, <3>1, SectionKeeps
  <2>2. Len(Structure) = 13
    BY <1>3
  <2> QED  BY ONLY <2>1, <2>2
<1>7. \A k \in 0 .. 12 + N : s_pdu'[k] = s_pdu[k]
  BY <1>1, <1>4, <1>6 DEF Buffer, BLE_PDU_MAX
<1>8. WroteAdvA'
  BY <1>1, <1>4, <1>6, <1>7 DEF IInv, WroteAdvA
<1>9. WroteFlags'
  BY <1>1, <1>4, <1>7 DEF IInv, WroteFlags
<1>10. WroteName'
  BY <1>1, <1>4, <1>6, <1>7 DEF IInv, WroteName
<1>11. WroteManufacturer'
  <2>1. Structure' = Structure
    BY <1>6 DEF Structure, Tag
  <2>2. \A k \in 1 .. 13 : i + k - 1 = 12 + N + k
    BY <1>1, <1>4
  <2> QED  BY ONLY <2>1, <2>2, <1>6 DEF WroteManufacturer
<1>12. IndexIs'
  BY <1>1, <1>4, <1>6 DEF IndexIs
<1>13. CounterTaken'
  BY <1>1, <1>2 DEF Section, CounterTaken
<1> QED
  BY <1>1, <1>6, <1>8, <1>9, <1>10, <1>11, <1>12, <1>13 DEF IInv, AddressRead, WroteLength

LEMMA BackFillKeeps == ASSUME IInv, BackFill  PROVE  IInv'
<1>1. N \in 0 .. 13
  BY NameLength DEF IInv
<1>2. /\ pc = "length" /\ pc' = "built" /\ i = 26 + N /\ i' = i /\ name' = name
      /\ addr' = addr /\ mac' = mac /\ counter' = counter
  BY DEF BackFill, IInv, IndexIs
<1>3. N' = N
  BY <1>2 DEF N
<1>4. s_pdu \in [Buffer -> Byte] /\ s_pdu' = [s_pdu EXCEPT ![1] = (i - 2) % 256]
  BY DEF BackFill, IInv, TypeOK, len_index
<1>5. (i - 2) % 256 = 24 + N /\ 24 + N \in Byte /\ 1 \in Buffer
  BY <1>1, <1>2 DEF Byte, Buffer, BLE_PDU_MAX
<1>6. /\ s_pdu' \in [Buffer -> Byte] /\ s_pdu'[1] = 24 + N
      /\ \A k \in Buffer : k > 1 => s_pdu'[k] = s_pdu[k]
  BY <1>4, <1>5 DEF Buffer, BLE_PDU_MAX
<1>7. TypeOK'
  BY <1>2, <1>6 DEF IInv, TypeOK, Places
<1>8. \A k \in 2 .. 25 + N : s_pdu'[k] = s_pdu[k]
  BY <1>1, <1>6 DEF Buffer, BLE_PDU_MAX
<1>9. WroteAdvA'
  BY <1>1, <1>2, <1>8 DEF IInv, WroteAdvA
<1>10. WroteFlags' /\ WroteManufacturer'
  <2>1. Structure' = Structure
    BY <1>2 DEF Structure, Tag
  <2>2. \A k \in 1 .. 13 : 12 + N + k \in 2 .. 25 + N
    BY ONLY <1>1
  <2>3. \A k \in 1 .. 13 : s_pdu[12 + N + k] = Structure[k]
    BY <1>2 DEF IInv, WroteManufacturer
  <2>4. WroteManufacturer'
    BY ONLY <1>3, <1>8, <2>1, <2>2, <2>3 DEF WroteManufacturer
  <2> QED  BY <1>1, <1>2, <1>8, <2>4 DEF IInv, WroteFlags
<1>11. WroteName'
  BY <1>1, <1>2, <1>3, <1>8 DEF IInv, WroteName
<1> QED
  BY <1>2, <1>3, <1>6, <1>7, <1>9, <1>10, <1>11
     DEF IInv, IndexIs, AddressRead, CounterTaken, WroteLength

LEMMA OthersKeep ==
  ASSUME IInv, ficr_get_ble_mac \/ Sent \/ Reset \/ UNCHANGED vars
  PROVE  IInv'
<1> USE DEF IInv, IndexIs, AddressRead, CounterTaken, WroteAdvA, WroteFlags, WroteName,
            WroteManufacturer, WroteLength
<1>1. CASE ficr_get_ble_mac
  BY <1>1, AddressBytes DEF ficr_get_ble_mac, TypeOK, Places
<1>2. CASE Sent
  BY <1>2 DEF Sent, TypeOK, Places
<1>3. CASE Reset
  <2>1. /\ pc' = "boot" /\ name' = name /\ addr' = addr
        /\ mac' = [k \in 1 .. 6 |-> 0] /\ counter' = 0 /\ i' = 0 /\ s_pdu' = Zeroed
    BY <1>3 DEF Reset
  <2>2. 0 \in Byte /\ 0 \in 0 .. BLE_PDU_MAX /\ "boot" \in Places
    BY ONLY TRUE DEF Byte, BLE_PDU_MAX, Places
  <2>3. s_pdu' \in [Buffer -> Byte] /\ mac' \in [1 .. 6 -> Byte]
    BY ONLY <2>1, <2>2 DEF Zeroed
  <2>4. name \in Names /\ addr \in DeviceAddrs
    BY DEF TypeOK
  <2>5. TypeOK'
    BY ONLY <2>1, <2>2, <2>3, <2>4 DEF TypeOK
  <2> QED  BY ONLY <2>1, <2>5 DEF IInv, IndexIs, AddressRead, CounterTaken, WroteAdvA,
             WroteFlags, WroteName, WroteManufacturer, WroteLength
<1>4. CASE UNCHANGED vars
  <2>1. /\ name' = name /\ addr' = addr /\ pc' = pc /\ mac' = mac
        /\ counter' = counter /\ i' = i /\ s_pdu' = s_pdu
    BY <1>4 DEF vars
  <2>2. N' = N /\ Structure' = Structure
    BY ONLY <2>1 DEF N, Structure, Tag
  <2>3. TypeOK'
    BY <2>1 DEF TypeOK
  <2> QED  BY <2>1, <2>2, <2>3
<1> QED  BY <1>1, <1>2, <1>3, <1>4

LEMMA StepHolds == IInv /\ [Next]_vars => IInv'
  BY CallKeeps, AdvAKeeps, FlagsKeeps, NameKeeps, ManufacturerKeeps, BackFillKeeps,
     OthersKeep DEF Next

(* For every name of at most MaxName bytes every index written lies in     *)
(* s_pdu, and s_pdu holds bytes.                                           *)
THEOREM BleTypeOK == Spec => []TypeOK
<1>1. IInv => TypeOK
  BY DEF IInv
<1> QED  BY <1>1, InitHolds, StepHolds, PTL DEF Spec

(* The AD structure of a frame that is built, as the PDU holds it.         *)
LEMMA BuiltStructure ==
  ASSUME IInv, pc = "built"
  PROVE  /\ counter \in Counters /\ Tag \in Seq(Byte) /\ Len(Tag) = 4
         /\ s_pdu[12 + N + 1] = 12 /\ s_pdu[12 + N + 2] = 255
         /\ s_pdu[12 + N + 3] = 255 /\ s_pdu[12 + N + 4] = 255 /\ s_pdu[12 + N + 5] = 1
         /\ \A k \in 1 .. 4 : s_pdu[12 + N + (5 + k)] = LE32(counter)[k]
         /\ \A k \in 1 .. 4 : s_pdu[12 + N + (9 + k)] = Tag[k]
<1>1. TypeOK /\ AddressRead /\ counter \in Counters /\ pc # "boot"
  BY DEF IInv, CounterTaken
<1>2. \A k \in 1 .. 13 : s_pdu[12 + N + k] = Structure[k]
  BY DEF IInv, WroteManufacturer
<1>3. /\ Structure[1] = 12 /\ Structure[2] = 255 /\ Structure[3] = 255
      /\ Structure[4] = 255 /\ Structure[5] = 1
      /\ \A k \in 1 .. 4 : Structure[5 + k] = LE32(counter)[k]
      /\ \A k \in 1 .. 4 : Structure[9 + k] = Tag[k]
  BY ONLY <1>1, ManufacturerBytes
<1>4. Tag \in Seq(Byte) /\ Len(Tag) = 4
  BY ONLY <1>1, TagBytes
<1>5. \A k \in 1 .. 4 : 5 + k \in 1 .. 13 /\ 9 + k \in 1 .. 13
  OBVIOUS
<1> QED  BY ONLY <1>1, <1>2, <1>3, <1>4, <1>5

(* The argument: the sections written lie one behind the other up to i, so *)
(* the three lengths lead from 8 to 11, to 13 + N and to i.                *)
LEMMA ScannerWalk ==
  ASSUME IInv, pc = "built"
  PROVE  /\ N \in 0 .. 13 /\ name \in Seq(Byte) /\ i = 26 + N
         /\ NameAt = 11 /\ After(NameAt) = 13 + N
         /\ ManufacturerAt = 13 + N /\ After(ManufacturerAt) = 26 + N
<1>1. N \in 0 .. 13 /\ name \in Seq(Byte)
  BY NameLength DEF IInv
<1>2. i = 26 + N /\ s_pdu[8] = 2 /\ s_pdu[11] = 1 + N
  BY DEF IInv, IndexIs, WroteFlags, WroteName
<1>3. s_pdu[13 + N] = 12
  <2>1. s_pdu[12 + N + 1] = 12
    BY BuiltStructure
  <2>2. 12 + N + 1 = 13 + N
    BY ONLY <1>1
  <2> QED  BY ONLY <2>1, <2>2
<1>4. NameAt = 11
  BY <1>2 DEF NameAt, FlagsAt, After
<1>5. After(NameAt) = 13 + N
  BY <1>1, <1>2, <1>4 DEF After
<1>6. ManufacturerAt = 13 + N
  BY <1>5 DEF ManufacturerAt
<1>7. After(ManufacturerAt) = 26 + N
  BY <1>1, <1>3, <1>6 DEF After
<1> QED  BY ONLY <1>1, <1>2, <1>4, <1>5, <1>6, <1>7

LEMMA InvariantReads == IInv => ScannerReads
<1> SUFFICES ASSUME IInv, pc = "built"
             PROVE  /\ SentEnd = i
                    /\ After(ManufacturerAt) = i
                    /\ s_pdu[FlagsAt + 1] = 1 /\ s_pdu[NameAt + 1] = 9
                    /\ s_pdu[ManufacturerAt + 1] = 255
                    /\ local_name = name
                    /\ company_id = <<255, 255>>
                    /\ Displayed = Backwards(mac) /\ mac[6] >= 192
  BY DEF ScannerReads
<1>1. N \in 0 .. 13 /\ name \in Seq(Byte)
  BY ScannerWalk
<1>2. /\ i = 26 + N /\ mac = Address(addr) /\ addr \in DeviceAddrs
      /\ s_pdu[1] = 24 + N /\ s_pdu[9] = 1 /\ s_pdu[12] = 9
      /\ s_pdu[14 + N] = 255 /\ s_pdu[15 + N] = 255 /\ s_pdu[16 + N] = 255
  <2>1. /\ i = 26 + N /\ mac = Address(addr) /\ addr \in DeviceAddrs
        /\ s_pdu[1] = 24 + N /\ s_pdu[9] = 1 /\ s_pdu[12] = 9
    BY DEF IInv, TypeOK, IndexIs, AddressRead, WroteFlags, WroteName, WroteLength
  <2>2. s_pdu[12 + N + 2] = 255 /\ s_pdu[12 + N + 3] = 255 /\ s_pdu[12 + N + 4] = 255
    BY BuiltStructure
  <2>3. 12 + N + 2 = 14 + N /\ 12 + N + 3 = 15 + N /\ 12 + N + 4 = 16 + N
    BY ONLY <1>1
  <2> QED  BY ONLY <2>1, <2>2, <2>3
<1>3. SentEnd = i
  BY <1>1, <1>2 DEF SentEnd, MAXLEN
<1>4. NameAt = 11
  BY ScannerWalk
<1>5. After(NameAt) = 13 + N /\ ManufacturerAt = 13 + N
  BY ScannerWalk
<1>6. After(ManufacturerAt) = i
  BY ScannerWalk
<1>7. s_pdu[FlagsAt + 1] = 1 /\ s_pdu[NameAt + 1] = 9 /\ s_pdu[ManufacturerAt + 1] = 255
  <2>1. FlagsAt + 1 = 9 /\ NameAt + 1 = 12 /\ ManufacturerAt + 1 = 14 + N
    BY <1>1, <1>4, <1>5 DEF FlagsAt
  <2> QED  BY <2>1, <1>2
<1>8. local_name = name
  <2>1. local_name = [k \in 1 .. N |-> s_pdu[12 + k]]
    <3> DEFINE x == NameAt + 2
               y == After(NameAt) - 1
    <3>1. local_name = [k \in 1 .. y - x + 1 |-> s_pdu[x + k - 1]]
      BY DEF local_name, Value, Bytes
    <3>2. x = 13 /\ y = 12 + N
      BY <1>1, <1>4, <1>5
    <3> HIDE DEF x, y
    <3>3. y - x + 1 = N /\ \A k \in 1 .. N : x + k - 1 = 12 + k
      BY <1>1, <3>2
    <3> QED  BY <3>1, <3>3
  <2>2. \A k \in 1 .. N : s_pdu[12 + k] = name[k]
    BY DEF IInv, WroteName
  <2>3. name = [k \in 1 .. N |-> name[k]]
    BY <1>1 DEF N
  <2> QED  BY <2>1, <2>2, <2>3
<1>9. company_id = <<255, 255>>
  <2>1. (13 + N + 3) - (13 + N + 2) + 1 = 2 /\ 13 + N + 2 + 1 - 1 = 15 + N
        /\ 13 + N + 2 + 2 - 1 = 16 + N
    BY <1>1
  <2>2. company_id = [k \in 1 .. 2 |-> s_pdu[13 + N + 2 + k - 1]]
    BY <1>5, <2>1 DEF company_id, Bytes
  <2> QED  BY <2>1, <2>2, <1>2
<1>10. Displayed = Backwards(mac) /\ mac[6] >= 192
  <2>1. Bytes(2, 7) = [k \in 1 .. 6 |-> s_pdu[k + 1]]
    <3>1. 7 - 2 + 1 = 6 /\ \A k \in 1 .. 6 : 2 + k - 1 = k + 1
      OBVIOUS
    <3> QED  BY <3>1 DEF Bytes
  <2>2. \A k \in 1 .. 6 : s_pdu[k + 1] = mac[k]
    BY DEF IInv, WroteAdvA
  <2>3. mac = [k \in 1 .. 6 |-> mac[k]]
    BY DEF IInv, TypeOK
  <2>4. Bytes(2, 7) = mac
    BY <2>1, <2>2, <2>3
  <2>5. mac[6] \in 192 .. 255
    BY <1>2, AddressBytes
  <2>6. mac[6] >= 192
    BY ONLY <2>5
  <2> QED  BY <2>4, <2>6 DEF Displayed
<1> QED  BY <1>3, <1>6, <1>7, <1>8, <1>9, <1>10

(* For every name, chip and counter, a scanner that follows the length     *)
(* bytes reads the whole frame and the parts ble_build_adv put into it.    *)
THEOREM BleScannerReads == Spec => []ScannerReads
  BY InitHolds, StepHolds, InvariantReads, PTL DEF Spec

-----------------------------------------------------------------------------
(* The script.                                                             *)

LEMMA LowByte ==
  ASSUME NEW c \in Int
  PROVE  c % 256 = c - (256 * (c \div 256)) /\ c \div 256 \in Int /\ c % 256 \in 0 .. 255
OBVIOUS

LEMMA NextBytes ==
  ASSUME NEW c \in Nat
  PROVE  (c \div 256) \div 256 = c \div 65536 /\ (c \div 65536) \div 256 = c \div 16777216
OBVIOUS

LEMMA HighByte ==
  ASSUME NEW c \in Nat, c < 65536
  PROVE  (c \div 256) % 256 = c \div 256
OBVIOUS

(* The script reads back the counter that LE32 wrote, up to 2^32 - 1.      *)
LEMMA CounterReadBack ==
  ASSUME NEW c \in Nat, c \div 65536 < 65536
  PROVE  FromLE(LE32(c)) = c
<1> DEFINE q1 == c \div 256
           q2 == c \div 65536
           q3 == c \div 16777216
<1>1. q1 \in Int /\ q2 \in Nat /\ q3 \in Int
  OBVIOUS
<1>2. c % 256 = c - (256 * q1) /\ c % 256 \in 0 .. 255
  BY LowByte
<1>3. q1 \div 256 = q2 /\ q2 \div 256 = q3
  BY NextBytes
<1>4. FromLE(LE32(c)) =
        (c % 256) + 256 * (q1 % 256) + 65536 * (q2 % 256) + 16777216 * (q3 % 256)
  BY DEF FromLE, LE32
<1>5. q2 < 65536
  OBVIOUS
<1> HIDE DEF q1, q2, q3
<1>6. q1 % 256 = q1 - (256 * q2)
  BY ONLY <1>1, <1>3, LowByte
<1>7. q2 % 256 = q2 - (256 * q3)
  BY ONLY <1>1, <1>3, LowByte
<1>8. q3 % 256 = q3
  BY ONLY <1>1, <1>3, <1>5, HighByte
<1> QED  BY ONLY <1>1, <1>2, <1>4, <1>6, <1>7, <1>8, c \in Nat

(* What a slice is: the n elements behind the first o.                     *)
LEMMA Slice ==
  ASSUME NEW S, NEW s \in Seq(S), NEW t \in Seq(S), NEW o \in Nat, NEW n \in Nat,
         Len(t) = n, \A k \in 1 .. n : s[o + k] = t[k]
  PROVE  SubSeq(s, o + 1, o + n) = t
<1> DEFINE u == SubSeq(s, o + 1, o + n)
<1>1. \A k \in o + 1 .. o + n : s[k] \in S
  <2> SUFFICES ASSUME NEW k \in o + 1 .. o + n  PROVE  s[k] \in S
    OBVIOUS
  <2>1. k - o \in 1 .. n /\ o + (k - o) = k
    BY ONLY o \in Nat, n \in Nat, k \in o + 1 .. o + n
  <2>2. t[k - o] \in S
    BY <2>1, ElementOfSeq
  <2> QED  BY <2>1, <2>2
<1>2. o + 1 \in Int /\ o + n \in Int
  BY ONLY o \in Nat, n \in Nat
<1>3. /\ u \in Seq(S) /\ Len(u) = IF o + 1 <= o + n THEN (o + n) - (o + 1) + 1 ELSE 0
      /\ \A k \in 1 .. (o + n) - (o + 1) + 1 : u[k] = s[(o + 1) + k - 1]
  BY ONLY <1>1, <1>2, SubSeqProperties
<1> HIDE DEF u
<1>4. Len(u) = n
  BY ONLY <1>3, o \in Nat, n \in Nat
<1>5. ASSUME NEW k \in 1 .. n  PROVE  u[k] = t[k]
  <2>1. k \in 1 .. (o + n) - (o + 1) + 1 /\ (o + 1) + k - 1 = o + k
    BY ONLY o \in Nat, n \in Nat, k \in 1 .. n
  <2>2. u[k] = s[o + k]
    BY ONLY <1>3, <2>1
  <2> QED  BY <2>2
<1>6. Len(u) = Len(t) /\ \A k \in 1 .. Len(u) : u[k] = t[k]
  BY ONLY <1>4, <1>5, Len(t) = n
<1>7. u = t
  BY ONLY <1>3, <1>6, t \in Seq(S), SeqEqual
<1> QED  BY <1>7 DEF u

-----------------------------------------------------------------------------
(* The blocks of siphash24.                                                *)

LEMMA Lengths ==
  ASSUME NEW n \in Nat
  PROVE  /\ n % 8 \in 0 .. 7 /\ n \div 8 \in Nat
         /\ n = 8 * (n \div 8) + (n % 8)
         /\ (n - (n % 8)) \div 8 = n \div 8
  OBVIOUS

LEMMA WithLast ==
  ASSUME NEW S, NEW w \in Seq(S), NEW m \in Nat, m <= Len(w), NEW x \in S
  PROVE  SubSeq(w, 1, m) \o <<x>> = [k \in 1 .. m + 1 |-> IF k = m + 1 THEN x ELSE w[k]]
  <1> DEFINE u == SubSeq(w, 1, m)
             l == <<x>>
             b == Cat(u, l)
             o == 1
  <1>1. l \in Seq(S) /\ Len(l) = o /\ l[1] = x /\ o \in Nat
    OBVIOUS
  <1>2. u \in Seq(S) /\ Len(u) = m /\ \A k \in 1 .. m : u[k] = w[k]
    <2>1. \A k \in 1 .. m : w[k] \in S
      OBVIOUS
    <2> QED
      BY <2>1, SubSeqProperties
  <1> HIDE DEF u, l, o
  <1>3. /\ b \in Seq(S) /\ Len(b) = m + o
        /\ \A k \in 1 .. m : b[k] = u[k]
        /\ \A k \in 1 .. o : b[m + k] = l[k]
    BY <1>1, <1>2, Concat
  <1> HIDE DEF b
  <1>4. ASSUME NEW k \in 1 .. m + 1
        PROVE  b[k] = IF k = m + 1 THEN x ELSE w[k]
    <2>1. CASE k = m + 1
      BY <1>1, <1>3, <2>1 DEF o
    <2>2. CASE k # m + 1
      <3>1. k \in 1 .. m
        BY <2>2
      <3> QED
        BY <1>2, <1>3, <2>2, <3>1
    <2> QED
      BY <2>1, <2>2
  <1>5. b = [k \in 1 .. m + 1 |-> IF k = m + 1 THEN x ELSE w[k]]
    BY <1>3, <1>4 DEF o
  <1> QED
    BY <1>5 DEF b, u, l, Cat

(* The last block: what is left, zeroes up to the seventh byte, the length.*)
LEMMA SameLastBlock ==
  ASSUME NEW in \in Seq(Byte)
  PROVE  SubSeq(ljust(tail(in)), 1, 7) \o <<Len(in) % 256>> = LastBlock(in)
  <1> DEFINE n == Len(in)
             r == n % 8
             q == n \div 8
             t == tail(in)
             w == ljust(t)
             b == SubSeq(w, 1, 7) \o <<n % 256>>
  <1>1. n \in Nat /\ r \in 0 .. 7 /\ q \in Nat /\ n = 8 * q + r /\ n - r = 8 * q
    <2>1. n \in Nat
      OBVIOUS
    <2> HIDE DEF n
    <2> QED
      BY <2>1, Lengths
  <1>2. t \in Seq(Byte) /\ Len(t) = r /\ \A k \in 1 .. r : t[k] = in[8 * q + k]
    <2>1. t = SubSeq(in, 8 * q + 1, n)
      BY DEF tail, n_full
    <2> HIDE DEF n, q, r, t
    <2>2. \A k \in 8 * q + 1 .. n : in[k] \in Byte
      BY <1>1 DEF n
    <2>3. t \in Seq(Byte) /\ Len(t) = n - (8 * q + 1) + 1
          /\ \A k \in 1 .. n - (8 * q + 1) + 1 : t[k] = in[8 * q + 1 + k - 1]
      <3>1. CASE 8 * q + 1 <= n + 1
        <4> DEFINE lo == 8 * q + 1
        <4>1. lo \in Int /\ n \in Int /\ lo <= n + 1
          BY <1>1, <3>1
        <4>2. \A k \in lo .. n : in[k] \in Byte
          BY <2>2
        <4> HIDE DEF lo
        <4>3. /\ SubSeq(in, lo, n) \in Seq(Byte)
              /\ Len(SubSeq(in, lo, n)) = IF lo <= n THEN n - lo + 1 ELSE 0
              /\ \A k \in 1 .. n - lo + 1 : SubSeq(in, lo, n)[k] = in[lo + k - 1]
          BY <4>1, <4>2, SubSeqProperties
        <4>4. (IF lo <= n THEN n - lo + 1 ELSE 0) = n - lo + 1
          BY <4>1
        <4>5. t = SubSeq(in, lo, n)
          BY <2>1 DEF lo
        <4> QED
          BY <4>3, <4>4, <4>5 DEF lo
      <3> QED
        BY <1>1, <3>1
    <2> QED
      BY <1>1, <2>3
  <1>3. w \in Seq(Byte) /\ Len(w) = 8
        /\ \A k \in 1 .. 8 : w[k] = IF k <= r THEN in[8 * q + k] ELSE 0
    <2> DEFINE z == [k \in 1 .. 8 - r |-> 0]
    <2> HIDE DEF n, q, r, t
    <2>1. w = t \o z
      BY <1>2 DEF ljust
    <2>2. z \in Seq(Byte) /\ Len(z) = 8 - r /\ \A k \in 1 .. 8 - r : z[k] = 0
      BY <1>1 DEF Byte
    <2> HIDE DEF w, z
    <2>3. /\ w \in Seq(Byte) /\ Len(w) = r + (8 - r)
          /\ \A k \in 1 .. r : w[k] = t[k]
          /\ \A k \in 1 .. 8 - r : w[r + k] = z[k]
      <3>1. r \in Nat /\ 8 - r \in Nat
        BY <1>1
      <3>2. w = Cat(t, z)
        BY <2>1 DEF Cat
      <3> DEFINE o == 8 - r
      <3>3. r \in Nat /\ o \in Nat /\ Len(t) = r /\ Len(z) = o
        BY <1>2, <2>2, <3>1
      <3> HIDE DEF o
      <3>4. /\ Cat(t, z) \in Seq(Byte) /\ Len(Cat(t, z)) = r + o
            /\ \A k \in 1 .. r : Cat(t, z)[k] = t[k]
            /\ \A k \in 1 .. o : Cat(t, z)[r + k] = z[k]
        BY <1>2, <2>2, <3>3, Concat
      <3> QED
        BY <3>2, <3>4 DEF o
    <2>4. ASSUME NEW k \in 1 .. 8
          PROVE  w[k] = IF k <= r THEN in[8 * q + k] ELSE 0
      <3>1. CASE k <= r
        <4>1. k \in 1 .. r
          BY <1>1, <3>1
        <4> QED
          BY <1>2, <2>3, <3>1, <4>1
      <3>2. CASE k > r
        <4>1. k - r \in 1 .. 8 - r /\ ~(k <= r) /\ r + (k - r) = k
          BY <1>1, <3>2
        <4>2. w[r + (k - r)] = z[k - r] /\ z[k - r] = 0
          BY <2>2, <2>3, <4>1
        <4> QED
          BY <4>1, <4>2
      <3> QED
        BY <1>1, <3>1, <3>2
    <2>5. Len(w) = 8
      BY <1>1, <2>3
    <2> QED
      BY <2>3, <2>4, <2>5
  <1>4. b = [k \in 1 .. 8 |-> IF k = 8 THEN n % 256 ELSE w[k]]
    <2>1. n % 256 \in Byte
      <3> HIDE DEF n
      <3> QED
        BY <1>1 DEF Byte
    <2> HIDE DEF n, w
    <2> DEFINE x == n % 256
               m == 7
    <2>2. x \in Byte /\ m \in Nat /\ w \in Seq(Byte) /\ m <= Len(w)
      BY <1>3, <2>1
    <2> HIDE DEF x, m
    <2>3. SubSeq(w, 1, m) \o <<x>> = [k \in 1 .. m + 1 |-> IF k = m + 1 THEN x ELSE w[k]]
      BY <2>2, WithLast
    <2>4. m = 7 /\ m + 1 = 8 /\ x = n % 256
      BY DEF m, x
    <2> QED
      BY <2>3, <2>4
  <1>7. LastBlock(in) = [k \in 1 .. 8 |->
          IF k = 8 THEN n % 256 ELSE IF k <= r THEN in[8 * q + k] ELSE 0]
    <2>1. end(in) = 8 * q /\ left(in) = r
      BY <1>1 DEF end, left
    <2> QED
      BY <2>1 DEF LastBlock
  <1> HIDE DEF b, r, q, w
  <1>8. b = LastBlock(in)
    BY <1>3, <1>4, <1>7
  <1> QED
    BY <1>8 DEF b, w

(* The firmware, which reads a message in place and falls through the      *)
(* switch, and the script, which slices and pads, hash the same blocks:    *)
(* for messages of every length, so their tags differ for none.            *)
THEOREM BleSameBlocks ==
  ASSUME NEW in \in Seq(Byte)
  PROVE  blocks(in) = script_blocks(in)
  <1> DEFINE q == Len(in) \div 8
             whole == [j \in 1 .. q |-> [k \in 1 .. 8 |-> in[8 * (j - 1) + k]]]
             slices == [j \in 1 .. q |-> SubSeq(in, 8 * (j - 1) + 1, 8 * (j - 1) + 8)]
  <1>1. Len(in) \in Nat /\ q \in Nat /\ 8 * q <= Len(in) /\ end(in) \div 8 = q
    <2>1. Len(in) \in Nat
      OBVIOUS
    <2> QED
      BY <2>1, Lengths DEF end
  <1>2. ASSUME NEW j \in 1 .. q
        PROVE  SubSeq(in, 8 * (j - 1) + 1, 8 * (j - 1) + 8)
                 = [k \in 1 .. 8 |-> in[8 * (j - 1) + k]]
    <2> DEFINE m == 8 * (j - 1)
               s == SubSeq(in, m + 1, m + 8)
    <2>1. m \in Nat /\ m + 8 <= Len(in)
      <3> HIDE DEF q
      <3> QED
        BY <1>1
    <2> HIDE DEF m, q
    <2>2. /\ s \in Seq(Byte) /\ Len(s) = 8
          /\ \A k \in 1 .. 8 : s[k] = in[m + k]
      BY <1>1, <2>1
    <2> HIDE DEF s
    <2>3. s = [k \in 1 .. 8 |-> in[m + k]]
      BY <2>2
    <2> QED
      BY <2>3 DEF m, s
  <1>3. whole = slices
    <2> HIDE DEF q
    <2> QED
      BY <1>2
  <1>4. blocks(in) = Append(whole, LastBlock(in))
    BY <1>1 DEF blocks
  <1>5. script_blocks(in) = Append(slices, LastBlock(in))
    BY SameLastBlock DEF script_blocks, n_full
  <1> QED
    BY <1>3, <1>4, <1>5

-----------------------------------------------------------------------------
(* The two computations of the tag are one: the script's concatenation of  *)
(* address, version and counter is the message auth.c fills byte by byte.  *)
LEMMA OneMessage ==
  ASSUME NEW m, m \in [1 .. 6 -> Byte], NEW c \in Nat
  PROVE  /\ m \o <<BEACON_VERSION>> \o LE32(c) = Message(m, BEACON_VERSION, c)
         /\ Message(m, BEACON_VERSION, c) \in Seq(Byte)
<1> DEFINE mv == <<m[1], m[2], m[3], m[4], m[5], m[6], BEACON_VERSION>>
           v == <<BEACON_VERSION>>
<1>1. m \in Seq(Byte) /\ v \in Seq(Byte) /\ mv \in Seq(Byte)
  <2>1. /\ m[1] \in Byte /\ m[2] \in Byte /\ m[3] \in Byte /\ m[4] \in Byte
        /\ m[5] \in Byte /\ m[6] \in Byte
    OBVIOUS
  <2>2. BEACON_VERSION \in Byte
    BY DEF Byte, BEACON_VERSION
  <2>3. m \in Seq(Byte)
    <3>1. 6 \in Nat
      OBVIOUS
    <3> QED  BY ONLY <3>1, m \in [1 .. 6 -> Byte], FunctionIsSequence, ZenonT(60)
  <2>4. v \in Seq(Byte) /\ mv \in Seq(Byte)
    BY ONLY <2>1, <2>2
  <2> HIDE DEF v, mv
  <2> QED  BY ONLY <2>3, <2>4
<1>2. Len(m) = 6 /\ Len(v) = 1 /\ Len(mv) = 7 /\ v[1] = mv[7]
      /\ m[1] = mv[1] /\ m[2] = mv[2] /\ m[3] = mv[3] /\ m[4] = mv[4] /\ m[5] = mv[5]
      /\ m[6] = mv[6]
  OBVIOUS
<1> HIDE DEF mv, v
<1>3. /\ Cat(m, v) \in Seq(Byte) /\ Len(Cat(m, v)) = 7
      /\ \A k \in 1 .. 7 : Cat(m, v)[k] = mv[k]
  <2> DEFINE Holds(a, b) == /\ Cat(m, v) \in Seq(Byte) /\ Len(Cat(m, v)) = a + b
                            /\ \A k \in 1 .. a : Cat(m, v)[k] = m[k]
                            /\ \A k \in 1 .. b : Cat(m, v)[a + k] = v[k]
  <2>1. ASSUME NEW a \in Nat, NEW b \in Nat, Len(m) = a, Len(v) = b  PROVE  Holds(a, b)
    <3>1. m \in Seq(Byte) /\ v \in Seq(Byte)
      BY ONLY <1>1
    <3> QED  BY ONLY <2>1, <3>1, Concat, a \in Nat, b \in Nat
  <2> HIDE DEF Holds
  <2>2. Holds(6, 1)
    BY ONLY <1>2, <2>1
  <2>3. /\ Cat(m, v) \in Seq(Byte) /\ Len(Cat(m, v)) = 7
        /\ \A k \in 1 .. 6 : Cat(m, v)[k] = m[k]
        /\ Cat(m, v)[7] = v[1]
    BY ONLY <2>2 DEF Holds
  <2>4. \A k \in 1 .. 7 : k \in {1, 2, 3, 4, 5, 6} \/ k = 7
    OBVIOUS
  <2> QED  BY ONLY <1>2, <2>3, <2>4
<1>4. Len(Cat(m, v)) = Len(mv) /\ \A k \in 1 .. Len(Cat(m, v)) : Cat(m, v)[k] = mv[k]
  BY ONLY <1>2, <1>3
<1>5. Cat(m, v) = mv
  BY ONLY <1>1, <1>3, <1>4, SeqEqual
<1>6. m \o <<BEACON_VERSION>> = mv
  BY <1>5 DEF Cat, v
<1>7. Message(m, BEACON_VERSION, c) = mv \o LE32(c)
  BY DEF Message, mv
<1>8. LE32(c) \in Seq(Byte)
  BY LE32Bytes
<1>9. mv \o LE32(c) \in Seq(Byte)
  BY ONLY <1>1, <1>8
<1> QED  BY <1>6, <1>7, <1>9

(* So are the two hashes of it, whatever the rounds make of its blocks.    *)
LEMMA OneTag ==
  ASSUME NEW m \in [1 .. 6 -> Byte], NEW c \in Nat,
         siphash24(Message(m, BEACON_VERSION, c)) \in [1 .. 8 -> Byte]
  PROVE  compute_tag(m, BEACON_VERSION, c) = auth_compute_tag(m, BEACON_VERSION, c)
<1> DEFINE h == siphash24(Message(m, BEACON_VERSION, c))
           t == <<h[1], h[2], h[3], h[4]>>
<1>1. h \in [1 .. 8 -> Byte]
  OBVIOUS
<1>2. compute_tag(m, BEACON_VERSION, c) = SubSeq(h, 1, 4)
  <2> DEFINE msg == Message(m, BEACON_VERSION, c)
  <2>1. m \o <<BEACON_VERSION>> \o LE32(c) = msg /\ msg \in Seq(Byte)
    BY OneMessage
  <2> HIDE DEF msg
  <2>2. blocks(msg) = script_blocks(msg)
    BY <2>1, BleSameBlocks
  <2>3. script_siphash24(msg) = siphash24(msg)
    BY <2>2 DEF script_siphash24, siphash24
  <2> QED  BY <2>1, <2>3, Zenon DEF compute_tag, msg
<1>3. auth_compute_tag(m, BEACON_VERSION, c) = t
  BY DEF auth_compute_tag, Truncated
<1> HIDE DEF h
<1>4. t \in Seq(Byte) /\ Len(t) = 4 /\ \A k \in 1 .. 4 : h[0 + k] = t[k]
  <2>1. h[1] \in Byte /\ h[2] \in Byte /\ h[3] \in Byte /\ h[4] \in Byte
    BY ONLY <1>1
  <2>2. t \in Seq(Byte) /\ Len(t) = 4
    BY ONLY <2>1
  <2>3. h[1] = t[1] /\ h[2] = t[2] /\ h[3] = t[3] /\ h[4] = t[4]
    OBVIOUS
  <2> HIDE DEF t
  <2>4. \A k \in 1 .. 4 : k \in {1, 2, 3, 4} /\ 0 + k = k
    OBVIOUS
  <2>5. \A k \in {1, 2, 3, 4} : h[k] = t[k]
    BY ONLY <2>3
  <2>6. \A k \in 1 .. 4 : h[0 + k] = t[k]
    BY ONLY <2>4, <2>5
  <2> QED  BY ONLY <2>2, <2>6
<1>5. h \in Seq(Byte)
  <2>1. 8 \in Nat
    OBVIOUS
  <2> QED  BY ONLY <1>1, <2>1, FunctionIsSequence, ZenonT(60)
<1> HIDE DEF t
<1>6. SubSeq(h, 0 + 1, 0 + 4) = t
  <2> DEFINE Holds(o, n) == SubSeq(h, o + 1, o + n) = t
  <2>1. ASSUME NEW o \in Nat, NEW n \in Nat, Len(t) = n, \A k \in 1 .. n : h[o + k] = t[k]
        PROVE  Holds(o, n)
    <3>1. t \in Seq(Byte)
      BY ONLY <1>4
    <3> QED  BY ONLY <1>5, <2>1, <3>1, Slice, o \in Nat, n \in Nat
  <2> HIDE DEF Holds
  <2>2. Holds(0, 4)
    BY ONLY <1>4, <2>1
  <2> QED  BY ONLY <2>2 DEF Holds
<1>7. 0 + 1 = 1 /\ 0 + 4 = 4
  OBVIOUS
<1> QED  BY ONLY <1>2, <1>3, <1>6, <1>7

(* parse_mac takes back the order in which a scanner displays an address.  *)
LEMMA ParsedIsSent ==
  ASSUME NEW m, m \in [1 .. 6 -> Byte]
  PROVE  parse_mac(Backwards(m)) = m
<1> DEFINE w == Backwards(m)
<1>1. Len(m) = 6
  <2>1. 6 \in Nat
    OBVIOUS
  <2> QED  BY ONLY <2>1, m \in [1 .. 6 -> Byte], FunctionIsSequence, ZenonT(60)
<1>2. w = [k \in 1 .. 6 |-> m[7 - k]]
  <2>1. 6 + 1 = 7
    OBVIOUS
  <2> QED  BY <1>1, <2>1 DEF Backwards
<1>3. w \in [1 .. 6 -> Byte]
  <2>1. \A k \in 1 .. 6 : 7 - k \in 1 .. 6
    OBVIOUS
  <2> QED  BY ONLY <1>2, <2>1, m \in [1 .. 6 -> Byte]
<1>4. Len(w) = 6
  <2>1. 6 \in Nat
    OBVIOUS
  <2> QED  BY ONLY <1>3, <2>1, FunctionIsSequence, ZenonT(60)
<1> HIDE DEF w
<1>5. parse_mac(w) = [k \in 1 .. 6 |-> w[7 - k]]
  <2>1. 6 + 1 = 7
    OBVIOUS
  <2> QED  BY <1>4, <2>1 DEF parse_mac, Backwards
<1>6. \A k \in 1 .. 6 : w[7 - k] = m[k]
  <2>1. \A k \in 1 .. 6 : 7 - k \in 1 .. 6 /\ 7 - (7 - k) = k
    OBVIOUS
  <2> QED  BY ONLY <1>2, <2>1
<1>7. m = [k \in 1 .. 6 |-> m[k]]
  BY ONLY m \in [1 .. 6 -> Byte]
<1>8. parse_mac(w) = m
  BY ONLY <1>5, <1>6, <1>7
<1> QED  BY <1>8 DEF w

(* run_offline strips the company id and takes data without it as it is.   *)
LEMMA OfflineIs ==
  ASSUME NEW x, NEW d, d \in Seq(Byte), Len(d) = 9
  PROVE  /\ run_offline(x, d) = verify_payload(parse_mac(x), d)
         /\ run_offline(x, <<255, 255>> \o d) = verify_payload(parse_mac(x), d)
<1> DEFINE id == <<255, 255>>
<1>1. id \in Seq(Byte) /\ Len(id) = 2 /\ id[1] = 255 /\ id[2] = 255
  BY DEF Byte
<1>2. id = <<255, 255>>
  OBVIOUS
<1> HIDE DEF id
<1>3. /\ Cat(id, d) \in Seq(Byte) /\ Len(Cat(id, d)) = 11
      /\ \A k \in 1 .. 2 : Cat(id, d)[0 + k] = id[k]
      /\ \A k \in 1 .. 9 : Cat(id, d)[2 + k] = d[k]
  <2> DEFINE Holds(a, b) == /\ Cat(id, d) \in Seq(Byte) /\ Len(Cat(id, d)) = a + b
                            /\ \A k \in 1 .. a : Cat(id, d)[k] = id[k]
                            /\ \A k \in 1 .. b : Cat(id, d)[a + k] = d[k]
  <2>1. ASSUME NEW a \in Nat, NEW b \in Nat, Len(id) = a, Len(d) = b  PROVE  Holds(a, b)
    <3>1. id \in Seq(Byte)
      BY ONLY <1>1
    <3> QED
      BY ONLY <2>1, <3>1, d \in Seq(Byte), Concat, a \in Nat, b \in Nat
  <2> HIDE DEF Holds
  <2>2. Holds(2, 9)
    BY ONLY <1>1, <2>1, Len(d) = 9
  <2>3. \A k \in 1 .. 2 : 0 + k = k
    OBVIOUS
  <2> QED  BY ONLY <2>2, <2>3 DEF Holds
<1>4. SubSeq(Cat(id, d), 1, 2) = id /\ SubSeq(Cat(id, d), 3, 11) = d
  <2> DEFINE Holds(o, n, t) == SubSeq(Cat(id, d), o + 1, o + n) = t
  <2>1. ASSUME NEW o \in Nat, NEW n \in Nat, NEW t, t \in Seq(Byte), Len(t) = n,
               \A k \in 1 .. n : Cat(id, d)[o + k] = t[k]
        PROVE  Holds(o, n, t)
    <3>1. Cat(id, d) \in Seq(Byte)
      BY ONLY <1>3
    <3> QED  BY ONLY <2>1, <3>1, Slice, o \in Nat, n \in Nat
  <2> HIDE DEF Holds
  <2>2. Holds(0, 2, id)
    <3>1. id \in Seq(Byte) /\ Len(id) = 2
      BY ONLY <1>1
    <3>2. \A k \in 1 .. 2 : Cat(id, d)[0 + k] = id[k]
      BY ONLY <1>3
    <3> QED  BY ONLY <2>1, <3>1, <3>2
  <2>3. Holds(2, 9, d)
    <3>1. \A k \in 1 .. 9 : Cat(id, d)[2 + k] = d[k]
      BY ONLY <1>3
    <3> QED  BY ONLY <2>1, <3>1, d \in Seq(Byte), Len(d) = 9
  <2>4. 0 + 1 = 1 /\ 0 + 2 = 2 /\ 2 + 1 = 3 /\ 2 + 9 = 11
    OBVIOUS
  <2> QED  BY ONLY <2>2, <2>3, <2>4 DEF Holds
<1>5. run_offline(x, d) = verify_payload(parse_mac(x), d)
  BY Len(d) = 9 DEF run_offline
<1>6. run_offline(x, Cat(id, d)) = verify_payload(parse_mac(x), d)
  <2>1. Len(Cat(id, d)) = 11
    BY ONLY <1>3
  <2> QED  BY ONLY <1>2, <1>4, <2>1 DEF run_offline
<1> QED  BY <1>2, <1>5, <1>6 DEF Cat

Verdict(same, c) ==
  IF same THEN [ok |-> TRUE, counter |-> c] ELSE [ok |-> FALSE, note |-> "bad tag"]

(* The verdict on nine bytes that hold the version, a counter and a tag.   *)
LEMMA VerdictIs ==
  ASSUME NEW m, m \in [1 .. 6 -> Byte], NEW c \in Nat, c \div 65536 < 65536,
         siphash24(Message(m, BEACON_VERSION, c)) \in [1 .. 8 -> Byte],
         NEW d, Len(d) = 9, d[1] = BEACON_VERSION,
         SubSeq(d, 2, 5) = LE32(c), NEW t, SubSeq(d, 6, 9) = t
  PROVE  verify_payload(m, d) = Verdict(t = auth_compute_tag(m, BEACON_VERSION, c), c)
<1> DEFINE p == SubSeq(d, 2, 5)
           q == SubSeq(d, 6, 9)
           tag == compute_tag(m, d[1], FromLE(p))
<1>1. FromLE(p) = c
  <2>1. FromLE(LE32(c)) = c
    BY ONLY CounterReadBack, c \in Nat, c \div 65536 < 65536
  <2>2. p = LE32(c)
    OBVIOUS
  <2> HIDE DEF p
  <2> QED  BY ONLY <2>1, <2>2
<1>2. tag = auth_compute_tag(m, BEACON_VERSION, c)
  <2>1. tag = compute_tag(m, BEACON_VERSION, c)
    BY ONLY <1>1, d[1] = BEACON_VERSION, Zenon
  <2>2. compute_tag(m, BEACON_VERSION, c) = auth_compute_tag(m, BEACON_VERSION, c)
    BY ONLY m \in [1 .. 6 -> Byte], c \in Nat, OneTag,
            siphash24(Message(m, BEACON_VERSION, c)) \in [1 .. 8 -> Byte]
  <2> HIDE DEF tag
  <2> QED  BY ONLY <2>1, <2>2
<1>3. verify_payload(m, d) =
        IF Len(d) # 9 THEN [ok |-> FALSE, note |-> "length"]
        ELSE IF q # tag THEN [ok |-> FALSE, note |-> "bad tag"]
                        ELSE [ok |-> TRUE, counter |-> FromLE(p)]
  BY ONLY TRUE, Zenon DEF verify_payload
<1>4. q = t
  OBVIOUS
<1> HIDE DEF p, q, tag
<1> QED  BY ONLY <1>1, <1>2, <1>3, <1>4, Len(d) = 9 DEF Verdict

(* What a scanner reports as the data behind the company id: the version,  *)
(* the counter and the tag that Manufacturer wrote.                        *)
LEMMA DataIs ==
  ASSUME IInv, pc = "built"
  PROVE  /\ manufacturer_data \in Seq(Byte) /\ Len(manufacturer_data) = 9
         /\ manufacturer_data[1] = BEACON_VERSION
         /\ SubSeq(manufacturer_data, 2, 5) = LE32(counter)
         /\ SubSeq(manufacturer_data, 6, 9) = Tag
<1> DEFINE d == manufacturer_data
<1>1. N \in 0 .. 13 /\ ManufacturerAt = 13 + N /\ After(ManufacturerAt) = 26 + N
  BY ScannerWalk
<1>2. d = [k \in 1 .. 9 |-> s_pdu[16 + N + k]]
  <2> DEFINE x == ManufacturerAt + 4
             y == After(ManufacturerAt) - 1
  <2>1. d = [k \in 1 .. y - x + 1 |-> s_pdu[x + k - 1]]
    BY DEF manufacturer_data, Bytes
  <2>2. x = 17 + N /\ y = 25 + N
    BY ONLY <1>1
  <2> HIDE DEF x, y
  <2>3. y - x + 1 = 9 /\ \A k \in 1 .. 9 : x + k - 1 = 16 + N + k
    BY ONLY <1>1, <2>2
  <2> QED  BY <2>1, <2>3
<1>3. /\ counter \in Counters /\ Tag \in Seq(Byte) /\ Len(Tag) = 4
      /\ s_pdu[12 + N + 5] = 1
      /\ \A k \in 1 .. 4 : s_pdu[12 + N + (5 + k)] = LE32(counter)[k]
      /\ \A k \in 1 .. 4 : s_pdu[12 + N + (9 + k)] = Tag[k]
  BY BuiltStructure
<1>4. s_pdu \in [Buffer -> Byte]
  BY DEF IInv, TypeOK
<1>5. \A k \in 1 .. 9 : 16 + N + k \in Buffer
  BY ONLY <1>1 DEF Buffer, BLE_PDU_MAX
<1>6. d \in [1 .. 9 -> Byte]
  BY ONLY <1>2, <1>4, <1>5
<1> HIDE DEF d
<1>7. d \in Seq(Byte) /\ Len(d) = 9
  <2>1. 9 \in Nat
    OBVIOUS
  <2> QED  BY ONLY <1>6, <2>1, FunctionIsSequence, ZenonT(60)
<1>8. d[1] = BEACON_VERSION
  <2>1. 1 \in 1 .. 9 /\ 16 + N + 1 = 12 + N + 5
    BY ONLY <1>1
  <2> QED  BY ONLY <1>2, <1>3, <2>1 DEF BEACON_VERSION
<1>9. \A k \in 1 .. 4 : d[1 + k] = LE32(counter)[k]
  <2>1. \A k \in 1 .. 4 : 1 + k \in 1 .. 9 /\ 16 + N + (1 + k) = 12 + N + (5 + k)
    BY ONLY <1>1
  <2> QED  BY ONLY <1>2, <1>3, <2>1
<1>10. \A k \in 1 .. 4 : d[5 + k] = Tag[k]
  <2>1. \A k \in 1 .. 4 : 5 + k \in 1 .. 9 /\ 16 + N + (5 + k) = 12 + N + (9 + k)
    BY ONLY <1>1
  <2> QED  BY ONLY <1>2, <1>3, <2>1
<1>11. SubSeq(d, 2, 5) = LE32(counter) /\ SubSeq(d, 6, 9) = Tag
  <2> DEFINE Holds(o, n, t) == SubSeq(d, o + 1, o + n) = t
  <2>1. ASSUME NEW o \in Nat, NEW n \in Nat, NEW t, t \in Seq(Byte), Len(t) = n,
               \A k \in 1 .. n : d[o + k] = t[k]
        PROVE  Holds(o, n, t)
    <3>1. d \in Seq(Byte)
      BY ONLY <1>7
    <3> QED  BY ONLY <2>1, <3>1, Slice, o \in Nat, n \in Nat
  <2> HIDE DEF Holds
  <2>2. LE32(counter) \in Seq(Byte) /\ Len(LE32(counter)) = 4
    BY <1>3, LE32Bytes, InputsAssumption
  <2>3. Holds(1, 4, LE32(counter))
    BY ONLY <1>9, <2>1, <2>2
  <2>4. Holds(5, 4, Tag)
    BY ONLY <1>3, <1>10, <2>1
  <2>5. 1 + 1 = 2 /\ 1 + 4 = 5 /\ 5 + 1 = 6 /\ 5 + 4 = 9
    OBVIOUS
  <2> QED  BY ONLY <2>3, <2>4, <2>5 DEF Holds
<1> QED  BY <1>7, <1>8, <1>11 DEF d

(* The frames of this beacon pass, with and without the company id, with   *)
(* the counter that was sent; and under the address of another device they *)
(* pass only if the hash gives that device the same tag for this counter.  *)
AcceptsByTag ==
  pc = "built" =>
    LET verdict == [ok |-> TRUE, counter |-> counter]
    IN  /\ run_offline(Displayed, manufacturer_data) = verdict
        /\ run_offline(Displayed, company_id \o manufacturer_data) = verdict
        /\ \A a \in DeviceAddrs :
             run_offline(Backwards(Address(a)), manufacturer_data).ok
               <=> auth_compute_tag(Address(a), BEACON_VERSION, counter) = Tag

LEMMA InvariantAccepts == IInv => AcceptsByTag
<1> SUFFICES ASSUME IInv, pc = "built"  PROVE  AcceptsByTag
  BY DEF AcceptsByTag
<1> DEFINE d == manufacturer_data
<1>1. counter \in Counters /\ counter \in Nat /\ counter \div 65536 < 65536
  <2>1. counter \in Counters
    BY DEF IInv, CounterTaken
  <2> QED  BY ONLY <2>1, InputsAssumption, CountersAssumption
<1>2. addr \in DeviceAddrs /\ mac = Address(addr)
  BY DEF IInv, TypeOK, AddressRead
<1>3. Displayed = Backwards(mac) /\ company_id = <<255, 255>>
  BY InvariantReads DEF ScannerReads
<1>4. /\ d \in Seq(Byte) /\ Len(d) = 9 /\ d[1] = BEACON_VERSION
      /\ SubSeq(d, 2, 5) = LE32(counter) /\ SubSeq(d, 6, 9) = Tag
  BY DataIs
<1> HIDE DEF d
<1>5. ASSUME NEW a \in DeviceAddrs
      PROVE  /\ run_offline(Backwards(Address(a)), d) =
                  Verdict(Tag = auth_compute_tag(Address(a), BEACON_VERSION, counter), counter)
             /\ run_offline(Backwards(Address(a)), <<255, 255>> \o d) =
                  run_offline(Backwards(Address(a)), d)
  <2> DEFINE m == Address(a)
  <2>1. m \in [1 .. 6 -> Byte]
    BY AddressBytes
  <2>2. siphash24(Message(m, BEACON_VERSION, counter)) \in [1 .. 8 -> Byte]
    BY <1>1, HashAssumption
  <2> HIDE DEF m
  <2>3. verify_payload(m, d) =
          Verdict(Tag = auth_compute_tag(m, BEACON_VERSION, counter), counter)
    <3>1. /\ Len(d) = 9 /\ d[1] = BEACON_VERSION
          /\ SubSeq(d, 2, 5) = LE32(counter) /\ SubSeq(d, 6, 9) = Tag
      BY ONLY <1>4
    <3>2. counter \in Nat /\ counter \div 65536 < 65536
      BY ONLY <1>1
    <3> QED  BY ONLY <2>1, <2>2, <3>1, <3>2, VerdictIs
  <2>4. parse_mac(Backwards(m)) = m
    BY ONLY <2>1, ParsedIsSent
  <2>5. /\ run_offline(Backwards(m), d) = verify_payload(parse_mac(Backwards(m)), d)
        /\ run_offline(Backwards(m), <<255, 255>> \o d)
             = verify_payload(parse_mac(Backwards(m)), d)
    <3>1. d \in Seq(Byte) /\ Len(d) = 9
      BY ONLY <1>4
    <3> QED  BY ONLY <3>1, OfflineIs
  <2>6. /\ run_offline(Backwards(m), d) = verify_payload(m, d)
        /\ run_offline(Backwards(m), <<255, 255>> \o d) = run_offline(Backwards(m), d)
    BY ONLY <2>4, <2>5, Zenon
  <2> QED  BY ONLY <2>3, <2>6, Zenon DEF m
<1>6. Tag = auth_compute_tag(mac, BEACON_VERSION, counter)
  BY DEF Tag
<1>7. /\ run_offline(Displayed, d) = Verdict(TRUE, counter)
      /\ run_offline(Displayed, company_id \o d) = Verdict(TRUE, counter)
  <2>1. Tag = auth_compute_tag(Address(addr), BEACON_VERSION, counter)
    BY ONLY <1>2, <1>6
  <2>2. run_offline(Displayed, d) = Verdict(TRUE, counter)
    BY ONLY <1>2, <1>3, <1>5, <2>1, Zenon
  <2>3. run_offline(Displayed, company_id \o d) = run_offline(Displayed, d)
    BY ONLY <1>2, <1>3, <1>5, Zenon
  <2> QED  BY ONLY <2>2, <2>3, Zenon
<1>8. ASSUME NEW a \in DeviceAddrs
      PROVE  run_offline(Backwards(Address(a)), d).ok
               <=> auth_compute_tag(Address(a), BEACON_VERSION, counter) = Tag
  <2>1. run_offline(Backwards(Address(a)), d) =
          Verdict(Tag = auth_compute_tag(Address(a), BEACON_VERSION, counter), counter)
    BY <1>5
  <2>2. \A same \in BOOLEAN : Verdict(same, counter).ok <=> same
    BY ONLY TRUE DEF Verdict
  <2>3. run_offline(Backwards(Address(a)), d).ok
          <=> Tag = auth_compute_tag(Address(a), BEACON_VERSION, counter)
    BY ONLY <2>1, <2>2
  <2> QED  BY ONLY <2>3
<1>9. Verdict(TRUE, counter) = [ok |-> TRUE, counter |-> counter]
  BY DEF Verdict
<1> QED  BY ONLY <1>7, <1>8, <1>9 DEF AcceptsByTag, d

(* End to end, for every name, chip, counter and hash: the script accepts  *)
(* what a scanner reports of each frame and reads the counter from it, and *)
(* it takes a frame for another device's exactly if the tags are the same. *)
THEOREM BleAcceptsByTag == Spec => []AcceptsByTag
  BY InitHolds, StepHolds, InvariantAccepts, PTL DEF Spec

(* What the run adds to it about its hash: four bytes tell apart the       *)
(* addresses in question.                                                  *)
TagsDiffer ==
  \A a, b \in DeviceAddrs, c \in Counters :
    Address(a) # Address(b) =>
      auth_compute_tag(Address(a), BEACON_VERSION, c)
        # auth_compute_tag(Address(b), BEACON_VERSION, c)

(* With a hash whose tags tell the devices apart, the script accepts each  *)
(* frame under the address of its beacon and under no other.               *)
THEOREM BleScriptAccepts ==
  ASSUME TagsDiffer
  PROVE  Spec => []ScriptAccepts
<1>1. IInv => ScriptAccepts
  <2> SUFFICES ASSUME IInv, pc = "built"  PROVE  ScriptAccepts
    BY DEF ScriptAccepts
  <2>1. /\ run_offline(Displayed, manufacturer_data) = [ok |-> TRUE, counter |-> counter]
        /\ run_offline(Displayed, company_id \o manufacturer_data)
             = [ok |-> TRUE, counter |-> counter]
        /\ \A a \in DeviceAddrs :
             run_offline(Backwards(Address(a)), manufacturer_data).ok
               <=> auth_compute_tag(Address(a), BEACON_VERSION, counter) = Tag
    BY InvariantAccepts DEF AcceptsByTag
  <2>2. counter \in Counters /\ addr \in DeviceAddrs /\ mac = Address(addr)
    BY DEF IInv, TypeOK, AddressRead, CounterTaken
  <2>3. Tag = auth_compute_tag(Address(addr), BEACON_VERSION, counter)
    BY ONLY <2>2 DEF Tag
  <2>4. ASSUME NEW a \in DeviceAddrs, Address(a) # mac
        PROVE  ~run_offline(Backwards(Address(a)), manufacturer_data).ok
    <3>1. auth_compute_tag(Address(a), BEACON_VERSION, counter) # Tag
      BY <2>2, <2>3, <2>4 DEF TagsDiffer
    <3> QED  BY ONLY <2>1, <3>1, a \in DeviceAddrs
  <2> QED  BY ONLY <2>1, <2>4 DEF ScriptAccepts
<1> QED  BY <1>1, InitHolds, StepHolds, PTL DEF Spec

=============================================================================
