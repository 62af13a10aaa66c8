------------------------------ MODULE RttProof ------------------------------
(***************************************************************************)
(* Proofs about Rtt and RttBoot, for every ring size, every length of a    *)
(* write and every alphabet: the ring implements the lossy queue of        *)
(* RttChannel, and what of that survives the resets of the target.         *)
(***************************************************************************)
EXTENDS RttBoot, TLAPS

-----------------------------------------------------------------------------
(* Arithmetic of the offsets.                                              *)

LEMMA WrapRange ==
  ASSUME NEW o \in Offsets, NEW n \in 0 .. Size - 1
  PROVE  Wrap(o + n) \in Offsets /\ Dist(o, Wrap(o + n)) = n
  BY RttAssumption DEF Offsets, Wrap, Dist

LEMMA WrapInjective ==
  ASSUME NEW o \in Offsets, NEW m \in 0 .. Size - 1, NEW n \in 0 .. Size - 1,
         Wrap(o + m) = Wrap(o + n)
  PROVE  m = n
  BY RttAssumption DEF Offsets, Wrap

LEMMA WrapAdd ==
  ASSUME NEW o \in Offsets, NEW m \in Nat, NEW n \in Nat, m + n <= Size
  PROVE  Wrap(Wrap(o + m) + n) = Wrap(o + m + n)
  BY RttAssumption DEF Offsets, Wrap

LEMMA DistRange ==
  ASSUME NEW a \in Offsets, NEW b \in Offsets
  PROVE  Dist(a, b) \in 0 .. Size - 1 /\ Wrap(a + Dist(a, b)) = b
  BY RttAssumption DEF Offsets, Dist, Wrap

(* Moving on by n from a leaves n less up to b.                            *)
LEMMA DistAdvance ==
  ASSUME NEW a \in Offsets, NEW b \in Offsets, NEW n \in 0 .. Dist(a, b)
  PROVE  Dist(Wrap(a + n), b) = Dist(a, b) - n
  BY RttAssumption DEF Offsets, Dist, Wrap

LEMMA NextIsWrap ==
  ASSUME wr \in Offsets
  PROVE  next = Wrap(wr + 1) /\ next \in Offsets
  BY RttAssumption DEF Offsets, Wrap, next

-----------------------------------------------------------------------------
(* Sequences.                                                              *)

Cells == Chars \cup {Blank}
Rings == [Offsets -> Cells]

LEMMA SliceProperties ==
  ASSUME NEW buf \in Rings, NEW a \in Offsets, NEW b \in Offsets
  PROVE  /\ Slice(buf, a, b) \in Seq(Cells)
         /\ Len(Slice(buf, a, b)) = Dist(a, b)
         /\ \A k \in 1 .. Dist(a, b) : Slice(buf, a, b)[k] = buf[Wrap(a + k - 1)]
  <1>1. \A k \in 1 .. Dist(a, b) : Wrap(a + k - 1) \in Offsets
    BY RttAssumption DEF Offsets, Dist, Wrap
  <1>2. Dist(a, b) \in Nat
    BY RttAssumption DEF Offsets, Dist
  <1>3. Slice(buf, a, b) \in [1 .. Dist(a, b) -> Cells]
    BY <1>1 DEF Slice, Rings
  <1>4. Slice(buf, a, b) \in Seq(Cells) /\ Len(Slice(buf, a, b)) = Dist(a, b)
    BY <1>2, <1>3
  <1> QED
    BY <1>4 DEF Slice

LEMMA SameSeq ==
  ASSUME NEW S, NEW s \in Seq(S), NEW t \in Seq(S), Len(s) = Len(t),
         \A k \in 1 .. Len(s) : s[k] = t[k]
  PROVE  s = t
  OBVIOUS

LEMMA ConcatSeq ==
  ASSUME NEW S, NEW s \in Seq(S), NEW t \in Seq(S)
  PROVE  /\ s \o t \in Seq(S) /\ Len(s \o t) = Len(s) + Len(t)
         /\ \A k \in 1 .. Len(s) + Len(t) :
              (s \o t)[k] = IF k <= Len(s) THEN s[k] ELSE t[k - Len(s)]
  OBVIOUS

LEMMA PartOfSeq ==
  ASSUME NEW S, NEW s \in Seq(S), NEW m \in 1 .. Len(s) + 1,
         NEW n \in 0 .. Len(s), m <= n + 1
  PROVE  /\ SubSeq(s, m, n) \in Seq(S) /\ Len(SubSeq(s, m, n)) = n - m + 1
         /\ \A k \in 1 .. n - m + 1 : SubSeq(s, m, n)[k] = s[m + k - 1]
  OBVIOUS

-----------------------------------------------------------------------------
(* The invariant.                                                          *)

(* What waits for the probe and what the call has stored fit in the ring   *)
(* together, and the stored characters lie behind WrOff.                   *)
WriterInv ==
  wpc # "idle" =>
    /\ wr = Wrap(WrOff + done)
    /\ Dist(RdOff, WrOff) + done <= Size - 1
    /\ \A k \in 1 .. done : s_up_buf[Wrap(WrOff + k - 1)] = data[k]
    /\ wpc = "store" =>
         done < Len(data) /\ Dist(RdOff, WrOff) + done < Size - 1

(* The probe copies a prefix of what was published when it sampled WrOff.  *)
HostInv ==
  hpc = "copy" =>
    /\ Len(batch) <= Dist(RdOff, hwr)
    /\ Dist(RdOff, hwr) <= Dist(RdOff, WrOff)
    /\ hrd = Wrap(RdOff + Len(batch))
    /\ \A k \in 1 .. Len(batch) : batch[k] = s_up_buf[Wrap(RdOff + k - 1)]

(* The inductive invariant.                                                *)
IInv == TypeOK /\ WriterInv /\ HostInv

LEMMA InitInv == Init => IInv
  <1> SUFFICES ASSUME Init PROVE IInv
    OBVIOUS
  <1>1. TypeOK
    BY RttAssumption DEF Init, TypeOK, Offsets, WriterPcs, HostPcs
  <1> QED
    BY <1>1 DEF Init, IInv, WriterInv, HostInv

LEMMA StringsAreSeqs == \A d \in Strings : d \in Seq(Chars) /\ Len(d) <= MaxLen
  BY RttAssumption DEF Strings

LEMMA CallInv ==
  ASSUME IInv, NEW d \in Strings, rtt_write(d)
  PROVE  IInv'
  <1>1. TypeOK'
    BY StringsAreSeqs, RttAssumption
    DEF rtt_write, hostVars, IInv, TypeOK, WriterPcs
  <1>2. WriterInv'
    <2>1. Dist(RdOff, WrOff) \in 0 .. Size - 1
      BY DistRange DEF IInv, TypeOK
    <2>2. Wrap(WrOff + 0) = WrOff
      BY RttAssumption DEF IInv, TypeOK, Offsets, Wrap
    <2>3. Dist(RdOff, WrOff) + 0 <= Size - 1
      BY <2>1, RttAssumption
    <2> QED
      BY <2>2, <2>3 DEF rtt_write, hostVars, WriterInv, Dist, Wrap
  <1>3. HostInv'
    BY DEF rtt_write, hostVars, IInv, HostInv, Dist, Wrap
  <1> QED
    BY <1>1, <1>2, <1>3 DEF IInv

LEMMA TestInv ==
  ASSUME IInv, Test
  PROVE  IInv'
  <1>1. TypeOK'
    BY DEF Test, hostVars, IInv, TypeOK, WriterPcs
  <1>2. WriterInv'
    <2>1. CASE done < Len(data) /\ next # RdOff
      <3> DEFINE D == Dist(RdOff, WrOff)
      <3>1. /\ D \in 0 .. Size - 1 /\ done \in Nat /\ D + done <= Size - 1
            /\ wr = Wrap(WrOff + done) /\ WrOff = Wrap(RdOff + D)
        BY DistRange DEF Test, IInv, TypeOK, WriterInv
      <3>2. D + done # Size - 1
        <4> SUFFICES ASSUME D + done = Size - 1 PROVE next = RdOff
          BY <2>1
        <4>1. Wrap(RdOff + D + done) = wr
          BY <3>1, WrapAdd, RttAssumption DEF IInv, TypeOK
        <4>2. RdOff + D + done = RdOff + (Size - 1) /\ RdOff \in Offsets
          <5>1. RdOff \in Offsets /\ D \in Nat /\ done \in Nat
            BY <3>1 DEF IInv, TypeOK
          <5> HIDE DEF D
          <5> QED
            BY <5>1, RttAssumption DEF Offsets
        <4>3. next = Wrap(Wrap(RdOff + (Size - 1)) + 1)
          BY <4>1, <4>2, NextIsWrap DEF IInv, TypeOK
        <4> QED
          BY <4>2, <4>3, RttAssumption DEF Offsets, Wrap
      <3>3. D + done < Size - 1
        BY <3>1, <3>2, RttAssumption
      <3> QED
        BY <2>1, <3>3 DEF Test, hostVars, IInv, WriterInv, Dist, Wrap
    <2> QED
      BY <2>1 DEF Test, hostVars, IInv, WriterInv, Dist, Wrap
  <1>3. HostInv'
    BY DEF Test, hostVars, IInv, HostInv, Dist, Wrap
  <1> QED
    BY <1>1, <1>2, <1>3 DEF IInv

(* The cell that is stored is in nobody else's part of the ring.           *)
LEMMA StoreCell ==
  ASSUME IInv, Store
  PROVE  /\ wr \in Offsets /\ wr = Wrap(RdOff + Dist(RdOff, WrOff) + done)
         /\ wr = Wrap(WrOff + done)
         /\ \A k \in 1 .. Dist(RdOff, WrOff) + done :
              /\ Wrap(RdOff + k - 1) \in Offsets
              /\ Wrap(RdOff + k - 1) # wr
         /\ \A k \in 1 .. done : Wrap(WrOff + k - 1) \in Offsets
                                 /\ Wrap(WrOff + k - 1) # wr
  <1> DEFINE D == Dist(RdOff, WrOff)
  <1>1. /\ D \in 0 .. Size - 1 /\ done \in Nat /\ D + done < Size - 1
        /\ wr = Wrap(WrOff + done) /\ WrOff = Wrap(RdOff + D)
        /\ RdOff \in Offsets /\ WrOff \in Offsets
    BY DistRange DEF Store, IInv, TypeOK, WriterInv
  <1>2. wr = Wrap(RdOff + D + done)
    BY <1>1, WrapAdd, RttAssumption
  <1>3. ASSUME NEW k \in 1 .. D + done
        PROVE  /\ Wrap(RdOff + k - 1) \in Offsets
               /\ Wrap(RdOff + k - 1) # wr
    <2>1. /\ k - 1 \in 0 .. Size - 1 /\ D + done \in 0 .. Size - 1
          /\ k - 1 # D + done
      BY <1>1, RttAssumption
    <2>2. /\ RdOff + (k - 1) = RdOff + k - 1
          /\ RdOff + (D + done) = RdOff + D + done
      BY <1>1 DEF Offsets
    <2> QED
      BY <1>1, <1>2, <2>1, <2>2, WrapRange, WrapInjective
  <1>4. ASSUME NEW k \in 1 .. done
        PROVE  /\ Wrap(WrOff + k - 1) \in Offsets
               /\ Wrap(WrOff + k - 1) # wr
    <2>1. k - 1 \in 0 .. Size - 1 /\ done \in 0 .. Size - 1 /\ k - 1 # done
      BY <1>1, RttAssumption
    <2>2. WrOff + (k - 1) = WrOff + k - 1
      BY <1>1 DEF Offsets
    <2> QED
      BY <1>1, <2>1, <2>2, WrapRange, WrapInjective
  <1> QED
    BY <1>1, <1>2, <1>3, <1>4 DEF IInv, TypeOK

LEMMA StoreInv ==
  ASSUME IInv, Store
  PROVE  IInv'
  <1>1. /\ wpc = "store" /\ wpc' = "test"
        /\ s_up_buf' = [s_up_buf EXCEPT ![wr] = data[done + 1]]
        /\ wr' = next /\ done' = done + 1
        /\ UNCHANGED <<WrOff, RdOff, data, hostVars>>
    BY DEF Store
  <1>2. /\ done \in Nat /\ done < Len(data)
        /\ Dist(RdOff, WrOff) + done < Size - 1
        /\ wr = Wrap(WrOff + done) /\ WrOff \in Offsets /\ wr \in Offsets
        /\ Dist(RdOff, WrOff) \in 0 .. Size - 1
    BY <1>1, DistRange DEF IInv, TypeOK, WriterInv
  <1>3. data[done + 1] \in Chars
    BY <1>2 DEF IInv, TypeOK
  <1>4. TypeOK'
    BY <1>1, <1>2, <1>3, NextIsWrap
    DEF hostVars, IInv, TypeOK, WriterPcs
  <1>5. WriterInv'
    <2>1. next = Wrap(WrOff + (done + 1))
      BY <1>2, NextIsWrap, WrapAdd, RttAssumption DEF Offsets
    <2>2. ASSUME NEW k \in 1 .. done + 1
          PROVE  s_up_buf'[Wrap(WrOff + k - 1)] = data[k]
      <3>1. CASE k \in 1 .. done
        BY <1>1, <1>2, <3>1, StoreCell DEF IInv, TypeOK, WriterInv
      <3>2. CASE k = done + 1
        <4>1. WrOff + k - 1 = WrOff + done
          BY <1>2, <3>2 DEF Offsets
        <4> QED
          BY <1>1, <1>2, <3>2, <4>1 DEF IInv, TypeOK
      <3> QED
        BY <1>2, <3>1, <3>2
    <2>3. (\A k \in 1 .. done : s_up_buf[Wrap(WrOff + k - 1)] = data[k])'
      BY <1>1, <2>2 DEF Wrap
    <2> QED
      BY <1>1, <1>2, <2>1, <2>3, RttAssumption DEF WriterInv, Dist, Wrap
  <1>6. HostInv'
    <2> SUFFICES ASSUME hpc = "copy"
                 PROVE  \A k \in 1 .. Len(batch) :
                          batch[k] = s_up_buf'[Wrap(RdOff + k - 1)]
      BY <1>1 DEF hostVars, IInv, HostInv, Dist, Wrap
    <2>1. Len(batch) \in Nat /\ Len(batch) <= Dist(RdOff, WrOff)
      <3>1. Dist(RdOff, hwr) \in 0 .. Size - 1
        BY DistRange DEF IInv, TypeOK
      <3> QED
        BY <1>2, <3>1, RttAssumption DEF IInv, TypeOK, HostInv
    <2>2. \A k \in 1 .. Len(batch) :
            /\ Wrap(RdOff + k - 1) \in Offsets
            /\ Wrap(RdOff + k - 1) # wr
      BY <1>2, <2>1, StoreCell
    <2> QED
      BY <1>1, <2>2 DEF IInv, TypeOK, HostInv
  <1> QED
    BY <1>4, <1>5, <1>6 DEF IInv

LEMMA PublishInv ==
  ASSUME IInv, PublishWrOff
  PROVE  IInv'
  <1> DEFINE D == Dist(RdOff, WrOff)
  <1>1. /\ D \in 0 .. Size - 1 /\ done \in Nat /\ D + done <= Size - 1
        /\ wr = Wrap(WrOff + done) /\ WrOff = Wrap(RdOff + D)
        /\ RdOff \in Offsets
    BY DistRange DEF PublishWrOff, IInv, TypeOK, WriterInv
  <1>2. wr = Wrap(RdOff + (D + done)) /\ D + done \in 0 .. Size - 1
    <2>1. wr = Wrap(RdOff + D + done)
      BY <1>1, WrapAdd, RttAssumption
    <2>2. RdOff + D + done = RdOff + (D + done)
      <3>1. RdOff \in Nat
        BY <1>1 DEF Offsets
      <3> HIDE DEF D
      <3> QED
        BY <1>1, <3>1
    <2> QED
      BY <1>1, <2>1, <2>2
  <1>3. Dist(RdOff, wr) = D + done
    BY <1>1, <1>2, WrapRange
  <1>4. TypeOK'
    BY DEF PublishWrOff, hostVars, IInv, TypeOK, WriterPcs
  <1>5. WriterInv'
    BY DEF PublishWrOff, WriterInv
  <1>6. HostInv'
    <2> SUFFICES ASSUME hpc = "copy" PROVE Dist(RdOff, hwr) <= Dist(RdOff, wr)
      BY DEF PublishWrOff, hostVars, IInv, HostInv, Dist, Wrap
    <2>1. Dist(RdOff, hwr) <= D /\ Dist(RdOff, hwr) \in 0 .. Size - 1
      BY DistRange DEF IInv, TypeOK, HostInv
    <2> HIDE DEF D
    <2> QED
      BY <1>1, <1>3, <2>1, RttAssumption
  <1> QED
    BY <1>4, <1>5, <1>6 DEF IInv

LEMMA SampleInv ==
  ASSUME IInv, HostSample
  PROVE  IInv'
  <1>1. TypeOK'
    BY DEF HostSample, writerVars, IInv, TypeOK, HostPcs
  <1>2. WriterInv'
    BY DEF HostSample, writerVars, IInv, WriterInv, Dist, Wrap
  <1>3. HostInv'
    <2>1. Dist(RdOff, WrOff) \in 0 .. Size - 1 /\ Wrap(RdOff + 0) = RdOff
      <3>1. Dist(RdOff, WrOff) \in 0 .. Size - 1
        BY DistRange DEF IInv, TypeOK
      <3>2. Wrap(RdOff + 0) = RdOff
        BY RttAssumption DEF IInv, TypeOK, Offsets, Wrap
      <3> QED
        BY <3>1, <3>2
    <2> QED
      BY <2>1 DEF HostSample, HostInv, Dist, Wrap
  <1> QED
    BY <1>1, <1>2, <1>3 DEF IInv

LEMMA CopyInv ==
  ASSUME IInv, HostCopy
  PROVE  IInv'
  <1> DEFINE L == Len(batch)
  <1>1. /\ L \in Nat /\ L <= Dist(RdOff, hwr)
        /\ Dist(RdOff, hwr) \in 0 .. Size - 1
        /\ hrd = Wrap(RdOff + L) /\ RdOff \in Offsets /\ hrd \in Offsets
        /\ hwr \in Offsets /\ hrd # hwr
    BY DistRange DEF HostCopy, IInv, TypeOK, HostInv
  <1>2. L < Dist(RdOff, hwr)
    <2>1. L # Dist(RdOff, hwr)
      BY <1>1, DistRange
    <2> QED
      BY <1>1, <2>1
  <1>3. hrd + 1 \in Nat /\ Wrap(hrd + 1) = Wrap(RdOff + (L + 1))
    <2>1. Wrap(hrd + 1) = Wrap(RdOff + L + 1)
      BY <1>1, <1>2, WrapAdd, RttAssumption
    <2>2. RdOff + L + 1 = RdOff + (L + 1) /\ hrd + 1 \in Nat
      BY <1>1 DEF Offsets
    <2> QED
      BY <2>1, <2>2
  <1>4. Wrap(hrd + 1) \in Offsets
    BY <1>1, RttAssumption DEF Offsets, Wrap
  <1>5. s_up_buf[hrd] \in Cells
    BY <1>1 DEF IInv, TypeOK, Cells
  <1>6. /\ batch' \in Seq(Cells) /\ Len(batch') = L + 1
        /\ \A k \in 1 .. L : batch'[k] = batch[k]
        /\ batch'[L + 1] = s_up_buf[hrd]
    BY <1>5 DEF HostCopy, IInv, TypeOK, Cells
  <1>7. TypeOK'
    BY <1>4, <1>6 DEF HostCopy, writerVars, IInv, TypeOK, HostPcs, Cells
  <1>8. WriterInv'
    BY DEF HostCopy, writerVars, IInv, WriterInv, Dist, Wrap
  <1>9. HostInv'
    <2>1. ASSUME NEW k \in 1 .. L + 1
          PROVE  batch'[k] = s_up_buf[Wrap(RdOff + k - 1)]
      <3>1. CASE k \in 1 .. L
        BY <1>6, <3>1 DEF HostCopy, IInv, HostInv
      <3>2. CASE k = L + 1
        <4>1. RdOff + k - 1 = RdOff + L
          BY <1>1, <3>2 DEF Offsets
        <4> QED
          BY <1>1, <1>6, <3>2, <4>1
      <3> QED
        BY <1>1, <3>1, <3>2
    <2>2. Len(batch') <= Dist(RdOff, hwr) /\ hrd' = Wrap(RdOff + Len(batch'))
      BY <1>1, <1>2, <1>3, <1>6, RttAssumption DEF HostCopy
    <2>3. \A k \in 1 .. Len(batch') : batch'[k] = s_up_buf[Wrap(RdOff + k - 1)]
      BY <1>6, <2>1
    <2>4. UNCHANGED <<s_up_buf, WrOff, RdOff, hwr>>
      BY DEF HostCopy
    <2>5. Dist(RdOff, hwr) <= Dist(RdOff, WrOff)
      BY DEF HostCopy, IInv, HostInv
    <2> QED
      BY <2>2, <2>3, <2>4, <2>5 DEF HostInv, Dist, Wrap
  <1> QED
    BY <1>7, <1>8, <1>9 DEF IInv

(* What the probe frees: a prefix of what waits, from RdOff on.            *)
LEMMA AdvanceFacts ==
  ASSUME IInv, HostAdvance
  PROVE  /\ Len(batch) \in 0 .. Dist(RdOff, WrOff)
         /\ hrd = Wrap(RdOff + Len(batch)) /\ hrd \in Offsets
         /\ Dist(hrd, WrOff) = Dist(RdOff, WrOff) - Len(batch)
         /\ \A k \in 1 .. Len(batch) : batch[k] = s_up_buf[Wrap(RdOff + k - 1)]
  <1>1. /\ Dist(RdOff, hwr) \in 0 .. Size - 1
        /\ Dist(RdOff, WrOff) \in 0 .. Size - 1
        /\ Len(batch) \in Nat /\ Len(batch) <= Dist(RdOff, hwr)
        /\ Dist(RdOff, hwr) <= Dist(RdOff, WrOff)
        /\ hrd = Wrap(RdOff + Len(batch)) /\ hrd \in Offsets
    BY DistRange DEF HostAdvance, IInv, TypeOK, HostInv
  <1>2. Len(batch) \in 0 .. Dist(RdOff, WrOff)
    BY <1>1, RttAssumption
  <1>3. Dist(hrd, WrOff) = Dist(RdOff, WrOff) - Len(batch)
    BY <1>1, <1>2, DistAdvance DEF IInv, TypeOK
  <1> QED
    BY <1>1, <1>2, <1>3 DEF HostAdvance, IInv, HostInv

LEMMA AdvanceInv ==
  ASSUME IInv, HostAdvance
  PROVE  IInv'
  <1>1. TypeOK'
    BY DEF HostAdvance, writerVars, IInv, TypeOK, HostPcs
  <1>2. WriterInv'
    <2>1. /\ RdOff' = hrd
          /\ UNCHANGED <<s_up_buf, WrOff, data, wpc, wr, done>>
      BY DEF HostAdvance, writerVars
    <2>2. /\ Dist(hrd, WrOff) <= Dist(RdOff, WrOff)
          /\ Dist(hrd, WrOff) \in Nat /\ Dist(RdOff, WrOff) \in Nat
          /\ done \in Nat
      <3>1. Dist(RdOff, WrOff) \in 0 .. Size - 1
        BY DistRange DEF IInv, TypeOK
      <3> QED
        BY <3>1, AdvanceFacts, RttAssumption DEF IInv, TypeOK
    <2>3. Dist(RdOff, WrOff)' = Dist(hrd, WrOff)
      BY <2>1 DEF Dist
    <2> QED
      BY <2>1, <2>2, <2>3, RttAssumption DEF IInv, WriterInv, Wrap
  <1>3. HostInv'
    BY DEF HostAdvance, HostInv
  <1> QED
    BY <1>1, <1>2, <1>3 DEF IInv

LEMMA StepInv == IInv /\ [Next]_vars => IInv'
  <1> SUFFICES ASSUME IInv, [Next]_vars PROVE IInv'
    OBVIOUS
  <1>1. CASE UNCHANGED vars
    BY <1>1
    DEF vars, writerVars, hostVars, IInv, TypeOK, WriterInv, HostInv, Dist,
        Wrap
  <1> QED
    BY <1>1, CallInv, TestInv, StoreInv, PublishInv, SampleInv, CopyInv,
       AdvanceInv
    DEF Next, Writer, InCall, Host

LEMMA Invariance == Spec => []IInv
  BY InitInv, StepInv, PTL DEF Spec
(* Rtt: the variables keep their types, so every access to the ring is     *)
(* within the buffer, for every ring size.                                 *)
THEOREM RttTypeOK == Spec => []TypeOK
  <1>1. IInv => TypeOK
    BY DEF IInv
  <1> QED
    BY <1>1, Invariance, PTL

LEMMA NoOverlapHolds == IInv => NoOverlap
  <1> SUFFICES ASSUME IInv, wpc = "store", hpc = "copy"
               PROVE  Dist(hrd, wr) >= Dist(hrd, hwr)
    BY DEF NoOverlap
  <1> DEFINE L == Len(batch)
             D == Dist(RdOff, WrOff)
             H == Dist(RdOff, hwr)
  <1>1. /\ L \in Nat /\ L <= H /\ H <= D /\ hrd = Wrap(RdOff + L)
        /\ H \in 0 .. Size - 1 /\ D \in 0 .. Size - 1
        /\ RdOff \in Offsets /\ WrOff \in Offsets /\ hwr \in Offsets
    BY DistRange DEF IInv, TypeOK, HostInv
  <1>2. /\ done \in Nat /\ D + done < Size - 1 /\ wr = Wrap(WrOff + done)
        /\ WrOff = Wrap(RdOff + D) /\ wr \in Offsets
    BY <1>1, DistRange DEF IInv, TypeOK, WriterInv
  <1>3. D + done \in 0 .. Size - 1 /\ L \in 0 .. D + done /\ L \in 0 .. H
        /\ H - L <= D + done - L
    <2> HIDE DEF L, D, H
    <2> QED
      BY <1>1, <1>2, RttAssumption
  <1>4. Dist(RdOff, wr) = D + done
    <2>1. wr = Wrap(RdOff + D + done)
      BY <1>1, <1>2, WrapAdd, RttAssumption
    <2>2. RdOff + D + done = RdOff + (D + done)
      <3>1. RdOff \in Nat
        BY <1>1 DEF Offsets
      <3> HIDE DEF D
      <3> QED
        BY <1>1, <1>2, <3>1
    <2> QED
      BY <1>1, <1>3, <2>1, <2>2, WrapRange
  <1>5. Dist(hrd, wr) = D + done - L
    BY <1>1, <1>2, <1>3, <1>4, DistAdvance
  <1>6. Dist(hrd, hwr) = H - L
    BY <1>1, <1>3, DistAdvance
  <1> QED
    BY <1>1, <1>2, <1>3, <1>5, <1>6

(* Rtt: the target never stores into a cell the probe still has to copy,   *)
(* though neither waits for the other.                                     *)
THEOREM RttNoOverlap == Spec => []NoOverlap
  BY Invariance, NoOverlapHolds, PTL

-----------------------------------------------------------------------------
(* The refinement.                                                         *)

waiting == Slice(s_up_buf, RdOff, WrOff)

LEMMA WaitingProperties ==
  ASSUME IInv
  PROVE  /\ waiting \in Seq(Cells) /\ Len(waiting) = Dist(RdOff, WrOff)
         /\ Dist(RdOff, WrOff) \in 0 .. Size - 1
         /\ \A k \in 1 .. Dist(RdOff, WrOff) :
              waiting[k] = s_up_buf[Wrap(RdOff + k - 1)]
  <1>1. s_up_buf \in Rings /\ RdOff \in Offsets /\ WrOff \in Offsets
    BY DEF IInv, TypeOK, Rings, Cells
  <1>2. Dist(RdOff, WrOff) \in 0 .. Size - 1
    BY <1>1, DistRange
  <1> QED
    BY <1>1, <1>2, SliceProperties DEF waiting

LEMMA InitMaps == Init => Channel!Init
  <1> SUFFICES ASSUME Init PROVE waiting = <<>>
    BY DEF Init, Channel!Init, waiting
  <1>1. IInv
    BY InitInv
  <1>2. Dist(RdOff, WrOff) = 0
    BY DEF Init, Dist
  <1>3. waiting \in Seq(Cells) /\ Len(waiting) = 0
    BY <1>1, <1>2, WaitingProperties
  <1> QED
    BY <1>3

(* A call hands its first done characters over to the queue.               *)
LEMMA PublishMaps ==
  ASSUME IInv, PublishWrOff
  PROVE  Channel!Next
  <1> DEFINE D == Dist(RdOff, WrOff)
             q == waiting \o SubSeq(data, 1, done)
  <1>1. /\ D \in 0 .. Size - 1 /\ done \in Nat /\ D + done <= Size - 1
        /\ wr = Wrap(WrOff + done) /\ WrOff = Wrap(RdOff + D)
        /\ RdOff \in Offsets /\ WrOff \in Offsets
        /\ \A k \in 1 .. done : s_up_buf[Wrap(WrOff + k - 1)] = data[k]
    BY DistRange DEF PublishWrOff, IInv, TypeOK, WriterInv
  <1>0. /\ s_up_buf \in Rings /\ done \in 0 .. Len(data)
        /\ data \in Seq(Cells)
    <2>1. data \in Seq(Chars) /\ Chars \subseteq Cells
      BY DEF IInv, TypeOK, Cells
    <2>2. data \in Seq(Cells)
      BY <2>1
    <2> QED
      BY <2>2 DEF IInv, TypeOK, Rings, Cells
  <1>2. IInv'
    BY PublishInv
  <1>3. WrOff' = wr /\ UNCHANGED <<s_up_buf, RdOff, data, taken>>
    BY DEF PublishWrOff, hostVars
  <1>4. Dist(RdOff, wr) = D + done
    <2>1. wr = Wrap(RdOff + D + done)
      BY <1>1, WrapAdd, RttAssumption
    <2>2. RdOff + D + done = RdOff + (D + done) /\ D + done \in 0 .. Size - 1
      <3>1. RdOff \in Nat
        BY <1>1 DEF Offsets
      <3> HIDE DEF D
      <3> QED
        BY <1>1, <3>1
    <2> QED
      BY <1>1, <2>1, <2>2, WrapRange
  <1>5. /\ waiting' \in Seq(Cells) /\ Len(waiting') = D + done
        /\ \A k \in 1 .. D + done :
             waiting'[k] = s_up_buf[Wrap(RdOff + k - 1)]
    <2>1. waiting' = Slice(s_up_buf, RdOff, wr) /\ wr \in Offsets
      BY <1>3 DEF waiting, Slice, Dist, Wrap, IInv, TypeOK
    <2>2. /\ Slice(s_up_buf, RdOff, wr) \in Seq(Cells)
          /\ Len(Slice(s_up_buf, RdOff, wr)) = Dist(RdOff, wr)
          /\ \A k \in 1 .. Dist(RdOff, wr) :
               Slice(s_up_buf, RdOff, wr)[k] = s_up_buf[Wrap(RdOff + k - 1)]
      BY <1>1, <1>0, <2>1, SliceProperties
    <2> QED
      BY <1>4, <2>1, <2>2
  <1>6. /\ waiting \in Seq(Cells) /\ Len(waiting) = D
        /\ \A k \in 1 .. D : waiting[k] = s_up_buf[Wrap(RdOff + k - 1)]
    BY WaitingProperties
  <1>7. /\ SubSeq(data, 1, done) \in Seq(Cells)
        /\ Len(SubSeq(data, 1, done)) = done
        /\ \A k \in 1 .. done : SubSeq(data, 1, done)[k] = data[k]
    BY <1>1, <1>0, PartOfSeq
  <1>8. /\ q \in Seq(Cells) /\ Len(q) = D + done
        /\ \A k \in 1 .. D + done :
             q[k] = IF k <= D THEN waiting[k]
                              ELSE SubSeq(data, 1, done)[k - D]
    BY <1>6, <1>7, ConcatSeq
  <1>9. ASSUME NEW k \in 1 .. D + done PROVE waiting'[k] = q[k]
    <2>1. CASE k <= D
      <3>1. k \in 1 .. D
        BY <1>1, <2>1
      <3> QED
        BY <1>5, <1>6, <1>8, <2>1, <3>1
    <2>2. CASE ~(k <= D)
      <3>1. k - D \in 1 .. done /\ k \in Nat /\ D \in Nat
        BY <1>1, <2>2
      <3>2. q[k] = s_up_buf[Wrap(WrOff + (k - D) - 1)]
        BY <1>1, <1>7, <1>8, <2>2, <3>1
      <3>3. Wrap(WrOff + (k - D) - 1) = Wrap(RdOff + k - 1)
        <4>1. D + (k - D - 1) <= Size /\ k - D - 1 \in Nat
          <5> HIDE DEF D
          <5> QED
            BY <1>1, <3>1, RttAssumption
        <4>2. Wrap(Wrap(RdOff + D) + (k - D - 1)) = Wrap(RdOff + D + (k - D - 1))
          BY <1>1, <3>1, <4>1, WrapAdd
        <4>3. /\ WrOff + (k - D) - 1 = WrOff + (k - D - 1)
              /\ RdOff + D + (k - D - 1) = RdOff + k - 1
          <5>1. WrOff \in Nat /\ RdOff \in Nat
            BY <1>1 DEF Offsets
          <5> HIDE DEF D
          <5> QED
            BY <1>1, <3>1, <5>1
        <4> QED
          BY <1>1, <4>2, <4>3
      <3> QED
        BY <1>5, <3>2, <3>3
    <2> QED
      BY <2>1, <2>2
  <1>10. waiting' = q
    BY <1>5, <1>8, <1>9, SameSeq
  <1>11. Channel!Publish(done)
    <2>1. Len(waiting) + done <= Size - 1
      BY <1>1, <1>6
    <2> QED
      BY <1>3, <1>10, <2>1 DEF Channel!Publish, waiting
  <1> QED
    BY <1>1, <1>0, <1>11 DEF Channel!Next

(* The probe takes a prefix of the queue.                                  *)
LEMMA AdvanceMaps ==
  ASSUME IInv, HostAdvance
  PROVE  Channel!Next
  <1> DEFINE D == Dist(RdOff, WrOff)
             n == Len(batch)
  <1>1. /\ n \in 0 .. D /\ D \in 0 .. Size - 1
        /\ hrd = Wrap(RdOff + n) /\ hrd \in Offsets
        /\ Dist(hrd, WrOff) = D - n
        /\ \A k \in 1 .. n : batch[k] = s_up_buf[Wrap(RdOff + k - 1)]
        /\ RdOff \in Offsets /\ WrOff \in Offsets /\ s_up_buf \in Rings
        /\ batch \in Seq(Cells)
    BY AdvanceFacts, WaitingProperties DEF IInv, TypeOK, Rings, Cells
  <1>2. /\ RdOff' = hrd /\ taken' = batch
        /\ UNCHANGED <<s_up_buf, WrOff, data>>
    BY DEF HostAdvance, writerVars
  <1>3. /\ waiting \in Seq(Cells) /\ Len(waiting) = D
        /\ \A k \in 1 .. D : waiting[k] = s_up_buf[Wrap(RdOff + k - 1)]
    BY WaitingProperties
  <1>4. /\ waiting' \in Seq(Cells) /\ Len(waiting') = D - n
        /\ \A k \in 1 .. D - n : waiting'[k] = s_up_buf[Wrap(hrd + k - 1)]
    <2>1. waiting' = Slice(s_up_buf, hrd, WrOff)
      BY <1>2 DEF waiting, Slice, Dist, Wrap
    <2>2. LET s == Slice(s_up_buf, hrd, WrOff)
          IN  /\ s \in Seq(Cells) /\ Len(s) = Dist(hrd, WrOff)
              /\ \A k \in 1 .. Dist(hrd, WrOff) : s[k] = s_up_buf[Wrap(hrd + k - 1)]
      <3> HIDE DEF D, n
      <3> QED
        BY <1>1, SliceProperties
    <2> HIDE DEF D, n
    <2> QED
      BY <1>1, <2>1, <2>2
  <1>5. taken' = SubSeq(waiting, 1, n)
    <2>1. /\ SubSeq(waiting, 1, n) \in Seq(Cells)
          /\ Len(SubSeq(waiting, 1, n)) = n
          /\ \A k \in 1 .. n : SubSeq(waiting, 1, n)[k] = waiting[k]
      BY <1>1, <1>3, PartOfSeq
    <2>2. \A k \in 1 .. n : SubSeq(waiting, 1, n)[k] = batch[k]
      BY <1>1, <1>3, <2>1
    <2> QED
      BY <1>1, <1>2, <2>1, <2>2, SameSeq
  <1>6. waiting' = SubSeq(waiting, n + 1, Len(waiting))
    <2> DEFINE r == SubSeq(waiting, n + 1, D)
    <2>1. n + 1 \in 1 .. D + 1 /\ D \in 0 .. D /\ D - (n + 1) + 1 = D - n
          /\ n + 1 <= D + 1
      <3> HIDE DEF D, n
      <3> QED
        BY <1>1
    <2>2. /\ r \in Seq(Cells) /\ Len(r) = D - n
          /\ \A k \in 1 .. D - n : r[k] = waiting[n + 1 + k - 1]
      BY <1>3, <2>1, PartOfSeq
    <2>3. ASSUME NEW k \in 1 .. D - n PROVE waiting'[k] = r[k]
      <3>1. /\ n + 1 + k - 1 \in 1 .. D /\ k - 1 \in Nat /\ n \in Nat
            /\ n + (k - 1) <= Size
        <4> HIDE DEF D, n
        <4> QED
          BY <1>1, RttAssumption
      <3>2. r[k] = s_up_buf[Wrap(RdOff + (n + 1 + k - 1) - 1)]
        BY <1>3, <2>2, <3>1
      <3>3. Wrap(hrd + (k - 1)) = Wrap(RdOff + n + (k - 1))
        BY <1>1, <3>1, WrapAdd
      <3>4. /\ hrd + (k - 1) = hrd + k - 1
            /\ RdOff + (n + 1 + k - 1) - 1 = RdOff + n + (k - 1)
        <4>1. hrd \in Nat /\ RdOff \in Nat
          BY <1>1 DEF Offsets
        <4> HIDE DEF D, n
        <4> QED
          BY <3>1, <4>1
      <3> QED
        BY <1>4, <3>2, <3>3, <3>4
    <2>4. waiting' = r
      BY <1>4, <2>2, <2>3, SameSeq
    <2> QED
      BY <1>3, <2>4
  <1>7. Channel!Take(n)
    BY <1>2, <1>5, <1>6 DEF Channel!Take, waiting
  <1> QED
    BY <1>1, <1>3, <1>7 DEF Channel!Next, waiting

(* What the target stores is not visible before it is published.           *)
LEMMA StoreMaps ==
  ASSUME IInv, Store
  PROVE  UNCHANGED Channel!vars
  <1> DEFINE D == Dist(RdOff, WrOff)
  <1>1. /\ s_up_buf' = [s_up_buf EXCEPT ![wr] = data[done + 1]]
        /\ UNCHANGED <<WrOff, RdOff, data, taken>>
    BY DEF Store, hostVars
  <1>2. D \in Nat /\ done \in Nat /\ s_up_buf \in Rings
    BY WaitingProperties DEF IInv, TypeOK, Rings, Cells
  <1>3. ASSUME NEW k \in 1 .. D
        PROVE  s_up_buf'[Wrap(RdOff + k - 1)] = s_up_buf[Wrap(RdOff + k - 1)]
    <2>1. k \in 1 .. D + done
      BY <1>2
    <2> QED
      BY <1>1, <1>2, <2>1, StoreCell DEF Rings
  <1>4. waiting' = [k \in 1 .. D |-> s_up_buf'[Wrap(RdOff + k - 1)]]
    BY <1>1 DEF waiting, Slice, Dist, Wrap
  <1>5. waiting' = waiting
    BY <1>3, <1>4 DEF waiting, Slice
  <1> QED
    BY <1>1, <1>5 DEF Channel!vars, waiting

LEMMA StepMaps == IInv /\ [Next]_vars => [Channel!Next]_Channel!vars
  <1> SUFFICES ASSUME IInv, [Next]_vars
               PROVE  Channel!Next \/ UNCHANGED Channel!vars
    OBVIOUS
  <1>1. ASSUME UNCHANGED <<s_up_buf, RdOff, WrOff>> PROVE waiting' = waiting
    BY <1>1 DEF waiting, Slice, Dist, Wrap
  <1>2. CASE \E d \in Strings : rtt_write(d)
    <2>1. Channel!Call
      BY <1>1, <1>2, StringsAreSeqs
      DEF rtt_write, hostVars, Channel!Call, waiting
    <2> QED
      BY <2>1 DEF Channel!Next
  <1>3. CASE Test \/ HostSample \/ HostCopy \/ UNCHANGED vars
    BY <1>1, <1>3
    DEF Test, HostSample, HostCopy, vars, writerVars, hostVars, Channel!vars,
        waiting
  <1> QED
    BY <1>2, <1>3, StoreMaps, PublishMaps, AdvanceMaps
    DEF Next, Writer, InCall, Host

(* Rtt: the ring and its two offsets implement the lossy queue: the host   *)
(* takes every published character once, in order, and none that is not    *)
(* completely written.                                                     *)
THEOREM RttImplementsChannel == Spec => ImplementsChannel
  BY InitMaps, StepMaps, Invariance, PTL DEF Spec, ImplementsChannel, Channel!Spec

-----------------------------------------------------------------------------
(***************************************************************************)
(* RttBoot: what holds of the ring whatever the probe stores into it, when *)
(* the control block may be recognised, and that a ring which was once     *)
(* empty with both sides idle is the queue of RttChannel (the invariant    *)
(* and the step lemmas above) until the next reset.                        *)
(***************************************************************************)

(* The place of the target: rtt_write runs only after rtt_init, and stores *)
(* only characters of its argument, whatever RdOff holds.                  *)
PlaceInv ==
  /\ boot # "run" => wpc = "idle"
  /\ wpc = "store" => done < Len(data)

BootInv == BootTypeOK /\ PlaceInv

LEMMA BootInitInv == BootInit => BootInv
  <1> SUFFICES ASSUME BootInit PROVE BootInv
    OBVIOUS
  <1>1. TypeOK
    BY InitInv DEF BootInit, IInv
  <1> QED
    BY <1>1 DEF BootInit, Init, BootInv, BootTypeOK, PlaceInv

LEMMA PutType ==
  ASSUME BootInv, NEW x, NEW all \in SUBSET Bss, NEW next_boot \in {"init", "run"},
         Put(x, all, next_boot), boot # "run",
         filled' \subseteq Fields, s_up_buf' \in [Offsets -> Chars \cup {Blank}],
         healed' \in BOOLEAN
  PROVE  BootInv'
  <1>1. /\ boot' \in {"zero", "init", "run"} /\ stored' \subseteq Bss
        /\ WrOff' \in Offsets /\ RdOff' \in Offsets
        /\ UNCHANGED <<data, wpc, wr, done, hpc, hwr, hrd, batch, taken, attached>>
    BY RttAssumption
    DEF Put, BootInv, BootTypeOK, TypeOK, Offsets, writerVars, hostVars
  <1>2. TypeOK'
    BY <1>1 DEF BootInv, BootTypeOK, TypeOK
  <1>3. PlaceInv'
    BY <1>1 DEF BootInv, PlaceInv
  <1> QED
    BY <1>1, <1>2, <1>3 DEF BootInv, BootTypeOK

LEMMA ZeroBssType ==
  ASSUME BootInv, NEW x \in Bss, ZeroBss(x), healed' \in BOOLEAN
  PROVE  BootInv'
  <1>1. /\ boot = "zero" /\ Put(x, Bss, "init")
        /\ filled' = filled \ {x}
        /\ s_up_buf' = IF x = "s_up_buf" THEN [o \in Offsets |-> Blank] ELSE s_up_buf
    BY DEF ZeroBss
  <1>2. s_up_buf' \in [Offsets -> Chars \cup {Blank}]
    BY <1>1 DEF BootInv, BootTypeOK, TypeOK
  <1>3. filled' \subseteq Fields
    BY <1>1 DEF BootInv, BootTypeOK
  <1> QED
    BY <1>1, <1>2, <1>3, PutType

LEMMA InitStoreType ==
  ASSUME BootInv, NEW x \in Bss, rtt_init(x), healed' \in BOOLEAN
  PROVE  BootInv'
  <1>1. /\ boot = "init" /\ Put(x, Block, "run")
        /\ filled' = filled \cup ({x} \cap Fields) /\ s_up_buf' = s_up_buf
    BY DEF rtt_init
  <1>2. Block \in SUBSET Bss
    BY DEF Bss
  <1>3. /\ s_up_buf' \in [Offsets -> Chars \cup {Blank}]
        /\ filled' \subseteq Fields
    BY <1>1 DEF BootInv, BootTypeOK, TypeOK
  <1> QED
    BY <1>1, <1>2, <1>3, PutType

LEMMA LogType ==
  ASSUME BootInv, Log, healed' \in BOOLEAN
  PROVE  BootInv'
  <1>1. boot = "run" /\ Writer /\ UNCHANGED <<boot, stored, filled, attached>>
    BY DEF Log, bootVars
  <1>2. TypeOK /\ PlaceInv
    BY DEF BootInv, BootTypeOK
  <1>3. TypeOK' /\ PlaceInv'
    <2>1. CASE \E d \in Strings : rtt_write(d)
      BY <1>1, <1>2, <2>1, StringsAreSeqs, RttAssumption
      DEF rtt_write, hostVars, TypeOK, PlaceInv, WriterPcs
    <2>2. CASE Test
      BY <1>1, <1>2, <2>2 DEF Test, hostVars, TypeOK, PlaceInv, WriterPcs
    <2>3. CASE Store
      <3>1. next \in Offsets
        BY <1>2, NextIsWrap DEF TypeOK
      <3>2. done < Len(data) /\ data[done + 1] \in Chars /\ done + 1 \in 0 .. Len(data)
        BY <1>2, <2>3 DEF Store, TypeOK, PlaceInv
      <3> QED
        BY <1>1, <1>2, <2>3, <3>1, <3>2
        DEF Store, hostVars, TypeOK, PlaceInv, WriterPcs
    <2>4. CASE PublishWrOff
      BY <1>1, <1>2, <2>4 DEF PublishWrOff, hostVars, TypeOK, PlaceInv, WriterPcs
    <2> QED
      BY <1>1, <2>1, <2>2, <2>3, <2>4 DEF Writer, InCall
  <1> QED
    BY <1>1, <1>3 DEF BootInv, BootTypeOK

LEMMA PollType ==
  ASSUME BootInv, Poll, healed' \in BOOLEAN
  PROVE  BootInv'
  <1>1. Host /\ UNCHANGED <<boot, stored, filled, attached>>
    BY DEF Poll, bootVars
  <1>2. TypeOK /\ PlaceInv
    BY DEF BootInv, BootTypeOK
  <1>3. TypeOK' /\ PlaceInv'
    <2>1. CASE HostSample
      BY <1>1, <1>2, <2>1 DEF HostSample, writerVars, TypeOK, PlaceInv, HostPcs
    <2>2. CASE HostCopy
      <3>1. Wrap(hrd + 1) \in Offsets
        BY <1>2, RttAssumption DEF TypeOK, Offsets, Wrap
      <3>2. Append(batch, s_up_buf[hrd]) \in Seq(Chars \cup {Blank})
        BY <1>2 DEF TypeOK
      <3> QED
        BY <1>1, <1>2, <2>2, <3>1, <3>2 DEF HostCopy, writerVars, TypeOK, PlaceInv
    <2>3. CASE HostAdvance
      BY <1>1, <1>2, <2>3 DEF HostAdvance, writerVars, TypeOK, PlaceInv, HostPcs
    <2> QED
      BY <1>1, <2>1, <2>2, <2>3 DEF Host
  <1> QED
    BY <1>1, <1>3 DEF BootInv, BootTypeOK

LEMMA BootStepInv == BootInv /\ [BootNext]_allVars => BootInv'
  <1> SUFFICES ASSUME BootInv, [BootNext]_allVars PROVE BootInv'
    OBVIOUS
  <1>1. CASE UNCHANGED allVars
    BY <1>1
    DEF allVars, vars, bootVars, writerVars, hostVars, BootInv, BootTypeOK,
        TypeOK, PlaceInv
  <1>2. CASE BootNext
    <2>1. healed' \in BOOLEAN
      BY <1>2 DEF BootNext, Witness, Drained, BootInv, BootTypeOK
    <2>2. CASE Reset
      <3>1. TypeOK'
        BY <2>2, RttAssumption
        DEF Reset, hostVars, BootInv, BootTypeOK, TypeOK, Offsets, WriterPcs
      <3> QED
        BY <2>1, <2>2, <3>1 DEF Reset, BootInv, BootTypeOK, PlaceInv
    <2>3. CASE Attach
      BY <2>1, <2>3
      DEF Attach, vars, writerVars, hostVars, BootInv, BootTypeOK, TypeOK, PlaceInv
    <2>4. CASE Detach
      BY <2>1, <2>4
      DEF Detach, writerVars, BootInv, BootTypeOK, TypeOK, HostPcs, PlaceInv
    <2> QED
      BY <1>2, <2>1, <2>2, <2>3, <2>4, ZeroBssType, InitStoreType, LogType,
         PollType
      DEF BootNext, Boot
  <1> QED
    BY <1>1, <1>2

LEMMA BootInvariance == BootSpec => []BootInv
  BY BootInitInv, BootStepInv, PTL DEF BootSpec

(* RttBoot: every access to the ring is within the buffer, whatever offset *)
(* of a previous run the probe stores into RdOff.                          *)
THEOREM RttBootTypeOK == BootSpec => []BootTypeOK
  <1>1. BootInv => BootTypeOK
    BY DEF BootInv
  <1> QED
    BY <1>1, BootInvariance, PTL

-----------------------------------------------------------------------------
(* The control block.                                                      *)

(* What is zeroed is not filled; what rtt_init has stored is.              *)
BlockInv ==
  /\ boot = "zero" => filled \cap stored = {}
  /\ boot = "init" => filled = stored \cap Fields
  /\ boot = "run" => filled = Fields
  /\ RecognisedIsFormed

LEMMA IdIsZeroedFirst ==
  ASSUME NEW x \in Block, x # "acID"
  PROVE  "acID" \in Before(ZeroOrder, x)
  <1>1. ZeroOrder[1] = "acID" /\ 1 \in 1 .. 6
    BY DEF ZeroOrder
  <1>2. \E k \in 1 + 1 .. 6 : ZeroOrder[k] = x
    BY DEF ZeroOrder, Block, Fields, Volatile
  <1> QED
    BY <1>1, <1>2 DEF Before

LEMMA IdIsStoredLast ==
  ASSUME NEW x \in Block, x # "acID"
  PROVE  x \in Before(InitOrder, "acID")
  <1>1. InitOrder[6] = "acID"
    BY DEF InitOrder
  <1>2. PICK j \in 1 .. 5 : InitOrder[j] = x
    BY DEF InitOrder, Block, Fields, Volatile
  <1>3. j \in 1 .. 6 /\ \E k \in j + 1 .. 6 : InitOrder[k] = "acID"
    BY <1>1
  <1> QED
    BY <1>2, <1>3 DEF Before

LEMMA ZeroBssBlock ==
  ASSUME BootInv, BlockInv, NEW x \in Bss, ZeroBss(x)
  PROVE  BlockInv'
  <1>1. /\ boot = "zero"
        /\ x \in Block => Before(ZeroOrder, x) \subseteq stored
        /\ filled' = filled \ {x}
        /\ IF Bss = stored \cup {x} THEN stored' = {} /\ boot' = "init"
                                    ELSE stored' = stored \cup {x} /\ boot' = "zero"
    BY DEF ZeroBss, Put
  <1>2. filled \cap stored = {} /\ filled \subseteq Fields
    BY <1>1 DEF BlockInv, BootInv, BootTypeOK
  <1>3. RecognisedIsFormed'
    <2>1. CASE x \in Block /\ x # "acID"
      BY <1>1, <1>2, <2>1, IdIsZeroedFirst DEF RecognisedIsFormed
    <2>2. CASE x = "acID"
      BY <1>1, <2>2 DEF RecognisedIsFormed
    <2>3. CASE x \notin Block
      BY <1>1, <1>2, <2>3 DEF BlockInv, RecognisedIsFormed, Block
    <2> QED
      BY <2>1, <2>2, <2>3
  <1>4. CASE Bss = stored \cup {x}
    <2>1. filled' = {}
      BY <1>1, <1>2, <1>4 DEF Bss, Block
    <2> QED
      BY <1>1, <1>3, <1>4, <2>1 DEF BlockInv
  <1>5. CASE Bss # stored \cup {x}
    BY <1>1, <1>2, <1>3, <1>5 DEF BlockInv
  <1> QED
    BY <1>4, <1>5

LEMMA InitStoreBlock ==
  ASSUME ~Reordering, BootInv, BlockInv, NEW x \in Bss, rtt_init(x)
  PROVE  BlockInv'
  <1>1. /\ boot = "init" /\ Before(InitOrder, x) \subseteq stored
        /\ x \in Block \ stored
        /\ filled' = filled \cup ({x} \cap Fields)
        /\ IF Block = stored \cup {x} THEN stored' = {} /\ boot' = "run"
                                      ELSE stored' = stored \cup {x} /\ boot' = "init"
    BY DEF rtt_init, Put, Awaited
  <1>2. filled = stored \cap Fields
    BY <1>1 DEF BlockInv
  <1>3. CASE Block = stored \cup {x}
    <2>1. filled' = Fields
      BY <1>1, <1>2, <1>3 DEF Block
    <2> QED
      BY <1>1, <1>3, <2>1 DEF BlockInv, RecognisedIsFormed
  <1>4. CASE Block # stored \cup {x}
    <2>1. stored' = stored \cup {x} /\ boot' = "init"
      BY <1>1, <1>4
    <2>2. filled' = stored' \cap Fields
      BY <1>1, <1>2, <2>1
    <2>3. "acID" \in filled' => filled' = Fields
      <3> SUFFICES ASSUME "acID" \in filled' PROVE filled' = Fields
        OBVIOUS
      <3>1. CASE x = "acID"
        <4>1. Block \ {"acID"} \subseteq stored
          BY <1>1, <3>1, IdIsStoredLast
        <4> QED
          BY <2>1, <2>2, <3>1, <4>1 DEF Block
      <3>2. CASE x # "acID"
        <4>1. "acID" \in filled
          BY <1>1, <3>2
        <4>2. filled = Fields
          BY <4>1 DEF BlockInv, RecognisedIsFormed
        <4> QED
          BY <1>1, <4>2
      <3> QED
        BY <3>1, <3>2
    <2> QED
      BY <2>1, <2>2, <2>3 DEF BlockInv, RecognisedIsFormed
  <1> QED
    BY <1>3, <1>4

LEMMA BlockStep ==
  ASSUME ~Reordering
  PROVE  BootInv /\ BlockInv /\ [BootNext]_allVars => BlockInv'
  <1> SUFFICES ASSUME BootInv, BlockInv, [BootNext]_allVars PROVE BlockInv'
    OBVIOUS
  <1>1. CASE UNCHANGED <<boot, stored, filled>>
    BY <1>1 DEF BlockInv, RecognisedIsFormed
  <1>2. CASE Reset
    BY <1>2 DEF Reset, BlockInv, RecognisedIsFormed
  <1>3. CASE \E x \in Bss : ZeroBss(x) \/ rtt_init(x)
    BY <1>3, ZeroBssBlock, InitStoreBlock
  <1> QED
    BY <1>1, <1>2, <1>3
    DEF BootNext, Boot, Log, Poll, Attach, Detach, allVars, bootVars

(* RttBoot: if the compiler keeps the stores of rtt_init in the order of   *)
(* the program, the probe never finds the id of a block that is not fully  *)
(* formed, whenever resets come.                                           *)
THEOREM RttBootRecognisedIsFormed ==
  ASSUME ~Reordering
  PROVE  BootSpec => []RecognisedIsFormed
  <1>1. BootInit => BlockInv
    BY DEF BootInit, BlockInv, RecognisedIsFormed, Fields
  <1>2. BootInv /\ BlockInv /\ [BootNext]_allVars => BlockInv'
    BY BlockStep
  <1>3. BlockInv => RecognisedIsFormed
    BY DEF BlockInv
  <1> QED
    BY <1>1, <1>2, <1>3, BootInvariance, PTL DEF BootSpec

-----------------------------------------------------------------------------
(* The ring.                                                               *)

HealedInv == healed => boot = "run" /\ IInv

(* An empty ring with both sides idle meets the invariant of Rtt.          *)
LEMMA DrainedInv == TypeOK /\ Drained => IInv
  BY DEF Drained, IInv, WriterInv, HostInv

LEMMA HealedStep == BootInv /\ HealedInv /\ [BootNext]_allVars => HealedInv'
  <1> SUFFICES ASSUME BootInv, HealedInv, [BootNext]_allVars, healed'
               PROVE  boot' = "run" /\ IInv'
    BY DEF HealedInv
  <1>1. TypeOK' /\ (Drained' => IInv')
    <2>1. BootInv'
      BY BootStepInv
    <2> QED
      BY <2>1, DrainedInv DEF BootInv, BootTypeOK, Drained, IInv, WriterInv, HostInv
  <1>2. CASE UNCHANGED allVars
    BY <1>2
    DEF allVars, vars, bootVars, writerVars, hostVars, HealedInv, IInv, TypeOK,
        WriterInv, HostInv, Dist, Wrap
  <1>3. CASE BootNext
    <2>1. boot' = "run" /\ (healed \/ Drained')
      BY <1>3 DEF BootNext, Witness
    <2>2. CASE healed
      <3>1. boot = "run" /\ IInv
        BY <2>2 DEF HealedInv
      <3>2. CASE Log \/ Poll
        <4>1. Next
          BY <3>2 DEF Log, Poll, Next
        <4> QED
          BY <2>1, <3>1, <4>1, StepInv
      <3>3. CASE Attach
        BY <2>1, <3>1, <3>3
        DEF Attach, vars, writerVars, hostVars, IInv, TypeOK, WriterInv, HostInv,
            Dist, Wrap
      <3>4. CASE Detach
        BY <1>1, <2>1, <3>1, <3>4
        DEF Detach, writerVars, IInv, WriterInv, HostInv, Dist, Wrap
      <3> QED
        BY <1>3, <2>1, <3>1, <3>2, <3>3, <3>4
        DEF BootNext, Boot, ZeroBss, rtt_init, Reset
    <2> QED
      BY <1>1, <2>1, <2>2
  <1> QED
    BY <1>2, <1>3

LEMMA HealedMaps ==
  HealedInv /\ [BootNext]_allVars =>
    [healed /\ healed' => [Channel!Next]_(Channel!vars)]_allVars
  <1> SUFFICES ASSUME HealedInv, BootNext, healed, healed'
               PROVE  [Channel!Next]_(Channel!vars)
    OBVIOUS
  <1>1. boot = "run" /\ IInv /\ boot' = "run"
    BY DEF HealedInv, BootNext, Witness
  <1>2. CASE Log \/ Poll
    <2>1. Next
      BY <1>2 DEF Log, Poll, Next
    <2> QED
      BY <1>1, <2>1, StepMaps
  <1>3. CASE Attach \/ Detach
    BY <1>3
    DEF Attach, Detach, vars, writerVars, hostVars, Channel!vars, Slice, Dist, Wrap
  <1> QED
    BY <1>1, <1>2, <1>3 DEF BootNext, Boot, ZeroBss, rtt_init, Reset

(* RttBoot: once the ring has been empty with both sides idle, it is the   *)
(* lossy queue of RttChannel until the next reset.                         *)
THEOREM RttBootHealedIsChannel == BootSpec => HealedIsChannel
  <1>1. BootInit => HealedInv
    BY DEF BootInit, HealedInv
  <1> QED
    BY <1>1, HealedStep, HealedMaps, BootInvariance, PTL
    DEF BootSpec, HealedIsChannel
=============================================================================
