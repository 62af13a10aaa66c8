---------------------------- MODULE StartupProof ----------------------------
(***************************************************************************)
(* Proofs about Startup, for every size of the sections, of RAM and of a   *)
(* word: what the linker script aligns, the loops of Reset_Handler fill.   *)
(***************************************************************************)
EXTENDS Startup, TLAPS

(* What has been copied and zeroed at each place.                          *)
Copied == /\ pc = "copy" => /\ src = dst /\ dst <= _edata
                            /\ \A a \in Data : a < dst => ram[a] = image[a]
          /\ pc \in {"zero", "entered"} => \A a \in Data : ram[a] = image[a]
Zeroed == /\ pc = "zero" => _sbss <= dst /\ \A a \in Bss : a < dst => ram[a] = 0
          /\ pc = "entered" => \A a \in Bss : ram[a] = 0
IInv == TypeOK /\ NeverParked /\ Copied /\ Zeroed

-----------------------------------------------------------------------------
LEMMA Aligned ==
  ASSUME NEW x \in Nat
  PROVE  ALIGN4(x) \in Nat /\ ALIGN4(x) % 4 = 0 /\ x <= ALIGN4(x)
  BY DEF ALIGN4

LEMMA Layout ==
  /\ _edata \in Nat /\ _edata % 4 = 0
  /\ _sbss \in Nat /\ _sbss % 4 = 0 /\ _sbss = _edata
  /\ _ebss \in Nat /\ _ebss % 4 = 0 /\ _sbss <= _ebss
  /\ _estack \in Nat /\ _estack % 4 = 0 /\ _ebss <= _estack
<1>1. _edata \in Nat /\ _edata % 4 = 0
  BY StartupAssumption, Aligned DEF _edata, _sdata
<1>2. _sbss \in Nat /\ _sbss % 4 = 0 /\ _sbss = _edata
  BY <1>1 DEF _sbss, ALIGN4
<1>3. _ebss \in Nat /\ _ebss % 4 = 0 /\ _sbss <= _ebss
  <2>1. _sbss + BssSize \in Nat /\ _sbss <= _sbss + BssSize
    BY <1>2, StartupAssumption
  <2> QED  BY <1>2, <2>1, Aligned DEF _ebss
<1> QED  BY <1>1, <1>2, <1>3, StartupAssumption DEF _estack

(* A pointer below an aligned bound points to a whole word below it.       *)
LEMMA Below ==
  ASSUME NEW p \in Nat, NEW q \in Nat, p % 4 = 0, q % 4 = 0, p < q
  PROVE  (p + 4) % 4 = 0 /\ p + 4 <= q /\ p + 4 \in Nat
  OBVIOUS

LEMMA HandlerOfReset == Resolved(vector_table(1)) = "Reset_Handler"
  BY StartupAssumption DEF Resolved, vector_table, SystemVectors

LEMMA HandlerOfRtc0 == Resolved(vector_table(16 + 11)) = "RTC0_IRQHandler"
<1>1. vector_table(16 + 11) = IrqVectors[11]
  BY DEF vector_table
<1>2. IrqVectors[11] = "RTC0_IRQHandler"
  BY DEF IrqVectors
<1> QED  BY <1>1, <1>2, StartupAssumption DEF Resolved

LEMMA InitHolds == Init => IInv
  BY HandlerOfReset, Layout
     DEF Init, IInv, TypeOK, NeverParked, Copied, Zeroed

LEMMA CopyKeeps == ASSUME IInv, Copy  PROVE  IInv'
<1> USE Layout
<1>1. /\ pc = "copy" /\ src = dst /\ dst \in Nat /\ dst % 4 = 0 /\ dst <= _edata
      /\ ram \in [Addresses -> Words] /\ image \in [Data -> Words]
      /\ \A a \in Data : a < dst => ram[a] = image[a]
      /\ image' = image /\ enabled' = enabled /\ enabled \subseteq {11}
  BY DEF Copy, IInv, TypeOK, Copied
<1>2. CASE dst < _edata
  <2>1. /\ ram' = [ram EXCEPT ![dst] = image[src]]
        /\ dst' = dst + 4 /\ src' = src + 4 /\ pc' = "copy"
    BY <1>1, <1>2 DEF Copy
  <2>2. dst' % 4 = 0 /\ dst' <= _edata /\ dst' \in Nat
    BY <1>1, <1>2, <2>1, Below
  <2>3. dst \in Addresses /\ dst \in Data
    BY <1>1, <1>2 DEF Addresses, Data
  <2>4. ram' \in [Addresses -> Words] /\ ram'[dst] = image[dst]
    BY <1>1, <2>1, <2>3
  <2>5. ASSUME NEW a \in Data, a < dst'  PROVE  ram'[a] = image'[a]
    <3>1. a \in Nat /\ a % 4 = 0 /\ a \in Addresses
      BY DEF Data, Addresses
    <3>2. a < dst \/ a = dst
      BY <1>1, <2>1, <2>5, <3>1
    <3> QED  BY <1>1, <2>1, <2>4, <3>1, <3>2
  <2>6. TypeOK'
    BY <1>1, <2>1, <2>2, <2>4 DEF TypeOK
  <2> QED  BY <2>1, <2>2, <2>5, <2>6, <1>1 DEF IInv, NeverParked, Copied, Zeroed
<1>3. CASE ~(dst < _edata)
  <2>1. dst' = _sbss /\ pc' = "zero" /\ ram' = ram /\ src' = src
    BY <1>1, <1>3 DEF Copy
  <2>2. \A a \in Data : a < dst
    BY <1>1, <1>3 DEF Data, Addresses
  <2>3. \A a \in Bss : ~(a < dst')
    BY <2>1 DEF Bss, Addresses
  <2>4. TypeOK'
    BY <1>1, <2>1 DEF IInv, TypeOK
  <2> QED  BY <1>1, <2>1, <2>2, <2>3, <2>4 DEF IInv, NeverParked, Copied, Zeroed
<1> QED  BY <1>2, <1>3

LEMMA ZeroKeeps == ASSUME IInv, Zero  PROVE  IInv'
<1> USE Layout
<1>1. /\ pc = "zero" /\ dst \in Nat /\ dst % 4 = 0 /\ dst <= _ebss /\ _sbss <= dst
      /\ ram \in [Addresses -> Words] /\ image \in [Data -> Words]
      /\ \A a \in Data : ram[a] = image[a]
      /\ \A a \in Bss : a < dst => ram[a] = 0
      /\ image' = image /\ enabled' = enabled /\ src' = src /\ enabled \subseteq {11}
  BY DEF Zero, IInv, TypeOK, Copied, Zeroed
<1>2. CASE dst < _ebss
  <2>1. ram' = [ram EXCEPT ![dst] = 0] /\ dst' = dst + 4 /\ pc' = "zero"
    BY <1>1, <1>2 DEF Zero
  <2>2. dst' % 4 = 0 /\ dst' <= _ebss /\ dst' \in Nat /\ _sbss <= dst'
    BY <1>1, <1>2, <2>1, Below
  <2>3. dst \in Addresses /\ \A a \in Data : a # dst
    BY <1>1, <1>2 DEF Addresses, Data
  <2>4. ram' \in [Addresses -> Words] /\ ram'[dst] = 0
    BY <1>1, <2>1, <2>3, StartupAssumption
  <2>5. ASSUME NEW a \in Bss, a < dst'  PROVE  ram'[a] = 0
    <3>1. a \in Nat /\ a % 4 = 0 /\ a \in Addresses
      BY DEF Bss, Addresses
    <3>2. a < dst \/ a = dst
      BY <1>1, <2>1, <2>5, <3>1
    <3> QED  BY <1>1, <2>1, <2>4, <3>1, <3>2
  <2>6. \A a \in Data : ram'[a] = image'[a]
    BY <1>1, <2>1, <2>3 DEF Data
  <2>7. TypeOK'
    BY <1>1, <2>1, <2>2, <2>4 DEF IInv, TypeOK
  <2> QED  BY <2>1, <2>2, <2>5, <2>6, <2>7 DEF IInv, NeverParked, Copied, Zeroed
<1>3. CASE ~(dst < _ebss)
  <2>1. dst' = dst /\ pc' = "entered" /\ ram' = ram
    BY <1>1, <1>3 DEF Zero
  <2>2. \A a \in Bss : a < dst
    BY <1>1, <1>3 DEF Bss, Addresses
  <2>3. TypeOK'
    BY <1>1, <2>1 DEF IInv, TypeOK
  <2> QED  BY <1>1, <2>1, <2>2, <2>3 DEF IInv, NeverParked, Copied, Zeroed
<1> QED  BY <1>2, <1>3

LEMMA OthersKeep ==
  ASSUME IInv, Reset_Handler \/ Main \/ rtc_init \/ Interrupt \/ InterruptReturn \/ Reset
                 \/ UNCHANGED vars
  PROVE  IInv'
<1> USE DEF IInv, TypeOK, NeverParked, Copied, Zeroed
<1>1. CASE Reset_Handler
  <2>1. \A a \in Data : ~(a < 0)
    BY DEF Data, Addresses
  <2> QED  BY <1>1, <2>1, Layout DEF Reset_Handler, _sdata
<1>2. CASE Main
  BY <1>2 DEF Main
<1>3. CASE rtc_init
  BY <1>3 DEF rtc_init
<1>4. CASE Interrupt
  <2>1. pc' = "RTC0_IRQHandler"
    BY <1>4, HandlerOfRtc0 DEF Interrupt
  <2> QED  BY <1>4, <2>1 DEF Interrupt
<1>5. CASE InterruptReturn
  BY <1>5 DEF InterruptReturn
<1>6. CASE Reset
  BY <1>6, HandlerOfReset DEF Reset
<1>7. CASE UNCHANGED vars
  BY <1>7 DEF vars
<1> QED  BY <1>1, <1>2, <1>3, <1>4, <1>5, <1>6, <1>7

LEMMA StepHolds == IInv /\ [Next]_vars => IInv'
  BY CopyKeeps, ZeroKeeps, OthersKeep DEF Next

LEMMA StepKeepsStack ==
  ASSUME IInv, [Next]_vars, NEW a \in Addresses, a >= _ebss,
         pc \in {"Reset_Handler", "copy", "zero"}
  PROVE  ram'[a] = ram[a]
<1> USE Layout
<1>1. a \in Nat /\ dst \in Nat /\ ram \in [Addresses -> Words]
  BY DEF IInv, TypeOK, Addresses
<1>2. CASE Copy
  <2>1. dst < _edata => dst # a
    BY <1>1
  <2> QED  BY <1>1, <1>2, <2>1 DEF Copy
<1>3. CASE Zero
  <2>1. dst < _ebss => dst # a
    BY <1>1
  <2> QED  BY <1>1, <1>3, <2>1 DEF Zero
<1>4. CASE ~Copy /\ ~Zero
  BY <1>4 DEF Next, vars, Reset_Handler, Main, rtc_init, Interrupt, InterruptReturn, Reset
<1> QED  BY <1>2, <1>3, <1>4

-----------------------------------------------------------------------------
LEMMA SpecInvariant == Spec => []IInv
  BY InitHolds, StepHolds, PTL DEF Spec

(* The loops write aligned words inside the sections.                      *)
THEOREM StartupTypeOK == Spec => []TypeOK
  BY SpecInvariant, PTL DEF IInv

(* main finds every static at its initial value, after every reset.        *)
THEOREM StartupStaticsInitialised == Spec => []StaticsInitialised
<1>1. IInv => StaticsInitialised
  BY DEF IInv, Copied, Zeroed, StaticsInitialised
<1> QED  BY <1>1, SpecInvariant, PTL

(* The interrupt of the timer is dispatched to its handler.                *)
THEOREM StartupNeverParked == Spec => []NeverParked
  BY SpecInvariant, PTL DEF IInv

(* The loops leave everything behind .bss alone.                           *)
THEOREM StartupStackKept == Spec => StackKept
<1> DEFINE Kept == \A a \in Addresses :
             pc \in {"Reset_Handler", "copy", "zero"} /\ a >= _ebss => ram'[a] = ram[a]
<1>1. IInv /\ [Next]_vars => Kept
  BY StepKeepsStack
<1>2. StackKept <=> [][Kept]_vars
  BY DEF StackKept
<1> QED  BY <1>1, <1>2, SpecInvariant, PTL DEF Spec, StackKept

=============================================================================
