------------------------------ MODULE Startup ------------------------------
(***************************************************************************)
(* src/startup.c between the vector table, the sections of                 *)
(* linker/nrf52840.ld and main: a reset may come at any time, with         *)
(* whatever RAM then holds.  Addresses are byte offsets in RAM.            *)
(***************************************************************************)
EXTENDS Integers, Sequences

CONSTANTS
  DataSize, BssSize,   \* bytes of initialised and of zeroed objects
  LENGTH,              \* bytes of RAM
  Words,               \* contents of a word
  Strong               \* handlers with a definition besides the weak alias

(* The linker script.                                                      *)
Unaligned(x) == x
ALIGN4(x) == 4 * ((x + 3) \div 4)
_sdata == 0
_edata == ALIGN4(_sdata + DataSize)
_sbss == ALIGN4(_edata)
_ebss == ALIGN4(_sbss + BssSize)
_estack == LENGTH

ASSUME StartupAssumption ==
  /\ DataSize \in Nat /\ BssSize \in Nat
  /\ LENGTH \in Nat /\ LENGTH % 4 = 0 /\ _ebss <= LENGTH
  /\ 0 \in Words
  /\ "RTC0_IRQHandler" \in Strong /\ "Reset_Handler" \in Strong

Addresses == {a \in 0 .. _estack - 1 : a % 4 = 0}
Data == {a \in Addresses : a < _edata}
Bss == {a \in Addresses : _sbss <= a /\ a < _ebss}

VARIABLES
  pc,          \* the handler entered, or the place in Reset_Handler and main
  ram,
  image,       \* the initial values of .data in flash, from _sidata on
  src, dst,    \* src as an offset from _sidata
  enabled      \* interrupts enabled in the NVIC

vars == <<pc, ram, image, src, dst, enabled>>

-----------------------------------------------------------------------------
(* The vector table.                                                       *)

Resolved(h) == IF h \in Strong THEN h ELSE "Default_Handler"

SystemVectors ==
  << "_estack", "Reset_Handler", "NMI_Handler", "HardFault_Handler", "MemManage_Handler",
     "BusFault_Handler", "UsageFault_Handler", "0", "0", "0", "0", "SVC_Handler",
     "DebugMon_Handler", "0", "PendSV_Handler", "SysTick_Handler" >>

(* The interrupts with a name of their own; all others are Default_Handler.*)
IrqVectors ==
  [n \in 0 .. 29 |-> CASE n = 0  -> "POWER_CLOCK_IRQHandler"
                       [] n = 1  -> "RADIO_IRQHandler"
                       [] n = 11 -> "RTC0_IRQHandler"
                       [] n = 13 -> "RNG_IRQHandler"
                       [] OTHER  -> "Default_Handler"]

(* Mutant: the word after DebugMon_Handler is left out.                    *)
vector_table_short(k) ==
  IF k < 13 THEN SystemVectors[k + 1]
  ELSE IF k < 15 THEN SystemVectors[k + 2] ELSE IrqVectors[k - 15]

vector_table(k) == IF k < 16 THEN SystemVectors[k + 1] ELSE IrqVectors[k - 16]

-----------------------------------------------------------------------------
Init ==
  /\ pc = Resolved(vector_table(1))
  /\ ram \in [Addresses -> Words] /\ image \in [Data -> Words]
  /\ src = 0 /\ dst = 0 /\ enabled = {}

Reset_Handler ==
  /\ pc = "Reset_Handler" /\ pc' = "copy"
  /\ src' = 0 /\ dst' = _sdata
  /\ UNCHANGED <<ram, image, enabled>>

(* Mutant: the last word of .data is left out.                             *)
CopyShort ==
  /\ pc = "copy"
  /\ IF dst + 4 < _edata
       THEN /\ ram' = [ram EXCEPT ![dst] = image[src]]
            /\ dst' = dst + 4 /\ src' = src + 4 /\ pc' = pc
       ELSE dst' = _sbss /\ pc' = "zero" /\ UNCHANGED <<ram, src>>
  /\ UNCHANGED <<image, enabled>>

Copy ==
  /\ pc = "copy"
  /\ IF dst < _edata
       THEN /\ ram' = [ram EXCEPT ![dst] = image[src]]
            /\ dst' = dst + 4 /\ src' = src + 4 /\ pc' = pc
       ELSE dst' = _sbss /\ pc' = "zero" /\ UNCHANGED <<ram, src>>
  /\ UNCHANGED <<image, enabled>>

(* Mutant: the word at _ebss is zeroed too.                                *)
ZeroTooFar ==
  /\ pc = "zero"
  /\ IF dst <= _ebss
       THEN ram' = [ram EXCEPT ![dst] = 0] /\ dst' = dst + 4 /\ pc' = pc
       ELSE pc' = "entered" /\ UNCHANGED <<ram, dst>>
  /\ UNCHANGED <<image, src, enabled>>

Zero ==
  /\ pc = "zero"
  /\ IF dst < _ebss
       THEN ram' = [ram EXCEPT ![dst] = 0] /\ dst' = dst + 4 /\ pc' = pc
       ELSE pc' = "entered" /\ UNCHANGED <<ram, dst>>
  /\ UNCHANGED <<image, src, enabled>>

(* main writes its statics and the stack, and never returns.               *)
Main ==
  /\ pc \in {"entered", "main"} /\ pc' = "main"
  /\ \E a \in Addresses, w \in Words : ram' = [ram EXCEPT ![a] = w]
  /\ UNCHANGED <<image, src, dst, enabled>>

(* rtc_init enables interrupt 11, the only one.                            *)
rtc_init ==
  /\ pc = "main" /\ enabled' = {11}
  /\ UNCHANGED <<pc, ram, image, src, dst>>

Interrupt ==
  /\ pc = "main"
  /\ \E n \in enabled : pc' = Resolved(vector_table(16 + n))
  /\ UNCHANGED <<ram, image, src, dst, enabled>>

InterruptReturn ==
  /\ pc = "RTC0_IRQHandler" /\ pc' = "main"
  /\ UNCHANGED <<ram, image, src, dst, enabled>>

(* The core takes the stack pointer and the handler from the table; RAM    *)
(* keeps what it holds.                                                    *)
Reset ==
  /\ pc' = Resolved(vector_table(1)) /\ enabled' = {}
  /\ UNCHANGED <<ram, image, src, dst>>

Next ==
  \/ Reset_Handler \/ Copy \/ Zero
  \/ Main \/ rtc_init \/ Interrupt \/ InterruptReturn
  \/ Reset

Spec == Init /\ [][Next]_vars

-----------------------------------------------------------------------------
(* Properties.                                                             *)

(* The pointers stay aligned and inside .data and .bss.                    *)
TypeOK ==
  /\ pc \in {"Reset_Handler", "copy", "zero", "entered", "main", "RTC0_IRQHandler",
             "Default_Handler"}
  /\ ram \in [Addresses -> Words] /\ image \in [Data -> Words]
  /\ src \in 0 .. _edata /\ src % 4 = 0
  /\ dst \in 0 .. _ebss /\ dst % 4 = 0
  /\ enabled \subseteq {11}

(* When main is entered, every static has its initial value, whatever RAM  *)
(* held: also after a reset in the middle of the loops.                    *)
StaticsInitialised ==
  pc = "entered" => /\ \A a \in Data : ram[a] = image[a]
                    /\ \A a \in Bss : ram[a] = 0

(* Reset_Handler writes nothing behind .bss, where its own stack is.       *)
StackKept ==
  [][\A a \in Addresses :
       pc \in {"Reset_Handler", "copy", "zero"} /\ a >= _ebss => ram'[a] = ram[a]]_vars

(* The interrupt main enables reaches its handler by its place in the      *)
(* table; the core never parks in Default_Handler.                         *)
NeverParked == pc # "Default_Handler"

=============================================================================
