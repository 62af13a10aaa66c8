------------------------------ MODULE RttBoot ------------------------------
(***************************************************************************)
(* The RTT channel across resets: Reset_Handler zeroes .bss, with the ring *)
(* and the control block _SEGGER_RTT in it, rtt_init fills the block, and  *)
(* then rtt_write runs as in Rtt.  The debug probe does not take part in   *)
(* the reset: it reads RAM all the time, recognises the block by its id,   *)
(* and, once attached, goes on with the offsets it holds.                  *)
(***************************************************************************)
EXTENDS Rtt

CONSTANT Reordering  \* TRUE: the compiler moves stores that are not volatile,
                     \* FALSE: it keeps them in the order of the program

ASSUME BootAssumption == Reordering \in BOOLEAN

VARIABLES
  boot,      \* "zero" (.bss), "init" (rtt_init) or "run"
  stored,    \* what the loop or function in progress has stored
  filled,    \* the fields that hold what rtt_init stores, not zeroes
  attached,  \* the probe has found the block and follows it
  healed     \* history: since the last reset the ring has been empty with
             \* neither side at work

bootVars == <<boot, stored, filled, attached>>
allVars == <<vars, bootVars, healed>>

(* The words of _SEGGER_RTT by address. "counts", "up" and "down" stand    *)
(* for the fields that describe the buffers.                               *)
ZeroOrder == <<"acID", "counts", "up", "WrOff", "RdOff", "down">>
InitOrder == <<"counts", "up", "WrOff", "RdOff", "down", "acID">>

Fields == {"acID", "counts", "up", "down"}
Volatile == {"WrOff", "RdOff"}
Block == Fields \cup Volatile
Bss == Block \cup {"s_up_buf"}

BootTypeOK ==
  /\ TypeOK
  /\ boot \in {"zero", "init", "run"}
  /\ stored \subseteq Bss
  /\ filled \subseteq Fields
  /\ attached \in BOOLEAN /\ healed \in BOOLEAN

BootInit ==
  /\ Init
  /\ boot = "zero" /\ stored = {} /\ filled = {} /\ attached = FALSE /\ healed = FALSE

-----------------------------------------------------------------------------
(* The target.                                                             *)

(* What stands before x in a sequence of stores.                           *)
Before(order, x) == {order[j] : j \in {j \in 1 .. 6 :
                       \E k \in j + 1 .. 6 : order[k] = x}}

Put(x, all, next_boot) ==
  /\ x \in all \ stored
  /\ stored' = IF all = stored \cup {x} THEN {} ELSE stored \cup {x}
  /\ boot' = IF all = stored \cup {x} THEN next_boot ELSE boot
  /\ WrOff' = IF x = "WrOff" THEN 0 ELSE WrOff
  /\ RdOff' = IF x = "RdOff" THEN 0 ELSE RdOff
  /\ UNCHANGED <<writerVars, hostVars, attached>>

(* Mutant: .bss is zeroed from its end.                                    *)
ZeroBssDown(x) ==
  /\ boot = "zero"
  /\ x \in Block => Block \ (Before(ZeroOrder, x) \cup {x}) \subseteq stored
  /\ Put(x, Bss, "init")
  /\ filled' = filled \ {x}
  /\ s_up_buf' = IF x = "s_up_buf" THEN [o \in Offsets |-> Blank] ELSE s_up_buf

(* The loop that zeroes .bss, by address.  The ring lies below or above    *)
(* the block; its zeroing is one step, at any time.                        *)
ZeroBss(x) ==
  /\ boot = "zero"
  /\ x \in Block => Before(ZeroOrder, x) \subseteq stored
  /\ Put(x, Bss, "init")
  /\ filled' = filled \ {x}
  /\ s_up_buf' = IF x = "s_up_buf" THEN [o \in Offsets |-> Blank] ELSE s_up_buf

(* The stores of rtt_init that must be complete before its store to x. Its *)
(* only barrier comes after the last of them: volatile stores keep their   *)
(* order, others may be moved.                                             *)
Awaited(x) ==
  IF ~Reordering THEN Before(InitOrder, x)
  ELSE IF x \in Volatile THEN Before(InitOrder, x) \cap Volatile
  ELSE {}

rtt_init(x) ==
  /\ boot = "init"
  /\ Awaited(x) \subseteq stored
  /\ Put(x, Block, "run")
  /\ filled' = filled \cup ({x} \cap Fields)
  /\ UNCHANGED s_up_buf

Log == boot = "run" /\ Writer /\ UNCHANGED bootVars

(* RAM keeps its contents; the call in progress and its locals are gone.   *)
Reset ==
  /\ boot' = "zero" /\ stored' = {}
  /\ data' = <<>> /\ wpc' = "idle" /\ wr' = 0 /\ done' = 0
  /\ UNCHANGED <<s_up_buf, WrOff, RdOff, hostVars, filled, attached>>

-----------------------------------------------------------------------------
(* The probe.                                                              *)

(* It scans RAM for the id. *)
Attach ==
  /\ ~attached /\ "acID" \in filled
  /\ attached' = TRUE
  /\ UNCHANGED <<vars, boot, stored, filled>>

Detach ==
  /\ attached /\ attached' = FALSE
  /\ hpc' = "idle"
  /\ UNCHANGED <<s_up_buf, WrOff, RdOff, writerVars, hwr, hrd, batch, taken,
                 boot, stored, filled>>

(* Follow the ring, whatever the target does. *)
Poll == attached /\ Host /\ UNCHANGED bootVars

-----------------------------------------------------------------------------
Boot == \E x \in Bss : ZeroBss(x) \/ rtt_init(x)

Drained ==
  boot = "run" /\ wpc = "idle" /\ hpc = "idle" /\ WrOff = RdOff

Witness == healed' = (boot' = "run" /\ (healed \/ Drained'))

BootNext == (Boot \/ Log \/ Reset \/ Attach \/ Detach \/ Poll) /\ Witness

BootSpec == BootInit /\ [][BootNext]_allVars

(* A probe that stays attached keeps polling.                              *)
FairBootSpec == BootSpec /\ WF_allVars(Poll /\ Witness)

-----------------------------------------------------------------------------
(* Properties.                                                             *)

(* "Write the magic id last, with a barrier, so the block is fully formed  *)
(* before a host could recognise it" (rtt_init): also while the block of   *)
(* the previous run is torn down.                                          *)
RecognisedIsFormed == "acID" \in filled => filled = Fields

(* A probe that was in the middle of a batch at the reset may store an     *)
(* offset of the previous run into RdOff after rtt_init has zeroed it, and *)
(* may then read what was never logged, or skip what was. Once the ring    *)
(* has been empty with both sides idle, it is the queue of RttChannel      *)
(* again, until the next reset; a probe that was idle at the reset finds   *)
(* it so from the start.                                                   *)
HealedIsChannel ==
  [][healed /\ healed' => [Channel!Next]_(Channel!vars)]_allVars

(* A pause of the target is enough for that: the probe drains the ring     *)
(* whatever offset it has stored, because the end is found by equality.    *)
PauseHeals ==
  <>[](boot = "run" /\ wpc = "idle" /\ attached) => <>[]healed

=============================================================================
