-------------------------------- MODULE Rtt --------------------------------
(***************************************************************************)
(* The RTT up-channel (src/rtt.c): rtt_write on the target and the debug   *)
(* probe on the host share a ring buffer and its two offsets.  The target  *)
(* writes WrOff only, the host RdOff only; there is no lock, and the probe *)
(* reads and writes RAM between any two instructions of the target.        *)
(***************************************************************************)
EXTENDS Naturals, Sequences

CONSTANTS
  Chars,       \* the characters that are logged
  Blank,       \* what the buffer holds out of reset
  Size,        \* SizeOfBuffer (1024)
  MaxLen       \* the longest single rtt_write

ASSUME RttAssumption ==
  /\ Size \in Nat /\ Size > 1
  /\ MaxLen \in Nat

VARIABLES
  s_up_buf,    \* the ring
  WrOff, RdOff,
  data,        \* the argument of the call in progress, or of the last one
  wpc,         \* where rtt_write is, see WriterPcs
  wr,          \* its local copy of WrOff
  done,        \* how many characters of data it has stored
  hpc,         \* where the probe is, see HostPcs
  hwr,         \* the WrOff it has sampled
  hrd,         \* the position it copies from
  batch,       \* what it has copied since it sampled
  taken        \* history: the last batch it has acknowledged

writerVars == <<data, wpc, wr, done>>
hostVars == <<hpc, hwr, hrd, batch, taken>>
vars == <<s_up_buf, WrOff, RdOff, writerVars, hostVars>>

Offsets == 0 .. Size - 1
WriterPcs == {"idle", "test", "store", "publish"}
HostPcs == {"idle", "copy"}

(* Wrap-around without a division, as the code has it.                     *)
Wrap(n) == IF n >= Size THEN n - Size ELSE n

(* How many characters lie from offset a up to offset b.                   *)
Dist(a, b) == IF a <= b THEN b - a ELSE b + Size - a

(* These characters.                                                       *)
Slice(buf, a, b) == [k \in 1 .. Dist(a, b) |-> buf[Wrap(a + k - 1)]]

TypeOK ==
  /\ s_up_buf \in [Offsets -> Chars \cup {Blank}]
  /\ WrOff \in Offsets /\ RdOff \in Offsets
  /\ data \in Seq(Chars) /\ Len(data) <= MaxLen
  /\ wpc \in WriterPcs
  /\ wr \in Offsets
  /\ done \in 0 .. Len(data)
  /\ hpc \in HostPcs
  /\ hwr \in Offsets /\ hrd \in Offsets
  /\ batch \in Seq(Chars \cup {Blank}) /\ taken \in Seq(Chars \cup {Blank})

(* After rtt_init. *)
Init ==
  /\ s_up_buf = [o \in Offsets |-> Blank]
  /\ WrOff = 0 /\ RdOff = 0
  /\ data = <<>> /\ wpc = "idle" /\ wr = 0 /\ done = 0
  /\ hpc = "idle" /\ hwr = 0 /\ hrd = 0 /\ batch = <<>> /\ taken = <<>>

-----------------------------------------------------------------------------
(* The target.                                                             *)

(* The call rtt_write(d, Len(d)), up to its loop.                          *)
rtt_write(d) ==
  /\ wpc = "idle"
  /\ wpc' = "test"
  /\ data' = d
  /\ wr' = WrOff
  /\ done' = 0
  /\ UNCHANGED <<s_up_buf, WrOff, RdOff, hostVars>>

next == IF wr + 1 = Size THEN 0 ELSE wr + 1

(* Mutant: the full buffer is not noticed.                                 *)
TestDataOnly ==
  /\ wpc = "test"
  /\ wpc' = IF done < Len(data) THEN "store" ELSE "publish"
  /\ UNCHANGED <<s_up_buf, WrOff, RdOff, data, wr, done, hostVars>>

(* Mutant: a full buffer is waited for.                                    *)
TestUntilRoom ==
  /\ wpc = "test"
  /\ done < Len(data) => next # RdOff
  /\ wpc' = IF done < Len(data) THEN "store" ELSE "publish"
  /\ UNCHANGED <<s_up_buf, WrOff, RdOff, data, wr, done, hostVars>>

(* The condition of the loop and the test of RdOff, which leaves the loop  *)
(* when the buffer is full.                                                *)
Test ==
  /\ wpc = "test"
  /\ wpc' = IF done < Len(data) /\ next # RdOff THEN "store" ELSE "publish"
  /\ UNCHANGED <<s_up_buf, WrOff, RdOff, data, wr, done, hostVars>>

(* Mutant: the offset runs past the end of the buffer.                     *)
StoreUnwrapped ==
  /\ wpc = "store"
  /\ wpc' = "test"
  /\ s_up_buf' = [s_up_buf EXCEPT ![wr] = data[done + 1]]
  /\ wr' = wr + 1
  /\ done' = done + 1
  /\ UNCHANGED <<WrOff, RdOff, data, hostVars>>

(* Mutant: the new offset is published with every character, before it is  *)
(* stored.                                                                 *)
StoreAfterPublish ==
  /\ wpc = "store"
  /\ IF WrOff = wr
       THEN WrOff' = next /\ UNCHANGED <<s_up_buf, wpc, wr, done>>
       ELSE /\ s_up_buf' = [s_up_buf EXCEPT ![wr] = data[done + 1]]
            /\ wpc' = "test" /\ wr' = next /\ done' = done + 1
            /\ UNCHANGED WrOff
  /\ UNCHANGED <<RdOff, data, hostVars>>

Store ==
  /\ wpc = "store"
  /\ wpc' = "test"
  /\ s_up_buf' = [s_up_buf EXCEPT ![wr] = data[done + 1]]
  /\ wr' = next
  /\ done' = done + 1
  /\ UNCHANGED <<WrOff, RdOff, data, hostVars>>

PublishWrOff ==
  /\ wpc = "publish"
  /\ wpc' = "idle"
  /\ WrOff' = wr
  /\ UNCHANGED <<s_up_buf, RdOff, data, wr, done, hostVars>>

-----------------------------------------------------------------------------
(* The probe.                                                              *)

HostSample ==
  /\ hpc = "idle" /\ WrOff # RdOff
  /\ hpc' = "copy"
  /\ hwr' = WrOff /\ hrd' = RdOff /\ batch' = <<>>
  /\ UNCHANGED <<s_up_buf, WrOff, RdOff, writerVars, taken>>

HostCopy ==
  /\ hpc = "copy" /\ hrd # hwr
  /\ batch' = Append(batch, s_up_buf[hrd])
  /\ hrd' = Wrap(hrd + 1)
  /\ UNCHANGED <<s_up_buf, WrOff, RdOff, writerVars, hpc, hwr, taken>>

(* The probe frees what it has copied, all of it or (its own buffer may be *)
(* smaller) a part.                                                        *)
HostAdvance ==
  /\ hpc = "copy" /\ batch # <<>>
  /\ hpc' = "idle"
  /\ RdOff' = hrd
  /\ taken' = batch
  /\ UNCHANGED <<s_up_buf, WrOff, writerVars, hwr, hrd, batch>>

-----------------------------------------------------------------------------
Strings == UNION {[1 .. n -> Chars] : n \in 0 .. MaxLen}

InCall == Test \/ Store \/ PublishWrOff

Writer == (\E d \in Strings : rtt_write(d)) \/ InCall

Host == HostSample \/ HostCopy \/ HostAdvance

Next == Writer \/ Host

Spec == Init /\ [][Next]_vars

(* The target runs. Nothing is assumed of the probe: it may be unplugged.  *)
FairSpec == Spec /\ WF_vars(InCall)

-----------------------------------------------------------------------------
(* Properties.                                                             *)

Channel == INSTANCE RttChannel WITH
  Capacity <- Size - 1,
  writing  <- data,
  queue    <- Slice(s_up_buf, RdOff, WrOff)

(* The ring is the lossy queue of RttChannel: the host takes every         *)
(* published character once, in order, and never one that is half written, *)
(* overwritten or not yet published.                                       *)
ImplementsChannel == Channel!Spec

(* The target and the probe never touch the same cell: the cell about to   *)
(* be stored is none of those the probe still has to copy.                 *)
NoOverlap ==
  wpc = "store" /\ hpc = "copy" => Dist(hrd, wr) >= Dist(hrd, hwr)

(* "drop what does not fit, never stall": a log call returns whether or    *)
(* not a probe is there to drain the buffer.                               *)
NeverStalls == wpc = "test" ~> wpc = "idle"

=============================================================================
