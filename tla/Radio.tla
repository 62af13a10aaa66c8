------------------------------- MODULE Radio -------------------------------
(***************************************************************************)
(* The radio driver (src/radio.c) against the RADIO peripheral: the thread *)
(* that calls radio_send, and the state machine that ramps up, sends what  *)
(* EasyDMA fetches from the PDU buffer, and powers down by itself through  *)
(* the SHORTS.  Driver and peripheral meet in the registers only.          *)
(***************************************************************************)
EXTENDS Naturals, Sequences

CONSTANT Pdus   \* the contents the PDU buffer may have

VARIABLES
  rpc,          \* where the thread is, see DriverPcs
  chan,         \* the channel argument of the last radio_send
  s_pdu,        \* the buffer PACKETPTR points to
  frequency,    \* RADIO FREQUENCY
  datawhiteiv,  \* RADIO DATAWHITEIV
  shorts,       \* RADIO SHORTS, the set of the enabled ones
  evEnd,        \* RADIO EVENTS_END
  evDisabled,   \* RADIO EVENTS_DISABLED
  state,        \* the peripheral's STATE
  air,          \* the packet the peripheral is preparing or sending
  aired         \* history: the packets completed since radio_send was called

vars == <<rpc, chan, s_pdu, frequency, datawhiteiv, shorts, evEnd, evDisabled,
          state, air, aired>>

Channels == {37, 38, 39}

(* MHz above 2400. *)
channel_to_frequency(channel) ==
  CASE channel = 38 -> 26
    [] channel = 39 -> 80
    [] OTHER        -> 2

(* "off": before radio_init. "idle": outside radio_send. The others are    *)
(* the part of radio_send executed next.                                   *)
DriverPcs == {"off", "idle", "clear", "txen", "wait"}

RadioStates == {"Disabled", "TxRu", "TxIdle", "Tx", "TxDisable"}

(* A packet on the air: the carrier it was ramped up on, the whitening     *)
(* seed, and the first and the last bytes EasyDMA fetched.                 *)
Packet(f, w, h, t) == [freq |-> f, white |-> w, head |-> h, tail |-> t]

Frequencies == {0, 2, 26, 80}
Seeds == Channels \cup {0}
Packets == [freq: Frequencies, white: Seeds, head: Pdus, tail: Pdus]

TypeOK ==
  /\ rpc \in DriverPcs
  /\ chan \in Channels \cup {0}
  /\ s_pdu \in Pdus
  /\ frequency \in Frequencies
  /\ datawhiteiv \in Seeds
  /\ shorts \subseteq {"READY_START", "END_DISABLE"}
  /\ evEnd \in {0, 1}
  /\ evDisabled \in {0, 1}
  /\ state \in RadioStates
  /\ air \in Packets
  /\ aired \in Seq(Packets)

InitWith(p) ==
  /\ rpc = "off" /\ chan = 0 /\ s_pdu = p
  /\ frequency = 0 /\ datawhiteiv = 0 /\ shorts = {}
  /\ evEnd = 0 /\ evDisabled = 0
  /\ state = "Disabled"
  /\ air = Packet(0, 0, p, p)
  /\ aired = <<>>

Init == \E p \in Pdus : InitWith(p)

-----------------------------------------------------------------------------
(* The driver.                                                             *)

(* Mutant: the radio is not powered down after a packet.                   *)
InitWithoutDisableShort ==
  /\ rpc = "off"
  /\ rpc' = "idle"
  /\ shorts' = {"READY_START"}
  /\ state' = "Disabled"
  /\ UNCHANGED <<chan, s_pdu, frequency, datawhiteiv, evEnd, evDisabled, air,
                 aired>>

(* Of the packet format only the SHORTS steer the state machine. *)
radio_init ==
  /\ rpc = "off"
  /\ rpc' = "idle"
  /\ shorts' = {"READY_START", "END_DISABLE"}
  /\ state' = "Disabled"
  /\ UNCHANGED <<chan, s_pdu, frequency, datawhiteiv, evEnd, evDisabled, air,
                 aired>>

(* The owner of the buffer fills it between two calls.                     *)
WritePdu(p) ==
  /\ rpc \in {"off", "idle"}
  /\ s_pdu' = p
  /\ UNCHANGED <<rpc, chan, frequency, datawhiteiv, shorts, evEnd, evDisabled,
                 state, air, aired>>

(* Mutant: the whitening is not reseeded for the new channel.              *)
SendKeepsSeed(channel) ==
  /\ rpc = "idle"
  /\ rpc' = "clear"
  /\ chan' = channel
  /\ frequency' = channel_to_frequency(channel)
  /\ aired' = <<>>
  /\ UNCHANGED <<s_pdu, datawhiteiv, shorts, evEnd, evDisabled, state, air>>

(* The call radio_send(s_pdu, channel), up to PACKETPTR. *)
radio_send(channel) ==
  /\ rpc = "idle"
  /\ rpc' = "clear"
  /\ chan' = channel
  /\ frequency' = channel_to_frequency(channel)
  /\ datawhiteiv' = channel
  /\ aired' = <<>>
  /\ UNCHANGED <<s_pdu, shorts, evEnd, evDisabled, state, air>>

(* Mutant: the completion event of the previous packet is left set.        *)
KeepEvents ==
  /\ rpc = "clear"
  /\ rpc' = "txen"
  /\ evEnd' = 0
  /\ UNCHANGED <<chan, s_pdu, frequency, datawhiteiv, shorts, evDisabled,
                 state, air, aired>>

ClearEvents ==
  /\ rpc = "clear"
  /\ rpc' = "txen"
  /\ evDisabled' = 0
  /\ evEnd' = 0
  /\ UNCHANGED <<chan, s_pdu, frequency, datawhiteiv, shorts, state, air,
                 aired>>

(* TASKS_TXEN. The peripheral takes it in DISABLED only, and locks the     *)
(* synthesiser to FREQUENCY.                                               *)
TxEn ==
  /\ rpc = "txen"
  /\ rpc' = "wait"
  /\ IF state = "Disabled"
       THEN /\ state' = "TxRu"
            /\ air' = [air EXCEPT !.freq = frequency]
       ELSE UNCHANGED <<state, air>>
  /\ UNCHANGED <<chan, s_pdu, frequency, datawhiteiv, shorts, evEnd,
                 evDisabled, aired>>

(* Mutant: the loop waits for the end of the packet only.                  *)
ReturnAtEnd ==
  /\ rpc = "wait"
  /\ evEnd = 1
  /\ rpc' = "idle"
  /\ UNCHANGED <<chan, s_pdu, frequency, datawhiteiv, shorts, evEnd,
                 evDisabled, state, air, aired>>

(* The polling loop of radio_send sees the event, and the call returns.    *)
Return ==
  /\ rpc = "wait"
  /\ evDisabled = 1
  /\ rpc' = "idle"
  /\ UNCHANGED <<chan, s_pdu, frequency, datawhiteiv, shorts, evEnd,
                 evDisabled, state, air, aired>>

-----------------------------------------------------------------------------
(* The peripheral.                                                         *)

(* Ramped up. START, if it is chained, seeds the whitener and lets EasyDMA *)
(* fetch the first bytes.                                                  *)
Ready ==
  /\ state = "TxRu"
  /\ IF "READY_START" \in shorts
       THEN /\ state' = "Tx"
            /\ air' = [air EXCEPT !.white = datawhiteiv, !.head = s_pdu]
       ELSE state' = "TxIdle" /\ UNCHANGED air
  /\ UNCHANGED <<rpc, chan, s_pdu, frequency, datawhiteiv, shorts, evEnd,
                 evDisabled, aired>>

(* The last byte has been fetched and sent.                                *)
End ==
  /\ state = "Tx"
  /\ state' = IF "END_DISABLE" \in shorts THEN "TxDisable" ELSE "TxIdle"
  /\ evEnd' = 1
  /\ air' = [air EXCEPT !.tail = s_pdu]
  /\ aired' = Append(aired, air')
  /\ UNCHANGED <<rpc, chan, s_pdu, frequency, datawhiteiv, shorts, evDisabled>>

RampedDown ==
  /\ state = "TxDisable"
  /\ state' = "Disabled"
  /\ evDisabled' = 1
  /\ UNCHANGED <<rpc, chan, s_pdu, frequency, datawhiteiv, shorts, evEnd, air,
                 aired>>

(* A reset stops the peripheral at any point. .bss is zeroed: s_pdu is p.  *)
ResetWith(p) ==
  /\ rpc' = "off" /\ chan' = 0 /\ s_pdu' = p
  /\ frequency' = 0 /\ datawhiteiv' = 0 /\ shorts' = {}
  /\ evEnd' = 0 /\ evDisabled' = 0
  /\ state' = "Disabled"
  /\ air' = Packet(0, 0, p, p)
  /\ aired' = <<>>

Reset == \E p \in Pdus : ResetWith(p)

-----------------------------------------------------------------------------
Driver ==
  \/ radio_init
  \/ \E channel \in Channels : radio_send(channel)
  \/ ClearEvents \/ TxEn \/ Return

Peripheral == Ready \/ End \/ RampedDown

Next == Driver \/ Peripheral \/ (\E p \in Pdus : WritePdu(p)) \/ Reset

Spec == Init /\ [][Next]_vars

(* The thread runs and the peripheral completes what it started.           *)
FairSpec == Spec /\ WF_vars(Driver) /\ WF_vars(Peripheral)

-----------------------------------------------------------------------------
(* Properties.                                                             *)

(* The radio is disabled whenever radio_send retunes it ("which it always  *)
(* is on entry here") and up to TXEN, so FREQUENCY and DATAWHITEIV are     *)
(* never changed under a packet and TXEN is never ignored.                 *)
DisabledOnEntry ==
  rpc \in {"idle", "clear", "txen"} => state = "Disabled"

(* What is on the air is on the carrier and under the whitening of the     *)
(* channel asked for, and comes from the buffer as it still is.            *)
OnAirIntact ==
  /\ state # "Disabled" => air.freq = channel_to_frequency(chan)
  /\ state = "Tx" => air.white = chan /\ air.head = s_pdu

(* A return of radio_send finds exactly one packet sent since the call,    *)
(* whole, on the right channel, and the buffer free to be rewritten.       *)
SentOnce ==
  [][rpc = "wait" /\ rpc' = "idle" =>
       aired = <<Packet(channel_to_frequency(chan), chan, s_pdu, s_pdu)>>]_vars

(* Every radio_send returns unless the chip is reset again and again: the  *)
(* chain of SHORTS alone brings the radio back to DISABLED.                *)
SendReturns ==
  (<>[][~Reset]_vars) => (rpc = "clear" ~> rpc = "idle")

=============================================================================
