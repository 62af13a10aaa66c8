----------------------------- MODULE RadioProof -----------------------------
(***************************************************************************)
(* Proofs about Radio, for every set of PDU contents.                      *)
(***************************************************************************)
EXTENDS Radio, TLAPS

(* The packet the call in progress must put on the air.                    *)
Wanted == Packet(channel_to_frequency(chan), chan, s_pdu, s_pdu)

(* Between two calls, and in a call before TXEN, the radio is disabled.    *)
EntryInv == rpc \in {"off", "idle", "clear", "txen"} => state = "Disabled"

(* From radio_init on, one TXEN runs the whole chain.                      *)
ShortsInv == rpc # "off" => shorts = {"READY_START", "END_DISABLE"}

(* A call that has retuned the radio and still has to start it.            *)
ReadyInv ==
  /\ rpc \in {"clear", "txen", "wait"} =>
       /\ chan \in Channels
       /\ frequency = channel_to_frequency(chan)
       /\ datawhiteiv = chan
  /\ rpc \in {"clear", "txen"} => aired = <<>>
  /\ rpc = "txen" => evDisabled = 0

(* How far the packet is while the thread polls, phase by phase.           *)
WaitInv ==
  rpc = "wait" =>
    /\ state # "TxIdle"
    /\ air.freq = channel_to_frequency(chan)
    /\ state \in {"TxRu", "Tx"} => aired = <<>>
    /\ state = "Tx" => air.white = chan /\ air.head = s_pdu
    /\ state \in {"TxDisable", "Disabled"} => aired = <<Wanted>>
    /\ state = "Disabled" <=> evDisabled = 1

(* The inductive invariant.                                                *)
IInv == TypeOK /\ EntryInv /\ ShortsInv /\ ReadyInv /\ WaitInv

-----------------------------------------------------------------------------
(* channel_to_frequency maps every channel to a carrier.                   *)
LEMMA FrequencyType ==
  \A channel \in Channels : channel_to_frequency(channel) \in Frequencies
  BY DEF Channels, channel_to_frequency, Frequencies

LEMMA InitInv == Init => IInv
  <1> SUFFICES ASSUME NEW p \in Pdus, InitWith(p) PROVE IInv
    BY DEF Init
  <1>1. TypeOK
    BY DEF InitWith, TypeOK, DriverPcs, RadioStates, Frequencies, Seeds,
           Packets, Packet
  <1> QED
    BY <1>1
    DEF InitWith, IInv, EntryInv, ShortsInv, ReadyInv, WaitInv

LEMMA DriverInv == IInv /\ Driver => IInv'
  <1> SUFFICES ASSUME IInv, Driver PROVE IInv'
    OBVIOUS
  <1> USE DEF IInv, EntryInv, ShortsInv, ReadyInv, WaitInv
  <1>1. CASE radio_init
    BY <1>1 DEF radio_init, TypeOK, DriverPcs, RadioStates
  <1>2. ASSUME NEW channel \in Channels, radio_send(channel) PROVE IInv'
    <2>1. TypeOK'
      BY <1>2, FrequencyType
      DEF radio_send, TypeOK, DriverPcs, Seeds
    <2> QED
      BY <1>2, <2>1 DEF radio_send
  <1>3. CASE ClearEvents
    BY <1>3 DEF ClearEvents, TypeOK, DriverPcs
  <1>4. CASE TxEn
    <2>1. /\ state' = "TxRu" /\ rpc' = "wait"
          /\ air' = [air EXCEPT !.freq = frequency]
          /\ UNCHANGED <<chan, s_pdu, frequency, datawhiteiv, shorts, evEnd,
                         evDisabled, aired>>
      BY <1>4 DEF TxEn
    <2>2. air' \in Packets /\ air'.freq = frequency
      BY <2>1 DEF TypeOK, Packets
    <2>3. TypeOK'
      BY <2>1, <2>2 DEF TypeOK, DriverPcs, RadioStates
    <2> QED
      BY <1>4, <2>1, <2>2, <2>3 DEF TxEn, channel_to_frequency
  <1>5. CASE Return
    BY <1>5 DEF Return, TypeOK, DriverPcs
  <1> QED
    BY <1>1, <1>2, <1>3, <1>4, <1>5 DEF Driver

(* The peripheral only runs while the thread polls.                        *)
LEMMA PeripheralInv == IInv /\ Peripheral => IInv'
  <1> SUFFICES ASSUME IInv, Peripheral PROVE IInv'
    OBVIOUS
  <1>1. rpc = "wait"
    BY DEF IInv, TypeOK, EntryInv, DriverPcs, Peripheral, Ready, End, RampedDown
  <1>2. CASE Ready
    <2>1. /\ state' = "Tx"
          /\ air' = [air EXCEPT !.white = datawhiteiv, !.head = s_pdu]
          /\ UNCHANGED <<rpc, chan, s_pdu, frequency, datawhiteiv, shorts,
                         evEnd, evDisabled, aired>>
      BY <1>1, <1>2 DEF Ready, IInv, ShortsInv
    <2>2. /\ air' \in Packets
          /\ air'.freq = air.freq /\ air'.white = datawhiteiv
          /\ air'.head = s_pdu
      BY <2>1 DEF IInv, TypeOK, Packets
    <2>3. TypeOK'
      BY <2>1, <2>2 DEF IInv, TypeOK, RadioStates
    <2> QED
      BY <1>1, <1>2, <2>1, <2>2, <2>3
      DEF Ready, IInv, EntryInv, ShortsInv, ReadyInv, WaitInv,
          channel_to_frequency
  <1>3. CASE End
    <2>1. /\ state' = "TxDisable" /\ evEnd' = 1
          /\ air' = [air EXCEPT !.tail = s_pdu]
          /\ aired' = Append(aired, air')
          /\ UNCHANGED <<rpc, chan, s_pdu, frequency, datawhiteiv, shorts,
                         evDisabled>>
      BY <1>1, <1>3 DEF End, IInv, ShortsInv
    <2>2. air' \in Packets /\ air'.freq = air.freq
      BY <2>1 DEF IInv, TypeOK, Packets
    <2>3. aired = <<>> /\ air.white = chan /\ air.head = s_pdu
      BY <1>1, <1>3 DEF End, IInv, WaitInv
    <2>4. air' = Wanted
      BY <1>1, <2>1, <2>3
      DEF IInv, TypeOK, Packets, WaitInv, Wanted, Packet
    <2>5. aired' = <<Wanted>> /\ aired' \in Seq(Packets)
      BY <2>1, <2>2, <2>3, <2>4
    <2>6. TypeOK'
      BY <2>1, <2>2, <2>5 DEF IInv, TypeOK, RadioStates
    <2>7. Wanted' = Wanted
      BY <2>1 DEF Wanted, channel_to_frequency, Packet
    <2> QED
      BY <1>1, <1>3, <2>1, <2>2, <2>5, <2>6, <2>7
      DEF End, IInv, EntryInv, ShortsInv, ReadyInv, WaitInv,
          channel_to_frequency
  <1>4. CASE RampedDown
    <2>1. Wanted' = Wanted
      BY <1>4 DEF RampedDown, Wanted, channel_to_frequency, Packet
    <2>2. TypeOK'
      BY <1>4 DEF RampedDown, IInv, TypeOK, RadioStates
    <2> QED
      BY <1>1, <1>4, <2>1, <2>2
      DEF RampedDown, IInv, EntryInv, ShortsInv, ReadyInv, WaitInv,
          channel_to_frequency
  <1> QED
    BY <1>2, <1>3, <1>4 DEF Peripheral

LEMMA StepInv == IInv /\ [Next]_vars => IInv'
  <1> SUFFICES ASSUME IInv, [Next]_vars PROVE IInv'
    OBVIOUS
  <1>1. ASSUME NEW p \in Pdus, WritePdu(p) PROVE IInv'
    BY <1>1
    DEF WritePdu, IInv, TypeOK, EntryInv, ShortsInv, ReadyInv, WaitInv
  <1>2. CASE Reset
    <2>1. PICK p \in Pdus : ResetWith(p)
      BY <1>2 DEF Reset
    <2>2. TypeOK'
      BY <2>1
      DEF ResetWith, TypeOK, DriverPcs, RadioStates, Frequencies, Seeds,
          Packets, Packet
    <2> QED
      BY <2>1, <2>2
      DEF ResetWith, IInv, EntryInv, ShortsInv, ReadyInv, WaitInv
  <1>3. CASE UNCHANGED vars
    BY <1>3
    DEF vars, IInv, TypeOK, EntryInv, ShortsInv, ReadyInv, WaitInv, Wanted,
        channel_to_frequency, Packet
  <1> QED
    BY <1>1, <1>2, <1>3, DriverInv, PeripheralInv DEF Next

LEMMA Invariance == Spec => []IInv
  BY InitInv, StepInv, PTL DEF Spec

-----------------------------------------------------------------------------
(* Every register and every history variable keeps its type.               *)
THEOREM RadioTypeOK == Spec => []TypeOK
  <1>1. IInv => TypeOK
    BY DEF IInv
  <1> QED
    BY <1>1, Invariance, PTL

(* "which it always is on entry here": radio_send never retunes a radio    *)
(* that is not disabled, and its TXEN is never ignored.                    *)
THEOREM RadioDisabledOnEntry == Spec => []DisabledOnEntry
  <1>1. IInv => DisabledOnEntry
    BY DEF IInv, EntryInv, DisabledOnEntry
  <1> QED
    BY <1>1, Invariance, PTL

(* What is on the air matches the channel asked for and the buffer.        *)
THEOREM RadioOnAirIntact == Spec => []OnAirIntact
  <1>1. IInv => OnAirIntact
    BY DEF IInv, TypeOK, DriverPcs, EntryInv, WaitInv, OnAirIntact
  <1> QED
    BY <1>1, Invariance, PTL

(* A return of radio_send has sent exactly the packet asked for.           *)
THEOREM RadioSentOnce == Spec => SentOnce
  <1> DEFINE Good == rpc = "wait" /\ rpc' = "idle" => aired = <<Wanted>>
  <1>1. IInv /\ [Next]_vars => [Good]_vars
    <2> SUFFICES ASSUME IInv, [Next]_vars, rpc = "wait", rpc' = "idle"
                 PROVE  aired = <<Wanted>>
      OBVIOUS
    <2>1. Return
      BY DEF Next, Driver, Peripheral, vars, radio_init, radio_send,
             ClearEvents, TxEn, Return, Ready, End, RampedDown, WritePdu,
             Reset, ResetWith
    <2> QED
      BY <2>1 DEF Return, IInv, WaitInv
  <1>2. Spec => [][Good]_vars
    BY <1>1, Invariance, PTL DEF Spec
  <1> QED
    BY <1>2 DEF SentOnce, Wanted

-----------------------------------------------------------------------------
(* The call returns.  WF speaks of ENABLED, of which the provers know      *)
(* nothing; what they need to know of it is that an action whose guard     *)
(* holds can be taken, as it prescribes a value for each variable.         *)
DriverReady ==
  rpc \in {"off", "idle", "clear", "txen"} \/ (rpc = "wait" /\ evDisabled = 1)
PeripheralReady == state \in {"TxRu", "Tx", "TxDisable"}

GuardsSuffice ==
  /\ DriverReady => ENABLED <<Driver>>_vars
  /\ PeripheralReady => ENABLED <<Peripheral>>_vars

(* The stages of a call, in their order.                                   *)
Off == rpc = "off"
Clearing == rpc = "clear"
Starting == rpc = "txen"
RampingUp == rpc = "wait" /\ state = "TxRu"
Sending == rpc = "wait" /\ state = "Tx"
RampingDown == rpc = "wait" /\ state = "TxDisable"
Over == rpc = "wait" /\ state = "Disabled"
Idle == rpc = "idle"

LEMMA Stages ==
  IInv => Off \/ Clearing \/ Starting \/ RampingUp \/ Sending \/ RampingDown
            \/ Over \/ Idle
  BY DEF IInv, TypeOK, DriverPcs, RadioStates, WaitInv, Off, Clearing,
         Starting, RampingUp, Sending, RampingDown, Over, Idle

(* One of the two can act at each stage.                                   *)
LEMMA StageReady ==
  IInv => /\ Off \/ Clearing \/ Starting \/ Over => DriverReady
          /\ RampingUp \/ Sending \/ RampingDown => PeripheralReady
  BY DEF IInv, WaitInv, Off, Clearing, Starting, RampingUp, Sending,
         RampingDown, Over, DriverReady, PeripheralReady

(* What it does leads to the next stage, and nothing but a reset leads     *)
(* anywhere else.                                                          *)
LEMMA DriverStages ==
  ASSUME IInv, Driver
  PROVE  /\ Off => Idle'
         /\ Clearing => Starting'
         /\ Starting => RampingUp'
         /\ Over => Idle'
         /\ ~RampingUp /\ ~Sending /\ ~RampingDown
  BY DEF IInv, EntryInv, WaitInv, Driver, radio_init, radio_send, ClearEvents,
         TxEn, Return, Off, Clearing, Starting, RampingUp, Sending,
         RampingDown, Over, Idle

LEMMA PeripheralStages ==
  ASSUME IInv, Peripheral
  PROVE  /\ RampingUp => Sending'
         /\ Sending => RampingDown'
         /\ RampingDown => Over'
         /\ RampingUp \/ Sending \/ RampingDown
  BY DEF IInv, TypeOK, DriverPcs, EntryInv, ShortsInv, Peripheral, Ready, End,
         RampedDown, Off, Clearing, Starting, RampingUp, Sending, RampingDown,
         Over, Idle

LEMMA OtherStages ==
  ASSUME [Next]_vars, ~Driver, ~Peripheral, ~Reset
  PROVE  UNCHANGED <<rpc, state>>
  BY DEF Next, WritePdu, vars

(* Under the fairness of FairSpec each call of radio_send returns, unless  *)
(* the chip is reset again and again: the chain of SHORTS, started once,   *)
(* ends with the event the loop polls.                                     *)
THEOREM RadioSendReturns == FairSpec /\ []GuardsSuffice => SendReturns
  <1> USE DEF Off, Clearing, Starting, RampingUp, Sending, RampingDown, Over,
              Idle
  <1>1. IInv /\ [Next]_vars /\ [~Reset]_vars =>
           /\ Off => Off' \/ Idle'
           /\ Clearing => Clearing' \/ Starting'
           /\ Starting => Starting' \/ RampingUp'
           /\ RampingUp => RampingUp' \/ Sending'
           /\ Sending => Sending' \/ RampingDown'
           /\ RampingDown => RampingDown' \/ Over'
           /\ Over => Over' \/ Idle'
    <2> SUFFICES ASSUME IInv, [Next]_vars, [~Reset]_vars
                 PROVE  /\ Off => Off' \/ Idle'
                        /\ Clearing => Clearing' \/ Starting'
                        /\ Starting => Starting' \/ RampingUp'
                        /\ RampingUp => RampingUp' \/ Sending'
                        /\ Sending => Sending' \/ RampingDown'
                        /\ RampingDown => RampingDown' \/ Over'
                        /\ Over => Over' \/ Idle'
      OBVIOUS
    <2>1. CASE Driver
      BY <2>1, DriverStages
    <2>2. CASE Peripheral
      BY <2>2, PeripheralStages
    <2>3. CASE ~Driver /\ ~Peripheral /\ ~Reset
      BY <2>3, OtherStages
    <2>4. CASE UNCHANGED vars
      BY <2>4 DEF vars
    <2> QED
      BY <2>1, <2>2, <2>3, <2>4
  <1>2. IInv /\ <<Driver>>_vars =>
           /\ Off => Idle'
           /\ Clearing => Starting'
           /\ Starting => RampingUp'
           /\ Over => Idle'
    BY DriverStages
  <1>3. IInv /\ <<Peripheral>>_vars =>
           /\ RampingUp => Sending'
           /\ Sending => RampingDown'
           /\ RampingDown => Over'
    BY PeripheralStages
  <1> HIDE DEF Off, Clearing, Starting, RampingUp, Sending, RampingDown, Over,
               Idle
  <1>4. Spec /\ WF_vars(Driver) /\ WF_vars(Peripheral) /\ []GuardsSuffice
          => (<>[][~Reset]_vars => (Clearing ~> Idle))
    BY <1>1, <1>2, <1>3, Stages, StageReady, Invariance, PTL
    DEF Spec, GuardsSuffice
  <1>5. Clearing <=> rpc = "clear"
    BY DEF Clearing
  <1>6. Idle <=> rpc = "idle"
    BY DEF Idle
  <1> QED
    BY <1>4, <1>5, <1>6, PTL DEF FairSpec, SendReturns
=============================================================================
