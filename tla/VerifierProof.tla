--------------------------- MODULE VerifierProof ---------------------------
(***************************************************************************)
(* Proofs about Verifier, for any number of beacons and keys, any counter  *)
(* width and any backlog of advertisements.                                *)
(***************************************************************************)
EXTENDS Verifier, TLAPS

Frames == {Payload(d, c, t) : d \in Devices, c \in Counters, t \in Tags}
Messages == {Foreign(d) : d \in Devices} \cup Frames

(* Every advertisement that waits and has a right tag was sent.            *)
HeardGenuine ==
  \A n \in 1 .. Len(heard) :
    /\ heard[n].counter # None
    /\ heard[n].tag = compute_tag(heard[n].device, heard[n].counter)
    => heard[n].counter \in genuine[heard[n].device]

SentGenuine ==
  \A d \in Devices : sent[d] > 0 /\ key[d] = KEY => sent[d] \in genuine[d]

(* What has been reported as valid is not beyond what is remembered.       *)
MemoryCovers ==
  \A d \in Devices :
    reported[d] # None => last_counter[d] # None /\ reported[d] <= last_counter[d]

VerdictNamed == verdict.note = "ok" => verdict.device \in Devices

IInv ==
  /\ TypeOK /\ HeardGenuine /\ SentGenuine
  /\ VerdictNamed /\ ValidIsGenuine /\ MemoryCovers

LEMMA CountersFacts ==
  None \notin Counters /\ \A c \in Counters : c \in Nat /\ c <= c
  BY VerifierAssumption DEF Counters

LEMMA InitInv == Init => IInv
  BY VerifierAssumption
  DEF Init, IInv, TypeOK, HeardGenuine, SentGenuine, VerdictNamed,
      ValidIsGenuine, MemoryCovers, Verdict, Notes, Counters

-----------------------------------------------------------------------------
(* The first advertisement, its verdict and what is remembered of it.      *)

LEMMA MessageFacts ==
  ASSUME NEW p \in Messages
  PROVE  /\ p.device \in Devices /\ p.counter \in Counters \cup {None}
         /\ p.counter # None => p \in Frames
  BY CountersFacts DEF Messages, Frames, Payload, Foreign

LEMMA VerdictFacts ==
  ASSUME NEW p \in Messages, NEW last \in Counters \cup {None}
  PROVE  LET v == verify_payload(p, last)
         IN  /\ v \in [device: Devices, counter: Counters \cup {None},
                       note: Notes]
             /\ v.device = p.device /\ v.counter = p.counter
             /\ v.note = "ok" =>
                  /\ p.counter \in Counters
                  /\ p.tag = compute_tag(p.device, p.counter)
                  /\ last = None \/ p.counter > last
             /\ v.note = "replay" =>
                  /\ p.counter \in Counters
                  /\ p.tag = compute_tag(p.device, p.counter)
                  /\ last # None /\ p.counter <= last
  <1>1. p.device \in Devices /\ p.counter \in Counters \cup {None}
    BY MessageFacts
  <1>2. last \in Counters => last \in Nat
    BY CountersFacts
  <1>3. p.counter \in Counters => p.counter \in Nat
    BY CountersFacts
  <1>4. p.counter # None /\ ~NotBeyond(p.counter, last)
          => last = None \/ p.counter > last
    BY <1>1, <1>2, <1>3 DEF NotBeyond
  <1>5. CASE p.counter = None
    BY <1>1, <1>5 DEF verify_payload, Verdict, Notes
  <1>6. CASE p.counter # None /\ p.tag # compute_tag(p.device, p.counter)
    BY <1>1, <1>6 DEF verify_payload, Verdict, Notes
  <1>7. CASE p.counter # None /\ p.tag = compute_tag(p.device, p.counter)
    BY <1>1, <1>4, <1>7 DEF verify_payload, Verdict, Notes, NotBeyond
  <1> QED
    BY <1>5, <1>6, <1>7

LEMMA HigherFacts ==
  ASSUME NEW c \in Counters, NEW last \in Counters \cup {None}
  PROVE  /\ Higher(c, last) \in Counters /\ c <= Higher(c, last)
         /\ last # None => last <= Higher(c, last)
  BY CountersFacts DEF Higher

LEMMA HeardFacts ==
  ASSUME TypeOK, heard # <<>>
  PROVE  /\ Head(heard) \in Messages /\ Head(heard) = heard[1]
         /\ 1 \in 1 .. Len(heard)
         /\ Tail(heard) \in Seq(Messages) /\ Len(Tail(heard)) = Len(heard) - 1
         /\ \A n \in 1 .. Len(heard) - 1 : Tail(heard)[n] = heard[n + 1]
  <1>1. heard \in Seq(Messages)
    BY DEF TypeOK, Messages, Frames
  <1> QED
    BY <1>1

-----------------------------------------------------------------------------
LEMMA OnAdvFacts ==
  ASSUME IInv, on_adv
  PROVE  \E p \in Messages :
           LET v == verify_payload(p, last_counter[p.device])
           IN  /\ p = heard[1] /\ 1 \in 1 .. Len(heard)
               /\ p.device \in Devices
               /\ last_counter[p.device] \in Counters \cup {None}
               /\ verdict' = v
               /\ last_counter' = Remember(v)
               /\ reported' = IF v.note = "ok"
                                THEN [reported EXCEPT ![p.device] = v.counter]
                                ELSE reported
               /\ highest' = IF v.note \in {"ok", "replay"}
                               THEN [highest EXCEPT
                                       ![p.device] = Higher(v.counter, @)]
                               ELSE highest
               /\ tainted' = IF v.note = "bad tag"
                               THEN tainted \cup {p.device} ELSE tainted
  <1>1. heard # <<>>
    BY DEF on_adv
  <1>2. Head(heard) \in Messages /\ Head(heard) = heard[1]
        /\ 1 \in 1 .. Len(heard)
    BY <1>1, HeardFacts DEF IInv
  <1>3. Head(heard).device \in Devices
    BY <1>2, MessageFacts
  <1>4. last_counter[Head(heard).device] \in Counters \cup {None}
    BY <1>3 DEF IInv, TypeOK
  <1> QED
    BY <1>2, <1>3, <1>4 DEF on_adv

LEMMA OnAdvInv ==
  ASSUME IInv, on_adv
  PROVE  IInv'
  <1>0. PICK p \in Messages :
           LET v == verify_payload(p, last_counter[p.device])
           IN  /\ p = heard[1] /\ 1 \in 1 .. Len(heard)
               /\ p.device \in Devices
               /\ last_counter[p.device] \in Counters \cup {None}
               /\ verdict' = v
               /\ last_counter' = Remember(v)
               /\ reported' = IF v.note = "ok"
                                THEN [reported EXCEPT ![p.device] = v.counter]
                                ELSE reported
               /\ highest' = IF v.note \in {"ok", "replay"}
                               THEN [highest EXCEPT
                                       ![p.device] = Higher(v.counter, @)]
                               ELSE highest
               /\ tainted' = IF v.note = "bad tag"
                               THEN tainted \cup {p.device} ELSE tainted
    BY OnAdvFacts
  <1> DEFINE last == last_counter[p.device]
             v == verify_payload(p, last)
  <1>1. /\ v \in [device: Devices, counter: Counters \cup {None}, note: Notes]
        /\ v.device = p.device /\ v.counter = p.counter
        /\ v.note = "ok" =>
             /\ p.counter \in Counters
             /\ p.tag = compute_tag(p.device, p.counter)
             /\ last = None \/ p.counter > last
        /\ v.note = "replay" => p.counter \in Counters
    BY <1>0, VerdictFacts
  <1>2. /\ heard # <<>> /\ heard' = Tail(heard)
        /\ UNCHANGED <<key, sent, genuine>>
    BY DEF on_adv, beaconVars
  <1>3. /\ p = heard[1] /\ 1 \in 1 .. Len(heard)
        /\ p.device \in Devices /\ last \in Counters \cup {None}
        /\ verdict' = v /\ last_counter' = Remember(v)
    BY <1>0
  <1>4. /\ reported' = IF v.note = "ok"
                         THEN [reported EXCEPT ![p.device] = v.counter]
                         ELSE reported
        /\ highest' = IF v.note \in {"ok", "replay"}
                        THEN [highest EXCEPT ![p.device] = Higher(v.counter, @)]
                        ELSE highest
    BY <1>0
  <1>5. tainted' \subseteq tainted \cup {p.device}
    BY <1>0
  <1> HIDE DEF v
  <1>6. /\ last_counter' \in [Devices -> Counters \cup {None}]
        /\ \A d \in Devices :
             last_counter[d] # None =>
               last_counter'[d] # None /\ last_counter[d] <= last_counter'[d]
        /\ v.counter # None =>
             last_counter'[p.device] # None
             /\ v.counter <= last_counter'[p.device]
    <2>1. CASE v.counter = None
      <3>1. last_counter' = last_counter
        BY <1>3, <2>1 DEF Remember
      <3>2. last_counter \in [Devices -> Counters \cup {None}]
        BY DEF IInv, TypeOK
      <3> QED
        BY <2>1, <3>1, <3>2, CountersFacts
    <2>2. CASE v.counter # None
      <3>1. last_counter' = [last_counter EXCEPT
                               ![p.device] = Higher(v.counter, last)]
        BY <1>1, <1>3, <2>2 DEF Remember
      <3>2. v.counter \in Counters
        BY <1>1, <2>2
      <3>3. /\ Higher(v.counter, last) \in Counters
            /\ v.counter <= Higher(v.counter, last)
            /\ last # None => last <= Higher(v.counter, last)
        BY <1>3, <3>2, HigherFacts
      <3>4. /\ last_counter' \in [Devices -> Counters \cup {None}]
            /\ last_counter'[p.device] = Higher(v.counter, last)
            /\ \A d \in Devices : d # p.device =>
                 last_counter'[d] = last_counter[d]
        BY <1>3, <3>1, <3>3 DEF IInv, TypeOK
      <3>5. ASSUME NEW d \in Devices, last_counter[d] # None
            PROVE  last_counter'[d] # None /\ last_counter[d] <= last_counter'[d]
        <4>1. last_counter[d] \in Counters
          BY <3>5 DEF IInv, TypeOK
        <4>2. CASE d = p.device
          BY <3>3, <3>4, <3>5, <4>2, CountersFacts
        <4>3. CASE d # p.device
          BY <3>4, <4>1, <4>3, CountersFacts
        <4> QED
          BY <4>2, <4>3
      <3> QED
        BY <3>3, <3>4, <3>5, CountersFacts
    <2> QED
      BY <2>1, <2>2
  <1>7. TypeOK'
    <2>1. verdict' \in [device: Devices \cup {None},
                        counter: Counters \cup {None}, note: Notes]
      BY <1>1, <1>3
    <2>2. reported' \in [Devices -> Counters \cup {None}]
      BY <1>1, <1>3, <1>4 DEF IInv, TypeOK
    <2>3. highest' \in [Devices -> Counters \cup {None}]
      <3>1. highest[p.device] \in Counters \cup {None}
        BY <1>3 DEF IInv, TypeOK
      <3>2. CASE v.note \in {"ok", "replay"}
        <4>1. v.counter \in Counters
          BY <1>1, <3>2
        <4>2. Higher(v.counter, highest[p.device]) \in Counters
          BY <3>1, <4>1, HigherFacts
        <4> QED
          BY <1>3, <1>4, <3>2, <4>2 DEF IInv, TypeOK
      <3>3. CASE v.note \notin {"ok", "replay"}
        BY <1>4, <3>3 DEF IInv, TypeOK
      <3> QED
        BY <3>2, <3>3
    <2>4. heard' \in Seq(Messages)
      BY <1>2, HeardFacts DEF IInv
    <2>5. tainted' \subseteq Devices
      BY <1>3, <1>5 DEF IInv, TypeOK
    <2> QED
      BY <1>2, <1>6, <2>1, <2>2, <2>3, <2>4, <2>5
      DEF IInv, TypeOK, Messages, Frames
  <1>8. HeardGenuine'
    <2>1. ASSUME NEW n \in 1 .. Len(heard')
          PROVE  n + 1 \in 1 .. Len(heard) /\ heard'[n] = heard[n + 1]
      BY <1>2, HeardFacts DEF IInv
    <2> QED
      BY <1>2, <2>1 DEF IInv, HeardGenuine, compute_tag
  <1>9. SentGenuine'
    BY <1>2 DEF IInv, SentGenuine
  <1>10. ValidIsGenuine'
    <2> SUFFICES ASSUME v.note = "ok"
                 PROVE  v.counter \in genuine[v.device]
      BY <1>2, <1>3 DEF ValidIsGenuine
    <2>1. p.counter # None /\ p.tag = compute_tag(p.device, p.counter)
      BY <1>1, CountersFacts
    <2> QED
      BY <1>1, <1>3, <2>1 DEF IInv, HeardGenuine
  <1>11. MemoryCovers'
    <2>1. ASSUME NEW d \in Devices, reported'[d] # None
          PROVE  last_counter'[d] # None /\ reported'[d] <= last_counter'[d]
      <3>1. CASE reported'[d] = reported[d]
        <4>1. /\ reported[d] \in Counters /\ last_counter[d] \in Counters
              /\ last_counter'[d] \in Counters
              /\ reported[d] <= last_counter[d]
              /\ last_counter[d] <= last_counter'[d]
          BY <1>6, <2>1, <3>1 DEF IInv, TypeOK, MemoryCovers
        <4>2. /\ reported[d] \in Nat /\ last_counter[d] \in Nat
              /\ last_counter'[d] \in Nat /\ last_counter'[d] # None
          BY <4>1, CountersFacts
        <4> QED
          BY <3>1, <4>1, <4>2
      <3>2. CASE reported'[d] # reported[d]
        <4>1. d = p.device /\ v.note = "ok" /\ reported'[d] = v.counter
          BY <1>3, <1>4, <3>2 DEF IInv, TypeOK
        <4> QED
          BY <1>1, <1>6, <4>1, CountersFacts
      <3> QED
        BY <3>1, <3>2
    <2> QED
      BY <2>1 DEF MemoryCovers
  <1>12. VerdictNamed'
    BY <1>1, <1>3 DEF VerdictNamed
  <1> QED
    BY <1>7, <1>8, <1>9, <1>10, <1>11, <1>12 DEF IInv

LEMMA AdvertiseInv ==
  ASSUME IInv, NEW d \in Devices, Advertise(d)
  PROVE  IInv'
  <1>1. sent[d] + 1 \in Counters
    BY VerifierAssumption DEF Advertise, IInv, TypeOK, Counters
  <1>2. /\ sent' = [sent EXCEPT ![d] = sent[d] + 1]
        /\ sent'[d] = sent[d] + 1
        /\ UNCHANGED <<last_counter, verdict, key, heard, reported, highest, tainted>>
    BY DEF Advertise, verifierVars, historyVars, IInv, TypeOK
  <1>3. /\ genuine' \in [Devices -> SUBSET Counters]
        /\ \A e \in Devices : genuine[e] \subseteq genuine'[e]
        /\ key[d] = KEY => sent'[d] \in genuine'[d]
    BY <1>1, <1>2 DEF Advertise, IInv, TypeOK
  <1>4. TypeOK'
    <2>1. sent' \in [Devices -> Counters]
      BY <1>1, <1>2 DEF IInv, TypeOK
    <2> QED
      BY <1>2, <1>3, <2>1 DEF IInv, TypeOK
  <1>5. HeardGenuine'
    <2>1. \A n \in 1 .. Len(heard) : heard[n].device \in Devices
      <3>1. heard \in Seq(Messages)
        BY DEF IInv, TypeOK, Messages, Frames
      <3> QED
        BY <3>1, MessageFacts
    <2> QED
      BY <1>2, <1>3, <2>1 DEF IInv, HeardGenuine, compute_tag
  <1>6. SentGenuine'
    BY <1>2, <1>3 DEF IInv, TypeOK, SentGenuine
  <1>7. ValidIsGenuine'
    BY <1>2, <1>3 DEF IInv, VerdictNamed, ValidIsGenuine
  <1>8. MemoryCovers'
    BY <1>2 DEF IInv, MemoryCovers
  <1>9. VerdictNamed'
    BY <1>2 DEF IInv, VerdictNamed
  <1> QED
    BY <1>4, <1>5, <1>6, <1>7, <1>8, <1>9 DEF IInv

(* Tags are equal only if all three parts are: one that the verifier takes *)
(* for that of a device and a counter was recorded from that device with   *)
(* that counter, or it is not KEY that made it.                            *)
LEMMA TagBinds ==
  ASSUME NEW d \in Devices, NEW c \in Counters, NEW t \in Recorded \cup {WrongTag},
         t = compute_tag(d, c)
  PROVE  c \in genuine[d]
  <1>1. WrongTag # compute_tag(d, c)
    BY VerifierAssumption DEF WrongTag, compute_tag, Tag
  <1>2. PICK e \in Devices : \E n \in genuine[e] : t = Tag(KEY, e, n)
    BY <1>1 DEF Recorded
  <1>3. PICK n \in genuine[e] : t = Tag(KEY, e, n)
    BY <1>2
  <1>4. e = d /\ n = c
    BY <1>3 DEF compute_tag, Tag
  <1> QED
    BY <1>3, <1>4

LEMMA HearInv ==
  ASSUME IInv, NEW d \in Devices, Hear(d)
  PROVE  IInv'
  <1> PICK m : /\ heard' = Append(heard, m)
               /\ \/ sent[d] > 0 /\ m = Frame(d, sent[d], key[d])
                  \/ \E c \in Counters, t \in Recorded \cup {WrongTag} :
                       m = Payload(d, c, t)
                  \/ m = Foreign(d)
    BY DEF Hear
  <1>1. UNCHANGED <<last_counter, verdict, key, sent, genuine, reported, highest, tainted>>
    BY DEF Hear, verifierVars, beaconVars, historyVars
  <1>2. m \in Messages /\ heard \in Seq(Messages)
    <2>1. Frame(d, sent[d], key[d]) \in Messages
      <3>1. sent[d] \in Counters /\ Tag(key[d], d, sent[d]) \in Tags
        BY DEF IInv, TypeOK, Tags
      <3> QED
        BY <3>1 DEF Frame, Messages, Frames
    <2>2. Recorded \cup {WrongTag} \subseteq Tags
      BY VerifierAssumption DEF IInv, TypeOK, Recorded, Tags
    <2>3. heard \in Seq(Messages)
      BY DEF IInv, TypeOK, Messages, Frames
    <2> QED
      BY <2>1, <2>2, <2>3 DEF Messages, Frames
  <1>3. /\ heard' \in Seq(Messages) /\ Len(heard') = Len(heard) + 1
        /\ heard'[Len(heard) + 1] = m
        /\ \A n \in 1 .. Len(heard) : heard'[n] = heard[n]
    BY <1>2
  <1>4. TypeOK'
    BY <1>1, <1>3 DEF IInv, TypeOK, Messages, Frames
  <1>5. HeardGenuine'
    <2>1. /\ m.counter # None /\ m.tag = compute_tag(m.device, m.counter)
          => m.counter \in genuine[m.device]
      <3>1. CASE sent[d] > 0 /\ m = Frame(d, sent[d], key[d])
        BY <3>1
        DEF Frame, Payload, Tag, compute_tag, IInv, SentGenuine
      <3>2. CASE m = Foreign(d)
        BY <3>2 DEF Foreign
      <3>3. ASSUME NEW c \in Counters, NEW t \in Recorded \cup {WrongTag},
                   m = Payload(d, c, t)
            PROVE  m.tag = compute_tag(m.device, m.counter)
                   => m.counter \in genuine[m.device]
        <4>1. m.device = d /\ m.counter = c /\ m.tag = t
          BY <3>3 DEF Payload
        <4> QED
          BY <4>1, TagBinds
      <3> QED
        BY <3>1, <3>2, <3>3
    <2>2. \A n \in 1 .. Len(heard') : n \in 1 .. Len(heard) \/ n = Len(heard) + 1
      BY <1>2, <1>3
    <2> QED
      BY <1>1, <1>3, <2>1, <2>2 DEF IInv, HeardGenuine, compute_tag
  <1> QED
    BY <1>1, <1>4, <1>5
    DEF IInv, SentGenuine, VerdictNamed, ValidIsGenuine, MemoryCovers

LEMMA RestartInv ==
  ASSUME IInv, NEW d \in Devices, Restart(d)
  PROVE  IInv'
  <1>1. /\ sent' = [sent EXCEPT ![d] = 0] /\ key' \in [Devices -> Keys]
        /\ \A e \in Devices : e # d => key'[e] = key[e]
        /\ UNCHANGED <<last_counter, verdict, heard, genuine, reported, highest, tainted>>
    BY DEF Restart, verifierVars, historyVars, IInv, TypeOK
  <1>2. TypeOK'
    BY <1>1, VerifierAssumption DEF IInv, TypeOK, Counters
  <1> QED
    BY <1>1, <1>2
    DEF IInv, TypeOK, HeardGenuine, SentGenuine, VerdictNamed, ValidIsGenuine,
        MemoryCovers, compute_tag

LEMMA StepInv == IInv /\ [Next]_vars => IInv'
  <1> SUFFICES ASSUME IInv, [Next]_vars PROVE IInv'
    OBVIOUS
  <1>1. CASE UNCHANGED vars
    BY <1>1
    DEF vars, verifierVars, beaconVars, historyVars, IInv, TypeOK, HeardGenuine,
        SentGenuine, VerdictNamed, ValidIsGenuine, MemoryCovers, compute_tag
  <1> QED
    BY <1>1, OnAdvInv, AdvertiseInv, HearInv, RestartInv DEF Next

LEMMA Invariance == Spec => []IInv
  BY InitInv, StepInv, PTL DEF Spec

(* Verifier: the variables keep their types.                               *)
THEOREM VerifierTypeOK == Spec => []TypeOK
  <1>1. IInv => TypeOK
    BY DEF IInv
  <1> QED
    BY <1>1, Invariance, PTL

(* Verifier: the counter of a frame reported as valid was sent under the   *)
(* verifier's key by the device it names, however frames are lost, copied  *)
(* or delayed, and whatever others make of recorded tags, under another    *)
(* address or with another counter.                                        *)
THEOREM VerifierValidIsGenuine == Spec => []ValidIsGenuine
  <1>1. IInv => ValidIsGenuine
    BY DEF IInv
  <1> QED
    BY <1>1, Invariance, PTL

-----------------------------------------------------------------------------
(* Only on_adv takes an advertisement.                                     *)
LEMMA ReportsStep ==
  ASSUME IInv, [Next]_vars, NEW n, Reports(n)
  PROVE  on_adv
  <1>1. heard \in Seq(Messages)
    BY DEF IInv, TypeOK, Messages, Frames
  <1>2. \A m : Len(Append(heard, m)) = Len(heard) + 1 /\ Len(heard) \in Nat
    BY <1>1
  <1> QED
    BY <1>2
    DEF Reports, Next, Advertise, Hear, Restart, vars

LEMMA ValidStepGrows ==
  ASSUME IInv, [Next]_vars, Reports("ok")
  PROVE  LET d == verdict'.device
         IN  reported[d] = None \/ verdict'.counter > reported[d]
  <1>1. on_adv
    BY ReportsStep
  <1>2. PICK p \in Messages :
           /\ p.device \in Devices
           /\ last_counter[p.device] \in Counters \cup {None}
           /\ verdict' = verify_payload(p, last_counter[p.device])
    BY <1>1, OnAdvFacts
  <1>3. /\ verdict'.device = p.device /\ verdict'.counter = p.counter
        /\ p.counter \in Counters
        /\ last_counter[p.device] = None \/ p.counter > last_counter[p.device]
    BY <1>2, VerdictFacts DEF Reports
  <1>4. reported[p.device] # None =>
          /\ last_counter[p.device] # None
          /\ reported[p.device] <= last_counter[p.device]
          /\ reported[p.device] \in Counters
    BY <1>2 DEF IInv, TypeOK, MemoryCovers
  <1>5. reported[p.device] # None =>
          /\ reported[p.device] \in Nat /\ last_counter[p.device] \in Nat
          /\ p.counter \in Nat /\ p.counter > last_counter[p.device]
    BY <1>2, <1>3, <1>4, CountersFacts
  <1>6. reported[p.device] # None => p.counter > reported[p.device]
    BY <1>4, <1>5
  <1> QED
    BY <1>3, <1>6

(* Verifier: the counters reported as valid for a device grow strictly,    *)
(* for as long as the verifier runs.                                       *)
THEOREM VerifierValidCountersGrow == Spec => ValidCountersGrow
  <1>1. IInv /\ [Next]_vars =>
          [Reports("ok") =>
             LET d == verdict'.device
             IN  reported[d] = None \/ verdict'.counter > reported[d]]_vars
    BY ValidStepGrows
  <1> QED
    BY <1>1, Invariance, PTL DEF Spec, ValidCountersGrow

-----------------------------------------------------------------------------
(* What is remembered of a device without a bad tag is what has been       *)
(* received from it with a right tag.                                      *)
MemoryIsRight ==
  \A d \in Devices : d \notin tainted => last_counter[d] = highest[d]

LEMMA MemoryStep ==
  ASSUME IInv, MemoryIsRight, [Next]_vars
  PROVE  MemoryIsRight'
  <1>1. CASE on_adv
    <2>0. PICK p \in Messages :
           LET v == verify_payload(p, last_counter[p.device])
           IN  /\ p.device \in Devices
               /\ last_counter[p.device] \in Counters \cup {None}
               /\ last_counter' = Remember(v)
               /\ highest' = IF v.note \in {"ok", "replay"}
                               THEN [highest EXCEPT
                                       ![p.device] = Higher(v.counter, @)]
                               ELSE highest
               /\ tainted' = IF v.note = "bad tag"
                               THEN tainted \cup {p.device} ELSE tainted
      BY <1>1, OnAdvFacts
    <2> DEFINE v == verify_payload(p, last_counter[p.device])
    <2>1. v.device = p.device /\ v.counter = p.counter
      BY <2>0, VerdictFacts
    <2>2. v.note # "bad tag" =>
            (v.note \in {"ok", "replay"} <=> v.counter # None)
      BY <2>1 DEF verify_payload, Verdict
    <2>3. /\ last_counter' = Remember(v)
          /\ highest' = IF v.note \in {"ok", "replay"}
                          THEN [highest EXCEPT ![p.device] = Higher(v.counter, @)]
                          ELSE highest
          /\ tainted' = IF v.note = "bad tag"
                          THEN tainted \cup {p.device} ELSE tainted
      BY <2>0
    <2>4. /\ last_counter \in [Devices -> Counters \cup {None}]
          /\ highest \in [Devices -> Counters \cup {None}]
      BY DEF IInv, TypeOK
    <2> HIDE DEF v
    <2> SUFFICES ASSUME NEW d \in Devices, d \notin tainted'
                 PROVE  last_counter'[d] = highest'[d]
      BY DEF MemoryIsRight
    <2>5. last_counter[d] = highest[d]
      BY <2>3 DEF MemoryIsRight
    <2>6. CASE d = p.device
      <3>1. v.note # "bad tag"
        BY <2>3, <2>6
      <3>2. CASE v.counter = None
        BY <2>2, <2>3, <2>5, <3>1, <3>2 DEF Remember
      <3>3. CASE v.counter # None
        <4>1. last_counter'[d] = Higher(v.counter, last_counter[d])
          BY <2>1, <2>3, <2>4, <2>6, <3>3 DEF Remember
        <4>2. highest'[d] = Higher(v.counter, highest[d])
          BY <2>2, <2>3, <2>4, <2>6, <3>1, <3>3
        <4> QED
          BY <2>5, <4>1, <4>2
      <3> QED
        BY <3>2, <3>3
    <2>7. CASE d # p.device
      BY <2>1, <2>3, <2>4, <2>5, <2>7 DEF Remember
    <2> QED
      BY <2>6, <2>7
  <1>2. CASE UNCHANGED <<last_counter, highest, tainted>>
    BY <1>2 DEF MemoryIsRight
  <1> QED
    BY <1>1, <1>2
    DEF Next, Advertise, Hear, Restart, vars, verifierVars, historyVars

LEMMA ReplayStepIsOld ==
  ASSUME IInv, MemoryIsRight, [Next]_vars, verdict'.device \notin tainted,
         Reports("replay")
  PROVE  LET d == verdict'.device
         IN  highest[d] # None /\ verdict'.counter <= highest[d]
  <1>1. on_adv
    BY ReportsStep
  <1>2. PICK p \in Messages :
           /\ p.device \in Devices
           /\ last_counter[p.device] \in Counters \cup {None}
           /\ verdict' = verify_payload(p, last_counter[p.device])
    BY <1>1, OnAdvFacts
  <1>3. /\ verdict'.device = p.device /\ verdict'.counter = p.counter
        /\ last_counter[p.device] # None /\ p.counter <= last_counter[p.device]
    BY <1>2, VerdictFacts DEF Reports
  <1>4. last_counter[p.device] = highest[p.device]
    BY <1>2, <1>3 DEF MemoryIsRight
  <1> QED
    BY <1>3, <1>4

(* Verifier: as long as a device has had no bad tag, one of its frames is  *)
(* called a replay only if a counter at least as high has been received    *)
(* from it with a right tag.                                               *)
THEOREM VerifierOnlyReplaysRejected == Spec => OnlyReplaysRejected
  <1>1. Init => MemoryIsRight
    BY DEF Init, MemoryIsRight
  <1>2. IInv /\ MemoryIsRight /\ [Next]_vars => MemoryIsRight'
    BY MemoryStep
  <1>3. IInv /\ MemoryIsRight /\ [Next]_vars =>
          [verdict'.device \in tainted \/ ReplayIsOld]_vars
    BY ReplayStepIsOld DEF ReplayIsOld
  <1> QED
    BY <1>1, <1>2, <1>3, Invariance, PTL DEF Spec, OnlyReplaysRejected

=============================================================================
