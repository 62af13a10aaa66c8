------------------------------ MODULE Verifier ------------------------------
(***************************************************************************)
(* The receiver, tools/verify_beacon.py --scan: on_adv is called by the    *)
(* scanner, once for every advertisement heard, checks its tag and its     *)
(* counter and remembers the highest counter of each device.  Around it    *)
(* stand the beacons, which count their events, are restarted or flashed   *)
(* with another key, and whose packets are heard zero to three times (one  *)
(* on each channel) and reported in the order in which they were heard;    *)
(* and other senders, whose frames may name any device and any counter and *)
(* carry any tag that can be had without the key.                          *)
(***************************************************************************)
EXTENDS Naturals, Sequences

CONSTANTS
  Devices,     \* device addresses
  Keys,        \* the keys the beacons may be flashed with
  KEY,         \* the key of the verifier
  None,        \* "no counter", None of Python
  MaxCounter,  \* bound: a beacon is not followed any further (2^32 - 1)
  MaxHeard     \* bound: advertisements waiting for on_adv

ASSUME VerifierAssumption ==
  /\ KEY \in Keys
  /\ MaxCounter \in Nat /\ MaxHeard \in Nat
  /\ None \notin 0 .. MaxCounter /\ None \notin Keys

VARIABLES
  last_counter,  \* the dict of run_scan
  verdict,       \* the last line printed
  key, sent,     \* of each beacon: its key, its s_counter
  heard,         \* the advertisements on_adv has not been called for yet
  genuine,       \* history: the counters each device has sent under KEY
  reported,      \* history: the last counter reported as valid, or None
  highest,       \* history: the highest counter received with a right tag
  tainted        \* history: the devices reported with a bad tag

verifierVars == <<last_counter, verdict>>
beaconVars == <<key, sent, genuine>>
historyVars == <<reported, highest, tainted>>
vars == <<verifierVars, beaconVars, heard, historyVars>>

Counters == 0 .. MaxCounter

(* Mutant: the address is not part of what is hashed.                      *)
Tag_no_mac(k, mac, counter) == [key |-> k, mac |-> None, counter |-> counter]

(* Mutant: the counter is not part of what is hashed.                      *)
Tag_no_counter(k, mac, counter) == [key |-> k, mac |-> mac, counter |-> None]

(* Two tags are equal if they are over the same message under the same key *)
(* (the 32-bit truncation is left out). The version is always 1.           *)
Tag(k, mac, counter) == [key |-> k, mac |-> mac, counter |-> counter]

compute_tag(mac, counter) == Tag(KEY, mac, counter)

(* What on_adv is called with: a frame, whose parts need not belong to     *)
(* each other, or an advertisement of some other product with the same     *)
(* name and company id, of another length.                                 *)
Payload(d, c, t) == [device |-> d, counter |-> c, tag |-> t]
Frame(d, c, k) == Payload(d, c, Tag(k, d, c))
Foreign(d) == [device |-> d, counter |-> None, tag |-> None]

(* A tag made without the keys: the verifier tells none from another.      *)
WrongTag == Tag(None, None, None)

Tags == {Tag(k, d, c) : k \in Keys, d \in Devices, c \in Counters}
          \cup {WrongTag}

Notes == {"none", "length", "bad tag", "replay", "ok"}
Verdict(d, c, n) == [device |-> d, counter |-> c, note |-> n]

TypeOK ==
  /\ last_counter \in [Devices -> Counters \cup {None}]
  /\ verdict \in [device: Devices \cup {None}, counter: Counters \cup {None},
                  note: Notes]
  /\ key \in [Devices -> Keys]
  /\ sent \in [Devices -> Counters]
  /\ heard \in Seq({Foreign(d) : d \in Devices} \cup
                   {Payload(d, c, t) : d \in Devices, c \in Counters, t \in Tags})
  /\ genuine \in [Devices -> SUBSET Counters]
  /\ reported \in [Devices -> Counters \cup {None}]
  /\ highest \in [Devices -> Counters \cup {None}]
  /\ tainted \subseteq Devices

Init ==
  /\ last_counter = [d \in Devices |-> None]
  /\ verdict = Verdict(None, None, "none")
  /\ key \in [Devices -> Keys]
  /\ sent = [d \in Devices |-> 0]
  /\ heard = <<>>
  /\ genuine = [d \in Devices |-> {}]
  /\ reported = [d \in Devices |-> None]
  /\ highest = [d \in Devices |-> None]
  /\ tainted = {}

-----------------------------------------------------------------------------
(* The verifier.                                                           *)

NotBeyond(c, last) == last # None /\ c <= last

(* Mutant: the last counter itself is not a replay.                        *)
verify_payload_again(p, last) ==
  CASE p.counter = None -> Verdict(p.device, None, "length")
    [] p.counter # None /\ p.tag # compute_tag(p.device, p.counter)
         -> Verdict(p.device, p.counter, "bad tag")
    [] p.counter # None /\ NotBeyond(p.counter, last) /\ p.counter # last
         -> Verdict(p.device, p.counter, "replay")
    [] OTHER -> Verdict(p.device, p.counter, "ok")

verify_payload(p, last) ==
  IF p.counter = None
    THEN Verdict(p.device, None, "length")
  ELSE IF p.tag # compute_tag(p.device, p.counter)
    THEN Verdict(p.device, p.counter, "bad tag")
  ELSE IF NotBeyond(p.counter, last)
    THEN Verdict(p.device, p.counter, "replay")
    ELSE Verdict(p.device, p.counter, "ok")

Higher(c, last) == IF last = None \/ c > last THEN c ELSE last

(* Mutant: one memory for all devices.                                     *)
RememberForAll(v) ==
  IF v.counter = None
    THEN last_counter
    ELSE [d \in Devices |-> Higher(v.counter, last_counter[v.device])]

(* last_counter after a verdict, the negative ones included.               *)
Remember(v) ==
  IF v.counter = None
    THEN last_counter
    ELSE [last_counter EXCEPT ![v.device] = Higher(v.counter, @)]

(* One call of on_adv. *)
on_adv ==
  /\ heard # <<>>
  /\ LET p == Head(heard)
         v == verify_payload(p, last_counter[p.device])
     IN  /\ verdict' = v
         /\ last_counter' = Remember(v)
         /\ reported' = IF v.note = "ok"
                          THEN [reported EXCEPT ![p.device] = v.counter]
                          ELSE reported
         /\ highest' = IF v.note \in {"ok", "replay"}
                         THEN [highest EXCEPT ![p.device] = Higher(v.counter, @)]
                         ELSE highest
         /\ tainted' = IF v.note = "bad tag" THEN tainted \cup {p.device} ELSE tainted
  /\ heard' = Tail(heard)
  /\ UNCHANGED beaconVars

-----------------------------------------------------------------------------
(* The beacons and the air.                                                *)

Advertise(d) ==
  /\ sent[d] < MaxCounter
  /\ sent' = [sent EXCEPT ![d] = @ + 1]
  /\ genuine' = IF key[d] = KEY THEN [genuine EXCEPT ![d] = @ \cup {sent'[d]}]
                                ELSE genuine
  /\ UNCHANGED <<verifierVars, key, heard, historyVars>>

(* The tags under KEY that a frame of others can carry are recorded ones.  *)
Recorded == UNION {{Tag(KEY, d, c) : c \in genuine[d]} : d \in Devices}

(* What is heard under the address of d: the frame of its current event,   *)
(* on one of the channels; a frame of others, such as one of an earlier    *)
(* event, or one with the tag of another beacon or of another counter; or  *)
(* an advertisement of another product.                                    *)
Hear(d) ==
  /\ Len(heard) < MaxHeard
  /\ \/ sent[d] > 0 /\ heard' = Append(heard, Frame(d, sent[d], key[d]))
     \/ \E c \in Counters, t \in Recorded \cup {WrongTag} :
          heard' = Append(heard, Payload(d, c, t))
     \/ heard' = Append(heard, Foreign(d))
  /\ UNCHANGED <<verifierVars, beaconVars, historyVars>>

(* The counter is not persisted; the restart may follow a reflash.         *)
Restart(d) ==
  /\ sent' = [sent EXCEPT ![d] = 0]
  /\ key' \in {[key EXCEPT ![d] = k] : k \in Keys}
  /\ UNCHANGED <<verifierVars, heard, genuine, historyVars>>

Next ==
  \/ on_adv
  \/ \E d \in Devices : Advertise(d) \/ Hear(d) \/ Restart(d)

Spec == Init /\ [][Next]_vars

-----------------------------------------------------------------------------
(* Properties.                                                             *)

(* The step in which on_adv prints a line with note n.                     *)
Reports(n) == Len(heard') < Len(heard) /\ verdict'.note = n

(* A frame is reported as valid only if the device it names has sent its   *)
(* counter under the verifier's key: "a frame recorded from beacon A       *)
(* cannot be replayed under beacon B's address" (docs/04), nor its tag     *)
(* under another counter.                                                  *)
ValidIsGenuine ==
  verdict.note = "ok" => verdict.counter \in genuine[verdict.device]

(* "A receiver ... by remembering the highest counter it has seen, rejects *)
(* ... replays" (auth.h): each counter reported as valid for a device is   *)
(* higher than the one before, through restarts of the beacon, copies of   *)
(* one event on three channels, recorded frames that are sent again, and   *)
(* advertisements that are rejected.                                       *)
ValidCountersGrow ==
  [][Reports("ok") =>
       LET d == verdict'.device
       IN  reported[d] = None \/ verdict'.counter > reported[d]]_vars

(* The step reports a replay only if a counter at least as high has been   *)
(* received with a right tag from that device.                             *)
ReplayIsOld ==
  LET d == verdict'.device
  IN  Reports("replay") => highest[d] # None /\ verdict'.counter <= highest[d]

(* "Valid tag, counter advanced -> genuine -> update last-seen counter",   *)
(* which "the script implements exactly" (docs/04): a right tag with a     *)
(* counter beyond all those received with a right tag is not rejected.     *)
DocumentedReceiver == [][ReplayIsOld]_vars

(* It does so for each device that has had no bad tag yet, whatever the    *)
(* others send: through restarts, lost frames, and copies of one event.    *)
OnlyReplaysRejected == [][verdict'.device \in tainted \/ ReplayIsOld]_vars

=============================================================================
