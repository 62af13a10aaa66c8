------------------------------- MODULE BleAdv -------------------------------
(***************************************************************************)
(* The bytes of a frame, from the device address of the chip (src/ficr.c)  *)
(* over the tag (src/auth.c) and the PDU (src/ble.c) to what the radio     *)
(* sends of it, a scanner makes of it, and tools/verify_beacon.py says.    *)
(***************************************************************************)
EXTENDS SipBlocks

CONSTANTS
  Names,          \* values of BEACON_NAME, as sequences of bytes
  DeviceAddrs,    \* values of DEVICEADDR[0] and [1]: eight bytes, lowest first
  Counters,       \* values of the frame counter
  hash            \* what SipHash under the key makes of the blocks of a
                  \* message: eight bytes, lowest first

Byte == 0 .. 255
BLE_PDU_MAX == 39
MAXLEN == 37              \* radio.c
BEACON_COMPANY_ID == 65535
BEACON_VERSION == 1

(* The longest name that leaves the 31 bytes of AdvData room: 13 bytes.    *)
MaxName == BLE_PDU_MAX - 26

OrC0(b) == 192 + (b % 64)
LE32(x) == <<x % 256, (x \div 256) % 256, (x \div 65536) % 256,
             (x \div 16777216) % 256>>

Address(a) == <<a[1], a[2], a[3], a[4], a[5], OrC0(a[6])>>

(* siphash.c and the script do the same rounds, each on blocks of its own. *)
siphash24(in) == hash[blocks(in)]
script_siphash24(data) == hash[script_blocks(data)]

(* The message of auth_compute_tag, and the low four bytes of its hash.    *)
Message(m, version, c) ==
  <<m[1], m[2], m[3], m[4], m[5], m[6], version>> \o LE32(c)
Truncated(h) == <<h[1], h[2], h[3], h[4]>>

(* Mutant: the counter is hashed with its highest byte first.              *)
auth_compute_tag_be(m, version, c) ==
  LET msg == Message(m, version, c)
  IN  Truncated(siphash24(SubSeq(msg, 1, 7) \o <<msg[11], msg[10], msg[9], msg[8]>>))

auth_compute_tag(m, version, c) == Truncated(siphash24(Message(m, version, c)))

ASSUME NamesAssumption == \A n \in Names : n \in Seq(Byte) /\ Len(n) <= MaxName

ASSUME InputsAssumption ==
  DeviceAddrs \subseteq [1 .. 8 -> Byte] /\ Counters \subseteq Nat

(* The counter is a uint32_t.                                             *)
ASSUME CountersAssumption == \A c \in Counters : c \div 65536 < 65536

ASSUME HashAssumption ==
  \A a \in DeviceAddrs, c \in Counters :
    siphash24(Message(Address(a), BEACON_VERSION, c)) \in [1 .. 8 -> Byte]

Buffer == 0 .. BLE_PDU_MAX - 1

VARIABLES
  name,          \* BEACON_NAME of this build
  addr,          \* DEVICEADDR of this chip
  pc,
  mac, counter,  \* the arguments of ble_build_adv
  i, s_pdu       \* its index, and the buffer it fills

vars == <<name, addr, pc, mac, counter, i, s_pdu>>

Places == {"boot", "loop", "adva", "flags", "name", "manufacturer", "length", "built"}

TypeOK ==
  /\ name \in Names /\ addr \in DeviceAddrs
  /\ pc \in Places
  /\ mac \in [1 .. 6 -> Byte] /\ counter \in Counters \cup {0}
  /\ i \in 0 .. BLE_PDU_MAX
  /\ s_pdu \in [Buffer -> Byte]

Zeroed == [k \in Buffer |-> 0]

Init ==
  /\ name \in Names /\ addr \in DeviceAddrs
  /\ pc = "boot" /\ mac = [k \in 1 .. 6 |-> 0] /\ counter = 0
  /\ i = 0 /\ s_pdu = Zeroed

ficr_get_ble_mac ==
  /\ pc = "boot"
  /\ mac' = Address(addr) /\ pc' = "loop"
  /\ UNCHANGED <<name, addr, counter, i, s_pdu>>

-----------------------------------------------------------------------------
(* ble_build_adv.                                                          *)

(* out[i++] = b for each b of the sequence bs.                             *)
Put(bs) ==
  /\ s_pdu' = [k \in Buffer |-> IF k \in i .. i + Len(bs) - 1
                                  THEN bs[k - i + 1] ELSE s_pdu[k]]
  /\ i' = i + Len(bs)

Section(from, bs, to) ==
  /\ pc = from /\ Put(bs) /\ pc' = to
  /\ UNCHANGED <<name, addr, mac, counter>>

ADV_NONCONN_IND_HEADER == 66
len_index == 1

(* The call: the header byte, and the place of LENGTH left open.           *)
ble_build_adv(c) ==
  /\ pc = "loop"
  /\ counter' = c /\ pc' = "adva"
  /\ i' = 2 /\ s_pdu' = [s_pdu EXCEPT ![0] = ADV_NONCONN_IND_HEADER]
  /\ UNCHANGED <<name, addr, mac>>

AdvA == Section("adva", mac, "flags")

Flags == Section("flags", <<2, 1, 6>>, "name")

(* Mutant: const_strlen counts the NUL.                                    *)
NameWithNul ==
  Section("name", <<2 + Len(name), 9>> \o Append(name, 0), "manufacturer")

CompleteName == Section("name", <<1 + Len(name), 9>> \o name, "manufacturer")

(* Mutant: the length of the structure leaves out the company id.          *)
ManufacturerShort ==
  Section("manufacturer",
    <<10, 255, BEACON_COMPANY_ID % 256, BEACON_COMPANY_ID \div 256, BEACON_VERSION>>
      \o LE32(counter) \o auth_compute_tag(mac, BEACON_VERSION, counter), "length")

Manufacturer ==
  Section("manufacturer",
    <<12, 255, BEACON_COMPANY_ID % 256, BEACON_COMPANY_ID \div 256, BEACON_VERSION>>
      \o LE32(counter) \o auth_compute_tag(mac, BEACON_VERSION, counter), "length")

BackFill ==
  /\ pc = "length" /\ pc' = "built"
  /\ s_pdu' = [s_pdu EXCEPT ![len_index] = (i - 2) % 256]
  /\ UNCHANGED <<name, addr, mac, counter, i>>

(* main goes on when the three packets are out (see Beacon).               *)
Sent ==
  /\ pc = "built" /\ pc' = "loop"
  /\ UNCHANGED <<name, addr, mac, counter, i, s_pdu>>

Reset ==
  /\ pc' = "boot" /\ mac' = [k \in 1 .. 6 |-> 0] /\ counter' = 0
  /\ i' = 0 /\ s_pdu' = Zeroed
  /\ UNCHANGED <<name, addr>>

Next ==
  \/ ficr_get_ble_mac
  \/ \E c \in Counters : ble_build_adv(c)
  \/ AdvA \/ Flags \/ CompleteName \/ Manufacturer \/ BackFill \/ Sent
  \/ Reset

Spec == Init /\ [][Next]_vars

-----------------------------------------------------------------------------
(* The radio and the scanner.                                              *)

(* The bytes s_pdu[from] .. s_pdu[to].                                     *)
Bytes(from, to) == [k \in 1 .. to - from + 1 |-> s_pdu[from + k - 1]]

(* EasyDMA reads the two header bytes and then as many as LENGTH says, but *)
(* no more than MAXLEN: the index behind the last byte sent.               *)
SentEnd == 2 + (IF s_pdu[1] <= MAXLEN THEN s_pdu[1] ELSE MAXLEN)

(* A scanner goes from one AD structure to the next by its length byte.    *)
After(at) == at + 1 + s_pdu[at]
FlagsAt == 8
NameAt == After(FlagsAt)
ManufacturerAt == After(NameAt)

Value(at) == Bytes(at + 2, After(at) - 1)
Backwards(s) == [k \in 1 .. Len(s) |-> s[Len(s) + 1 - k]]

(* What a scanner reports: the address as it displays it, highest byte     *)
(* first, the name, and the manufacturer data behind the company id.       *)
Displayed == Backwards(Bytes(2, 7))
local_name == Value(NameAt)
company_id == Bytes(ManufacturerAt + 2, ManufacturerAt + 3)
manufacturer_data == Bytes(ManufacturerAt + 4, After(ManufacturerAt) - 1)

-----------------------------------------------------------------------------
(* tools/verify_beacon.py.                                                 *)

compute_tag(mac_le, version, c) ==
  SubSeq(script_siphash24(mac_le \o <<version>> \o LE32(c)), 1, 4)

parse_mac(text) == Backwards(text)

FromLE(b) == b[1] + 256 * b[2] + 65536 * b[3] + 16777216 * b[4]

(* The verdict on a payload with no counter to compare it with.            *)
verify_payload(mac_le, payload) ==
  IF Len(payload) # 9
    THEN [ok |-> FALSE, note |-> "length"]
    ELSE LET c == FromLE(SubSeq(payload, 2, 5))
         IN  IF SubSeq(payload, 6, 9) # compute_tag(mac_le, payload[1], c)
               THEN [ok |-> FALSE, note |-> "bad tag"]
               ELSE [ok |-> TRUE, counter |-> c]

run_offline(mac_text, data) ==
  verify_payload(parse_mac(mac_text),
    IF Len(data) = 11 /\ SubSeq(data, 1, 2) = <<255, 255>>
      THEN SubSeq(data, 3, 11) ELSE data)

-----------------------------------------------------------------------------
(* Properties.                                                             *)

(* For every name of at most MaxName bytes, whatever was in the buffer     *)
(* before: the whole PDU is sent, nothing of it is cut off by MAXLEN and   *)
(* nothing behind it is sent; the lengths of the three AD structures lead  *)
(* a scanner to its end; and it reads what the build and the chip say, and *)
(* an address with the two bits of a random static one.                    *)
ScannerReads ==
  pc = "built" =>
    /\ SentEnd = i
    /\ After(ManufacturerAt) = i
    /\ s_pdu[FlagsAt + 1] = 1 /\ s_pdu[NameAt + 1] = 9 /\ s_pdu[ManufacturerAt + 1] = 255
    /\ local_name = name
    /\ company_id = <<255, 255>>
    /\ Displayed = Backwards(mac) /\ mac[6] >= 192

(* End to end: the script accepts what the scanner shows of each frame,    *)
(* with the counter of the frame, under the address of this beacon and     *)
(* under no other; offline it also accepts the data with the company id.   *)
ScriptAccepts ==
  pc = "built" =>
    LET verdict == [ok |-> TRUE, counter |-> counter]
    IN  /\ run_offline(Displayed, manufacturer_data) = verdict
        /\ run_offline(Displayed, company_id \o manufacturer_data) = verdict
        /\ \A a \in DeviceAddrs : Address(a) # mac =>
             ~run_offline(Backwards(Address(a)), manufacturer_data).ok

=============================================================================
