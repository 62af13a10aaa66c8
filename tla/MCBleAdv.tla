------------------------------ MODULE MCBleAdv ------------------------------
(***************************************************************************)
(* BleAdv with the hash of src/siphash.c under the key of config.h, an     *)
(* empty name, the name of config.h and one that fills AdvData; the        *)
(* address of the documentation and one that differs in the lowest bit;    *)
(* counters at byte boundaries. The hash itself is compared on messages of *)
(* every length from 0 to 20 and of 257 bytes, on those of the frames, and *)
(* on bytes and keys of all ones, where every addition carries.            *)
(***************************************************************************)
EXTENDS BleAdv

K0 == <<\h0100, \h0302, \h0504, \h0706>>
K1 == <<\h0908, \h0b0a, \h0d0c, \h0f0e>>
Ones == <<\hffff, \hffff, \hffff, \hffff>>

MCCalls ==
  {[in |-> [k \in 1 .. n |-> (k - 1) % 256], k0 |-> K0, k1 |-> K1] :
     n \in (0 .. 20) \cup {257}}
    \cup {[in |-> [k \in 1 .. n |-> 255], k0 |-> Ones, k1 |-> K1] :
            n \in {0, 3, 7, 8, 16}}

SH == INSTANCE SipHash WITH Calls <- MCCalls

Hash == [bs \in Seq([1 .. 8 -> Byte]) |->
  LET w == SH!Hashed(K0, K1, bs)
  IN  [k \in 1 .. 8 |-> (w[(k + 1) \div 2] \div (IF k % 2 = 1 THEN 1 ELSE 256)) % 256]]

FindMyKeys == <<70, 105, 110, 100, 77, 121, 75, 101, 121, 115>>
MCNames == {<<>>, FindMyKeys, FindMyKeys \o <<195, 188, 50>>}
MCDeviceAddrs == {<<163, 245, 80, 143, 42, 34, 255, 255>>,
                  <<162, 245, 80, 143, 42, 226, 255, 255>>}
MCCounters == {1, 255, 65536, 2147483647}

(* The firmware's hash is the receiver's and gives the published vectors   *)
(* at every boot, before any frame is tagged with it.                      *)
HashesAgree == pc = "boot" => SH!SameFunction /\ SH!VectorsMatch

=============================================================================
