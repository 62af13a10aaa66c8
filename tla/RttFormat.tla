----------------------------- MODULE RttFormat -----------------------------
(***************************************************************************)
(* rtt_printf (src/rtt.c): the loop over the format, the conversions with  *)
(* their digit loops, and the calls of rtt_write, one for every character  *)
(* but for %s.  The ring behind rtt_write is reduced to the room it has; a *)
(* probe may make room at any time.                                        *)
(***************************************************************************)
EXTENDS RttText

CONSTANTS
  Chars,       \* the characters of a C string, all but NUL
  Calls,       \* the calls made: [fmt, num, str, chr], the last three being
               \* the arguments of every %u %d %x, of every %s and of every %c
  DecTmp,      \* size of tmp in emit_udec (10)
  Capacity     \* characters the ring can hold (1023)

NUL == "NUL"

ASSUME CharsAssumption ==
  {HexDigits[d] : d \in 1 .. 16} \cup {"-", "%"} \subseteq Chars /\ NUL \notin Chars

(* The sizes of the two digit buffers are those of the largest uint32_t.   *)
ASSUME SizesAssumption ==
  /\ IntMin \in Nat \ {0} /\ DecTmp \in Nat /\ HexTmp \in Nat /\ Capacity \in Nat
  /\ 2 * IntMin <= Pow10[DecTmp] /\ 2 * IntMin <= Pow16[HexTmp]

(* The formats of the callers are made of the items that rtt.h lists.      *)
ASSUME CallsAssumption ==
  \A c \in Calls :
    /\ c \in [fmt : Seq(Chars), num : 0 .. 2 * IntMin - 1, str : Seq(Chars), chr : Chars]
    /\ ItemsFrom(c.fmt, 1)

VARIABLES
  call,        \* the call in progress
  pc,          \* where it is: "out" between calls
  p,           \* the position in its format, 0 between calls
  width,
  v, tmp,      \* of emit_udec or emit_hex: what is left of the number, and
               \* the digits found, the least first
  writes,      \* the arguments of the rtt_write calls to be made before
               \* anything else happens
  from,        \* history: where the item in progress begins
  asked,       \* history: what the call has passed to rtt_write
  stored,      \* history: what of it went into the ring
  room,        \* characters that still fit
  drained      \* history: the probe has made room during this call

vars == <<call, pc, p, width, v, tmp, writes, from, asked, stored, room, drained>>
number == <<v, tmp>>
ring == <<asked, stored, room, drained>>

NoCall == [fmt |-> <<>>, num |-> 0, str |-> <<>>, chr |-> NUL]

Init ==
  /\ call = NoCall /\ pc = "out" /\ p = 0 /\ width = 0
  /\ v = 0 /\ tmp = <<>> /\ writes = <<>> /\ from = 0
  /\ asked = <<>> /\ stored = <<>> /\ room = Capacity /\ drained = FALSE

At(k) == IF k <= Len(call.fmt) THEN call.fmt[k] ELSE NUL

-----------------------------------------------------------------------------
(* The loop over the format.                                               *)

rtt_printf(c) ==
  /\ pc = "out"
  /\ call' = c /\ pc' = "loop" /\ p' = 1
  /\ UNCHANGED <<width, number, writes, from, ring>>

emit_char(c) == <<<<c>>>>

Literal ==
  /\ pc = "loop" /\ writes = <<>> /\ At(p) \notin {"%", NUL}
  /\ writes' = emit_char(At(p)) /\ p' = p + 1
  /\ UNCHANGED <<call, pc, width, number, from, ring>>

(* Behind the '%', a '0' leads in a width.                                 *)
Percent ==
  /\ pc = "loop" /\ writes = <<>> /\ At(p) = "%"
  /\ from' = p /\ width' = 0
  /\ \/ At(p + 1) = "0" /\ pc' = "width" /\ p' = p + 2
     \/ At(p + 1) # "0" /\ pc' = "switch" /\ p' = p + 1
  /\ UNCHANGED <<call, number, writes, ring>>

WidthDigit ==
  /\ pc = "width"
  /\ \E d \in 1 .. 9 : At(p) = HexDigits[d + 1] /\ width' = width * 10 + d
  /\ p' = p + 1
  /\ UNCHANGED <<call, pc, number, writes, from, ring>>

Switch(c) ==
  /\ pc = "switch" \/ (pc = "width" /\ \A d \in 1 .. 9 : At(p) # HexDigits[d + 1])
  /\ At(p) = c /\ p' = p + 1
  /\ UNCHANGED <<call, width, from, ring>>

Emit(ws) == writes' = ws /\ pc' = "loop" /\ UNCHANGED number

(* Mutant: the test for zero is left out.                                  *)
emit_udec_bare(before, n) ==
  writes' = before /\ pc' = "udec" /\ v' = n /\ tmp' = <<>>

(* The call of emit_udec, with what is written before it: its early return *)
(* for zero, or its loop over the digits.                                  *)
emit_udec(before, n) ==
  \/ n = 0 /\ Emit(before \o emit_char("0"))
  \/ n # 0 /\ writes' = before /\ pc' = "udec" /\ v' = n /\ tmp' = <<>>

(* The negation of the smallest int32_t is undefined in C; the core's      *)
(* instruction for it subtracts from zero, and wraps to the same number.   *)
emit_dec(n) ==
  \/ n < IntMin /\ emit_udec(<<>>, n)
  \/ n >= IntMin /\ emit_udec(emit_char("-"), (2 * IntMin - n) % (2 * IntMin))

emit_hex(n) ==
  /\ pc' = "hex" /\ v' = n
  /\ tmp' = IF n = 0 THEN <<"0">> ELSE <<>>
  /\ UNCHANGED writes

Conversion ==
  \/ Switch("s") /\ Emit(<<call.str>>)
  \/ Switch("c") /\ Emit(emit_char(call.chr))
  \/ Switch("u") /\ emit_udec(<<>>, call.num)
  \/ Switch("d") /\ emit_dec(call.num)
  \/ Switch("x") /\ emit_hex(call.num)
  \/ Switch("%") /\ Emit(emit_char("%"))
  \/ /\ Switch(At(p)) /\ At(p) \notin Listed
     /\ Emit(emit_char("%") \o emit_char(At(p)))

-----------------------------------------------------------------------------
(* The digit loops.                                                        *)

Base == IF pc = "hex" THEN 16 ELSE 10

FoundDigit ==
  /\ pc \in {"udec", "hex"} /\ writes = <<>> /\ v # 0
  /\ tmp' = Append(tmp, HexDigits[(v % Base) + 1]) /\ v' = v \div Base
  /\ UNCHANGED <<call, pc, p, width, writes, from, ring>>

(* Mutant: the padding loop runs while n <= min_digits.                    *)
PadOneMore ==
  /\ pc = "hex" /\ v = 0 /\ Len(tmp) <= width
  /\ tmp' = Append(tmp, "0")
  /\ UNCHANGED <<call, pc, p, width, v, writes, from, ring>>

Pad ==
  /\ pc = "hex" /\ v = 0 /\ Len(tmp) < width
  /\ tmp' = Append(tmp, "0")
  /\ UNCHANGED <<call, pc, p, width, v, writes, from, ring>>

(* while (n--) emit_char(tmp[n])                                           *)
Backwards(s) == [k \in 1 .. Len(s) |-> <<s[Len(s) + 1 - k]>>]

EmitDigits ==
  /\ pc \in {"udec", "hex"} /\ writes = <<>> /\ v = 0
  /\ pc = "hex" => Len(tmp) >= width
  /\ writes' = Backwards(tmp)
  /\ pc' = "loop" /\ tmp' = <<>>
  /\ UNCHANGED <<call, p, width, v, from, ring>>

-----------------------------------------------------------------------------
(* Mutant: a string that does not fit is dropped as a whole.               *)
WriteAllOrNothing ==
  /\ writes # <<>>
  /\ writes' = Tail(writes)
  /\ asked' = asked \o Head(writes)
  /\ IF Len(Head(writes)) <= room
       THEN stored' = stored \o Head(writes) /\ room' = room - Len(Head(writes))
       ELSE UNCHANGED <<stored, room>>
  /\ UNCHANGED <<call, pc, p, width, number, from, drained>>

(* rtt_write: what does not fit is trimmed (see Rtt).                      *)
rtt_write ==
  /\ writes # <<>>
  /\ LET d == Head(writes)
         n == IF Len(d) <= room THEN Len(d) ELSE room
     IN  /\ asked' = asked \o d
         /\ stored' = stored \o SubSeq(d, 1, n)
         /\ room' = room - n
  /\ writes' = Tail(writes)
  /\ UNCHANGED <<call, pc, p, width, number, from, drained>>

Return ==
  /\ pc = "loop" /\ writes = <<>> /\ At(p) = NUL
  /\ call' = NoCall /\ pc' = "out" /\ p' = 0 /\ width' = 0 /\ from' = 0
  /\ asked' = <<>> /\ stored' = <<>> /\ drained' = FALSE
  /\ UNCHANGED <<number, writes, room>>

Probe ==
  /\ \E n \in room + 1 .. Capacity : room' = n
  /\ drained' = (pc # "out")
  /\ UNCHANGED <<call, pc, p, width, number, writes, from, asked, stored>>

Next ==
  \/ \E c \in Calls : rtt_printf(c)
  \/ Literal \/ Percent \/ WidthDigit \/ Conversion
  \/ FoundDigit \/ Pad \/ EmitDigits
  \/ rtt_write \/ Return
  \/ Probe

Spec == Init /\ [][Next]_vars

-----------------------------------------------------------------------------
(* Properties.                                                             *)

(* The formats are not read beyond their NUL, and tmp of emit_udec and of  *)
(* emit_hex is not written beyond its end, for any number and width.       *)
StaysInBounds ==
  /\ p <= Len(call.fmt) + 1
  /\ pc = "udec" => Len(tmp) <= DecTmp
  /\ pc = "hex" => Len(tmp) <= HexTmp

(* "Trim the rest": without a probe to drain it, a full ring cuts the end  *)
(* of a line off, and no character after the first lost one is stored.     *)
TrimsTheEnd ==
  ~drained =>
    /\ Len(stored) <= Len(asked)
    /\ \A k \in 1 .. Len(stored) : stored[k] = asked[k]

(* What calls of rtt_write pass on: several arguments are characters.      *)
Passed(ws) == IF Len(ws) = 1 THEN ws[1] ELSE [k \in 1 .. Len(ws) |-> ws[k][1]]

(* The number whose digits are being found, and its numeral.               *)
Argument ==
  IF pc = "udec" /\ At(p - 1) = "d" /\ call.num >= IntMin
    THEN 2 * IntMin - call.num ELSE call.num
Least == IF pc = "hex" /\ width > 0 THEN width ELSE 1
ToCome == IF pc \in {"udec", "hex"} THEN Numeral(Argument, Base, Least) ELSE <<>>

(* rtt_write is asked for what rtt.h says: of each item of the format its  *)
(* text, in the order of the format, for every number, width and string.   *)
Documented ==
  INSTANCE RttPrintf WITH
    at <- IF pc \in {"width", "switch"} THEN from ELSE p,
    output <- asked \o Passed(writes) \o ToCome

DocumentedOutput == Documented!Spec

=============================================================================
