---------------------------- MODULE MCRttFormat ----------------------------
(***************************************************************************)
(* RttFormat with 8-bit integers.  Every number is converted in every way; *)
(* formats of two parts are tried on the numbers at the boundaries.        *)
(***************************************************************************)
EXTENDS RttFormat

Letters ==
  {HexDigits[d] : d \in 1 .. 16} \cup {"-", "%", "q", "r", "s", "t", "u", "x"}

Call(f, n) == [fmt |-> f, num |-> n, str |-> <<"s", "t", "r">>, chr |-> "c"]

Numeric ==
  {<<"%", c>> : c \in {"u", "d", "x"}} \cup {<<"%", "0", w, "x">> : w \in {"1", "2"}}
Parts == Numeric \cup {<<"%", c>> : c \in {"s", "c", "%", "q"}} \cup {<<"a">>, <<"0">>}

DocumentedCalls ==
  {Call(f, n) : f \in Numeric, n \in 0 .. 255}
    \cup {Call(f \o g, n) : f \in Parts, g \in Parts, n \in {0, 10, 128, 255}}
=============================================================================
