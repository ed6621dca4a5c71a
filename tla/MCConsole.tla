------------------------------- MODULE MCConsole -------------------------------
(***************************************************************************)
(* A screen of 3 by 3; bytes of 4 values, so that the cursor needs both    *)
(* registers; ints of 9 bits.                                              *)
(***************************************************************************)
EXTENDS Console

Conv(kind, v) == [kind |-> kind, v |-> v]

Number(v) == <<Conv("d", v)>>

HighChars == {"e acute"}

(* Each format of the loader, shortened, and the numbers at the edges of   *)
(* the conversions.                                                        *)
SomeMessages ==
  {<<Text("E"), Text("\n")>>, <<Text("a"), Text("b"), Text("c"), Text("d")>>, << >>,
   <<Conv("s", <<"o", "k">>), Text("\n"), Text("\n")>>, <<Conv("s", << >>), Text("%")>>,
   <<Text("u"), Conv("u", 7), Text("\n")>>,
   <<Conv("c", "e acute"), Conv("x", 0), Conv("d", 10)>>, <<Conv("x", 511), Conv("c", "z")>>,
   <<Conv("d", 0), Conv("d", -1), Conv("s", <<"\n">>)>>}
    \cup {Number(v) : v \in {9, 99, 255, -10, -256}}
=============================================================================
