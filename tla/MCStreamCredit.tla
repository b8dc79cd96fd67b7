--------------------------- MODULE MCStreamCredit ---------------------------
(* A small instance of StreamCredit: more items than pending callbacks, and *)
(* a Long.MAX_VALUE that two requests together exceed.                      *)
EXTENDS StreamCredit

OneOrFour == {1, 4}
=============================================================================
