------------------------------- MODULE MCDom --------------------------------
(***************************************************************************)
(* Dom on a small instance: two prices, and sides with an entry that is    *)
(* refused.                                                                *)
(***************************************************************************)
EXTENDS Dom, SequencesExt

CONSTANTS d1, d2

MCCallers == {d1, d2}
MCSides == BoundedSeq(1 .. 2, 2) \cup {<<Refused>>, <<1, Refused>>}
=============================================================================
