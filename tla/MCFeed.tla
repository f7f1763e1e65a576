------------------------------- MODULE MCFeed -------------------------------
(***************************************************************************)
(* Feed on a small instance.  The layouts differ in their number of fields, *)
(* so that values cut with the wrong one make more or fewer events.        *)
(***************************************************************************)
EXTENDS Feed

MCWidth == [i \in 1 .. MaxMessages |-> 1 + (i % 2)]
MCBudgets == {<<3, 0>>, <<0, 3>>, <<1, 1>>}
=============================================================================
