----------------------------- MODULE MCChannel ------------------------------
(***************************************************************************)
(* Channel on small instances.                                             *)
(***************************************************************************)
EXTENDS Channel, TLC

CONSTANTS c1, c2, c3, l1

MCCallers == {c1, c2, c3}
MCListeners == {l1}
=============================================================================
