---------------------------- MODULE MCConnector -----------------------------
(***************************************************************************)
(* Connector on a small instance.                                          *)
(***************************************************************************)
EXTENDS Connector, TLC

CONSTANTS c1, c2

MCCallers == {c1, c2}
=============================================================================
