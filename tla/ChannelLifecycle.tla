-------------------------- MODULE ChannelLifecycle --------------------------
(***************************************************************************)
(* What a DxLinkWebSocketChannel promises about its life, whatever the     *)
(* concurrent calls: the server may open it once, nothing takes an opened  *)
(* channel back to Requested, and it is closed, for good, only after a     *)
(* CHANNEL_CANCEL was accepted for transmission.                           *)
(***************************************************************************)

VARIABLES life,       \* the channel's DxLinkChannelState
          cancelled   \* a CHANNEL_CANCEL was accepted for transmission

Init == life = "Requested" /\ cancelled = FALSE

Open == life = "Requested" /\ life' = "Opened" /\ UNCHANGED cancelled

Cancel == cancelled' = TRUE /\ UNCHANGED life

Close == cancelled /\ life # "Closed" /\ life' = "Closed" /\ UNCHANGED cancelled

Next == Open \/ Cancel \/ Close

Spec == Init /\ [][Next]_<<life, cancelled>>
=============================================================================
