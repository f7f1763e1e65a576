---------------------------- MODULE ChannelState ----------------------------
(***************************************************************************)
(* DxLinkChannelState (src/src/core/channel.rs) and the transition table   *)
(* of DxLinkWebSocketChannel::set_state                                    *)
(* (src/src/websocket_client/channel.rs), shared by Channel and Client.    *)
(***************************************************************************)

ChannelStates == {"Requested", "Opened", "Closed"}

\* The transitions set_state accepts; any other is logged and ignored.
ValidTransitions ==
    {<<"Requested", "Opened">>, <<"Requested", "Closed">>, <<"Opened", "Closed">>}

\* A channel stays usable only forwards: Requested, then Opened, then Closed.
Rank == [s \in ChannelStates |->
            CASE s = "Requested" -> 0 [] s = "Opened" -> 1 [] s = "Closed" -> 2]

\* Mutant: set_state without its validation of the transition.
SetStateUnvalidated(current, new) == new

\* The state set_state(new) leaves behind when the channel was in current.
SetState(current, new) ==
    IF <<current, new>> \in ValidTransitions THEN new ELSE current
=============================================================================
