-------------------------- MODULE MCChannelManager --------------------------
(* Values for checking ChannelManager on its own, through every failure    *)
(* count up to saturation and past the longest backoff window.             *)
EXTENDS ChannelManager

MCTimeSteps == {1, 2, 100}
=============================================================================
