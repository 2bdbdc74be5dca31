-------------------------- MODULE MCSignalBuffers --------------------------
(***************************************************************************)
(* One Bermuda signal and one radar source with one or two channels.       *)
(***************************************************************************)
EXTENDS SignalBuffers

MCSourceOf == [x |-> "radar", y |-> "radar"]
=============================================================================
