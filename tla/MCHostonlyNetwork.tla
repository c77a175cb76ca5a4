------------------------- MODULE MCHostonlyNetwork --------------------------
(* HostonlyNetwork for TLC. *)
EXTENDS HostonlyNetwork, TLC

TwoAddresses == {"a", "b"}
OneAddress6 == {"a6"}
OneRange == {"low"}
AnyFaults == FaultKinds
=============================================================================
