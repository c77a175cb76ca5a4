---------------------------- MODULE MCNATNetwork ----------------------------
(* NATNetwork for TLC: a tcp rule and two udp rules, of which two differ in   *)
(* the port only and so have one name.                                        *)
EXTENDS NATNetwork, TLC

TwoAttributes == {"small", "large"}
ThreeRules == {"ssh", "dns", "dns2"}
TwoNames == {"ssh", "dns"}
RuleName == [rule \in ThreeRules |-> IF rule = "ssh" THEN "ssh" ELSE "dns"]
UdpRules == {"dns", "dns2"}
\* Lists without two rules of one name, and one with.
SomeLists == {{}, {"ssh"}, {"dns"}, {"dns2"}, {"ssh", "dns"}, {"dns", "dns2"}}
AnyFaults == FaultKinds
=============================================================================
