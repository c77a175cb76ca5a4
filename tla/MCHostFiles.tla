----------------------------- MODULE MCHostFiles ----------------------------
(* HostFiles for TLC: the export is web.ovf, one disk is web-data.vdi in the  *)
(* same directory.                                                            *)
EXTENDS HostFiles, TLC

CONSTANTS root, data

TwoDisks == {root, data}
TwoSizes == {1, 2}
DataOnly == {data}
AnyFaults == FaultKinds
=============================================================================
