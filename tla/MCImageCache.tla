---------------------------- MODULE MCImageCache ----------------------------
(* ImageCache for TLC: two or three creates, images of two members.         *)
EXTENDS ImageCache, TLC

CONSTANTS c1, c2, c3, i1, i2, f1, f2

MCCreates == {c1, c2}
MCFiles == {f1, f2}

ThreeCreates == {c1, c2, c3}

TwoImages == {i1, i2}
\* Two images with file names of their own; c1 and c2 use the same one.
TwoAndOne == [c \in ThreeCreates |-> IF c = c3 THEN i2 ELSE i1]
OwnFiles == [i \in TwoImages |-> IF i = i1 THEN f1 ELSE f2]
\* c1 and c2 are alike.
Alike == Permutations({c1, c2})

\* One image for both creates.
OneImage == {i1}
SameImage == [c \in MCCreates |-> i1]
OneFile == [i \in OneImage |-> f1]

\* The image of c3 is downloaded, that of c1 and c2 is a local file.
JustSecond == {i2}
NoFaults == {}
FetchAndVBox == {"fetch", "vbox"}
AllFaults == FaultKinds
BothMembers == {1, 2}
SecondMember == {2}
=============================================================================
