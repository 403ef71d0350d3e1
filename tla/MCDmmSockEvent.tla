---------------------------- MODULE MCDmmSockEvent ----------------------------
(* Model values and small sets for checking DmmSockEvent with TLC.         *)
EXTENDS DmmSockEvent, TLC

CONSTANTS a, b, s1, s2, s3

MCFds == {1, 2}
MCNodes == {a, b}
MCSeIds == {s1, s2, s3}
MCMasks == {"in", "inout"}

\* Nodes are interchangeable; objects are allocated by CHOOSE, so the
\* object identities are not.
MCSymmetry == Permutations(MCNodes)
====
