------------------------------ MODULE MCDmmGraph ------------------------------
(* Instances of DmmGraph: a cpuload source, a prepend (or a wavebuf) and a  *)
(* blackhole, connected through hooks named "in" and "out".                 *)
EXTENDS DmmGraph, TLC

CONSTANTS n1, n2, n3

\* n1 a cpuload sensor, n2 a prepend filter, n3 a blackhole sink.
MCTypes == (n1 :> "cpuload") @@ (n2 :> "prepend") @@ (n3 :> "blackhole")
\* The same with a wavebuf in the middle.
MCTypesWavebuf == (n1 :> "cpuload") @@ (n2 :> "wavebuf") @@ (n3 :> "blackhole")

MCNames == {"in", "out"}

MCRcvOpsSafe == {"connect", "disconnect_other", "rm_other"}
MCRcvOpsRmSelf == {"rm_self", "disconnect_self"}
=============================================================================
