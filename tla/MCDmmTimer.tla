----------------------------- MODULE MCDmmTimer -----------------------------
(* Instantiates DmmTimer for TLC: two nodes, two timer ids, timers set     *)
(* 2 ms ahead or every 2 ms, epoll_wait waking up to 1 ms late.            *)
EXTENDS DmmTimer

CONSTANTS n1, n2, none

MCNodes == {n1, n2}

\* Times in coalesce units (1 ms); one-shot (0) and periodic (2) timers.
MCSetNext == {0, 2}
MCIntervals == {0, 2}

\* Lowest relative time kept: three units overdue.
MCMinDue == -3

\* The starter's STARTUP handler creates, sets and subscribes a timer
\* (starter.c); socket handlers do anything a module may do outside a
\* trigger; a trigger handler re-arms and (un)subscribes.
MCStartupOps == {"create", "set", "subscribe"}
MCSockOps == {"create", "set", "subscribe", "unsubscribe", "remove"}
MCTriggerOps == {"set", "subscribe", "unsubscribe"}
\* The same, with handlers that also send NODERM.
MCSockOpsRm == MCSockOps \cup {"noderm"}
MCTriggerOpsRm == MCTriggerOps \cup {"noderm"}

=============================================================================
