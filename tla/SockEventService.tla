--------------------------- MODULE SockEventService ---------------------------
(***************************************************************************)
(* What the socket-event subsystem promises its nodes (spec 4.7 and      *)
(* scenario 4), with no objects, reference counts or epoll: each open     *)
(* descriptor has a set of subscribed nodes; a trigger of a descriptor    *)
(* starts one broadcast that hands each node subscribed at that moment    *)
(* one SOCKEVENT_TRIGGER, while the receiving handlers may unsubscribe or *)
(* remove themselves.  DmmSockEvent is shown to implement it.              *)
(***************************************************************************)
CONSTANTS Fds, Nodes

VARIABLES
    open,     \* the descriptor is open
    sub,      \* sub[f]: nodes subscribed to f's readiness
    alive,    \* nodes not removed
    phase,    \* "idle", or "bcast" while a trigger is being delivered
    pending   \* nodes still to receive the current trigger

vars == <<open, sub, alive, phase, pending>>

Idle == phase = "idle"

Init ==
    /\ open = [f \in Fds |-> FALSE]
    /\ sub = [f \in Fds |-> {}]
    /\ alive = [n \in Nodes |-> TRUE]
    /\ phase = "idle"
    /\ pending = {}

Open(f) ==
    /\ Idle /\ ~open[f]
    /\ open' = [open EXCEPT ![f] = TRUE]
    /\ UNCHANGED <<sub, alive, phase, pending>>

\* Only a descriptor nobody is subscribed to is closed.
Close(f) ==
    /\ Idle /\ open[f] /\ sub[f] = {}
    /\ open' = [open EXCEPT ![f] = FALSE]
    /\ UNCHANGED <<sub, alive, phase, pending>>

Subscribe(n, f) ==
    /\ Idle /\ alive[n] /\ open[f]
    /\ sub' = [sub EXCEPT ![f] = @ \cup {n}]
    /\ UNCHANGED <<open, alive, phase, pending>>

Unsubscribe(n, f) ==
    /\ Idle /\ alive[n]
    /\ sub' = [sub EXCEPT ![f] = @ \ {n}]
    /\ UNCHANGED <<open, alive, phase, pending>>

\* Removing a node ends all its subscriptions.
RemoveNode(n) ==
    /\ alive[n]
    /\ alive' = [alive EXCEPT ![n] = FALSE]
    /\ sub' = [f \in Fds |-> sub[f] \ {n}]

Trigger(f) ==
    /\ Idle /\ open[f] /\ sub[f] # {}
    /\ phase' = "bcast" /\ pending' = sub[f]
    /\ UNCHANGED <<open, sub, alive>>

\* Node n gets its copy; its handler may unsubscribe it or remove it.
Deliver(n) ==
    /\ phase = "bcast" /\ n \in pending
    /\ pending' = pending \ {n}
    /\ phase' = IF pending' = {} THEN "idle" ELSE "bcast"
    /\ \/ UNCHANGED <<sub, alive>>
       \/ \E f \in Fds : sub' = [sub EXCEPT ![f] = @ \ {n}] /\ UNCHANGED alive
       \/ RemoveNode(n)
    /\ UNCHANGED open

Next ==
    \/ \E f \in Fds : Open(f) \/ Close(f) \/ Trigger(f)
    \/ \E n \in Nodes, f \in Fds : Subscribe(n, f) \/ Unsubscribe(n, f)
    \/ \E n \in Nodes : (Idle /\ RemoveNode(n) /\ UNCHANGED <<open, phase, pending>>)
    \/ \E n \in Nodes : Deliver(n)

Spec == Init /\ [][Next]_vars

====
