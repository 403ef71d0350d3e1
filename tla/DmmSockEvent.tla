----------------------------- MODULE DmmSockEvent -----------------------------
(***************************************************************************)
(* Socket events (src/dmm_sockevent.c) on the event base (src/dmm_event.c)*)
(* and the epoll instance they register with.                             *)
(*                                                                         *)
(* A socket-event object is created by the first SOCKEVENTSUBSCRIBE for a *)
(* descriptor (EPOLL_CTL_ADD succeeds), joined by later ones (ADD fails   *)
(* with EEXIST), and destroyed by its last unsubscribe (EPOLL_CTL_DEL).   *)
(* The kernel side is modelled as far as the code depends on it: open()   *)
(* returns the lowest free descriptor number, close() drops the epoll     *)
(* registration of the open file description, and epoll_ctl's results.    *)
(* epoll_wait returns one registration per main-loop iteration; its       *)
(* SOCKEVENTTRIGGER is broadcast to the subscribers, whose handlers may   *)
(* unsubscribe or remove their node.                                      *)
(***************************************************************************)
EXTENDS Integers, Sequences, FiniteSets
LOCAL INSTANCE SequencesExt

CONSTANTS
    Fds,            \* descriptor numbers, 1..K
    Nodes,          \* nodes that subscribe
    SeIds,          \* socket-event objects that can be allocated
    Masks,          \* event masks a subscription may ask for
    NoSe,           \* NULL object pointer / no registration
    NoNode,         \* NULL subscriber record
    MaxGen,         \* bound on open() calls per descriptor number
    CloseAny,       \* FALSE: a module closes its fd only after unsubscribing
    AllocFailSub,   \* allocations in the subscribe path may fail
    AllocFailTrig,  \* DMM_MSG_CREATE in dmm_sockevent_trigger may fail
    RcvOps          \* what a SOCKEVENTTRIGGER handler may do

ASSUME RcvOps \subseteq {"unsub", "rm"}

VARIABLES
    fdOpen,   \* the number refers to an open description
    fdGen,    \* ghost: open() calls on each number so far
    ep,       \* ep[f]: the object the registration of f's description points to
    st,       \* "unused", "live", "freed"
    seFd,     \* se_fd
    seGen,    \* ghost: the description (generation of se_fd) it was added for
    seMask,   \* se_sockevents
    refs,     \* ev_refs
    subs,     \* ev_nodes, in order (each record also on the node's nd_events)
    list,     \* sockeventlist, head first
    valid,    \* nodes not yet removed
    pc,       \* "idle", or "bcast" during dmm_event_sendsubscribed
    bse,      \* the object being broadcast
    cur,      \* the subscriber record the walk is at
    stay,     \* ghost: nodes subscribed throughout the broadcast so far
    got,      \* ghost: triggers each node received in this broadcast
    fault

vars == <<fdOpen, fdGen, ep, st, seFd, seGen, seMask, refs, subs, list,
          valid, pc, bse, cur, stay, got, fault>>

\* The object state, as one record passed through the operations.
S == [ep |-> ep, st |-> st, seFd |-> seFd, seGen |-> seGen, seMask |-> seMask,
      refs |-> refs, subs |-> subs, list |-> list, fault |-> fault]

Becomes(X) ==
    /\ ep' = X.ep /\ st' = X.st /\ seFd' = X.seFd /\ seGen' = X.seGen
    /\ seMask' = X.seMask /\ refs' = X.refs /\ subs' = X.subs
    /\ list' = X.list /\ fault' = X.fault

Fail(X, f) == IF X.fault = "none" THEN [X EXCEPT !.fault = f] ELSE X

-----------------------------------------------------------------------------
(* Event base                                                              *)

\* Mutant: the destructor unlinks and frees but issues no EPOLL_CTL_DEL.
DestructorNoDel(X, i) ==
    [X EXCEPT !.list = Remove(@, i), !.st[i] = "freed"]

\* sockevent_destructor: unlink, EPOLL_CTL_DEL the number, free.  DEL on a
\* closed number fails with EBADF, which the assertion does not allow; on
\* an open number without registration it fails with ENOENT (tolerated);
\* otherwise it removes whatever registration the number has.
Destructor(X, i) ==
    LET f == X.seFd[i]
        X1 == [X EXCEPT !.list = Remove(@, i), !.st[i] = "freed",
                        !.ep[f] = NoSe]
    IN  IF ~fdOpen[f] THEN Fail(X1, "del_ebadf") ELSE X1

\* dmm_event_unref: at zero, assert no subscribers and run the destructor.
EventUnref(X, i) ==
    IF X.refs[i] <= 0 THEN Fail([X EXCEPT !.refs[i] = @ - 1], "refs_below_zero")
    ELSE IF X.refs[i] > 1 THEN [X EXCEPT !.refs[i] = @ - 1]
    ELSE LET X1 == Destructor([X EXCEPT !.refs[i] = 0], i)
         IN  IF X.subs[i] # <<>> THEN Fail(X1, "subs_at_zero") ELSE X1

EventRef(X, i) == [X EXCEPT !.refs[i] = @ + 1]

\* dmm_event_subscribe: two records (may fail to allocate), REF.
EventSubscribe(X, i, n, fail) ==
    IF fail THEN [x |-> X, err |-> "ENOMEM"]
    ELSE [x |-> EventRef([X EXCEPT !.subs[i] = Append(@, n)], i), err |-> "ok"]

\* dmm_event_checkedsubscribe: nothing if already subscribed.
CheckedSubscribe(X, i, n, fail) ==
    IF n \in ToSet(X.subs[i]) THEN [x |-> X, err |-> "ok"]
    ELSE EventSubscribe(X, i, n, fail)

\* dmm_event_unsubscribe: find the record, free both, UNREF.  Reaching a
\* freed object through the node's nd_events is a use after free.
EventUnsubscribe(X, i, n) ==
    IF X.st[i] = "freed" THEN [x |-> Fail(X, "uaf_event"), err |-> "ok"]
    ELSE IF n \notin ToSet(X.subs[i]) THEN [x |-> X, err |-> "ENOENT"]
    ELSE [x |-> EventUnref([X EXCEPT !.subs[i] = Remove(@, n)], i), err |-> "ok"]

\* Objects whose subscriber list holds node n (its nd_events list).
EventsOf(X, n) == {i \in SeIds : X.st[i] # "unused" /\ n \in ToSet(X.subs[i])}

\* dmm_node_unsubscribeallevents.
RECURSIVE UnsubscribeAll(_, _, _)
UnsubscribeAll(X, n, E) ==
    IF E = {} THEN X
    ELSE LET i == CHOOSE e \in E : TRUE
         IN  UnsubscribeAll(EventUnsubscribe(X, i, n).x, n, E \ {i})

-----------------------------------------------------------------------------
(* Socket events                                                           *)

\* dmm_sockevent_fd2ref: the first object on sockeventlist with that fd.
Fd2Ref(X, f) ==
    IF \E k \in 1..Len(X.list) : X.seFd[X.list[k]] = f
    THEN X.list[CHOOSE k \in 1..Len(X.list) :
                    X.seFd[X.list[k]] = f
                    /\ \A j \in 1..(k - 1) : X.seFd[X.list[j]] # f]
    ELSE NoSe

\* Mutant: a new object keeps its init reference after subscribing.
SockSubscribeKeepInit(X, f, m, n, i, f0, f1) ==
    IF f0 \/ ~fdOpen[f] THEN X
    ELSE IF X.ep[f] = NoSe
    THEN EventSubscribe([X EXCEPT !.ep[f] = i, !.st[i] = "live", !.refs[i] = 1,
                                  !.seFd[i] = f, !.seGen[i] = fdGen[f],
                                  !.seMask[i] = m, !.subs[i] = <<>>,
                                  !.list = <<i>> \o @], i, n, f1).x
    ELSE LET j == Fd2Ref(X, f)
         IN  IF j = NoSe THEN Fail(X, "eexist_no_object")
             ELSE EventUnref(CheckedSubscribe(EventRef(X, j), j, n, f1).x, j)

\* dmm_sockevent_subscribe for node n, fd f, mask m, with object i as the
\* fresh allocation; f0 and f1 say whether the object and the subscriber
\* records fail to allocate.
SockSubscribe(X, f, m, n, i, f0, f1) ==
    IF f0 THEN X
    ELSE IF ~fdOpen[f] THEN X                    \* ADD fails with EBADF
    ELSE IF X.ep[f] = NoSe
    THEN \* ADD succeeds: a new object on the list, subscribed, init ref dropped
         LET X1 == [X EXCEPT !.ep[f] = i, !.st[i] = "live", !.refs[i] = 1,
                             !.seFd[i] = f, !.seGen[i] = fdGen[f],
                             !.seMask[i] = m, !.subs[i] = <<>>,
                             !.list = <<i>> \o @]
         IN  EventUnref(EventSubscribe(X1, i, n, f1).x, i)
    ELSE \* EEXIST: join the object fd2ref finds, MOD if the mask differs
         LET j == Fd2Ref(X, f)
             X1 == IF X.seMask[j] # m
                   THEN [EventRef(X, j) EXCEPT !.ep[f] = j, !.seMask[j] = m]
                   ELSE EventRef(X, j)
         IN  IF j = NoSe THEN Fail(X, "eexist_no_object")
             ELSE EventUnref(CheckedSubscribe(X1, j, n, f1).x, j)

\* Mutant: unsubscribe without the reference fd2ref's caller takes.
SockUnsubscribeNoRef(X, f, n) ==
    LET j == Fd2Ref(X, f)
    IN  IF j = NoSe THEN X
        ELSE EventUnref(EventUnsubscribe(X, j, n).x, j)

\* dmm_sockevent_unsubscribe: fd2ref (REF), event unsubscribe, UNREF.
SockUnsubscribe(X, f, n) ==
    LET j == Fd2Ref(X, f)
    IN  IF j = NoSe THEN X
        ELSE EventUnref(EventUnsubscribe(EventRef(X, j), j, n).x, j)

\* dmm_sockevent_trigger when DMM_MSG_CREATE fails: UNREF and return.
TriggerFail(X, i) == EventUnref(X, i)

\* Mutant: only one of the node's events is unsubscribed.
NodeRmOpOne(X, n) ==
    IF EventsOf(X, n) = {} THEN X
    ELSE EventUnsubscribe(X, CHOOSE i \in EventsOf(X, n) : TRUE, n).x

\* dmm_node_rm's part here: invalidate and unsubscribe from every event.
NodeRmOp(X, n) == UnsubscribeAll(X, n, EventsOf(X, n))

\* The lowest closed descriptor number, which open() returns.
LowestFree == CHOOSE f \in Fds : ~fdOpen[f] /\ \A g \in Fds : ~fdOpen[g] => f <= g

\* A free object slot for DMM_MALLOC (the bound on allocations).
FreeSlots == {i \in SeIds : st[i] = "unused"}

Fails(b) == IF b THEN BOOLEAN ELSE {FALSE}

-----------------------------------------------------------------------------
(* Actions                                                                 *)

Idle == pc = "idle" /\ fault = "none"

\* A module opens a socket (create_socket): the lowest free number.
Open ==
    /\ Idle /\ \E f \in Fds : ~fdOpen[f]
    /\ fdGen[LowestFree] < MaxGen
    /\ fdOpen' = [fdOpen EXCEPT ![LowestFree] = TRUE]
    /\ fdGen' = [fdGen EXCEPT ![LowestFree] = @ + 1]
    /\ UNCHANGED <<ep, st, seFd, seGen, seMask, refs, subs, list, valid,
                   pc, bse, cur, stay, got, fault>>

\* Nodes whose subscriptions reach descriptor f's objects.
SubscribedTo(f) == UNION {ToSet(subs[i]) : i \in {j \in SeIds : st[j] = "live" /\ seFd[j] = f}}

\* close(): the kernel drops the description's epoll registration.  A
\* careful module closes only a descriptor nobody is subscribed to.
CloseOp(f) == [fdOpen EXCEPT ![f] = FALSE]

Close(f) ==
    /\ Idle /\ fdOpen[f]
    /\ CloseAny \/ SubscribedTo(f) = {}
    /\ fdOpen' = CloseOp(f)
    /\ ep' = [ep EXCEPT ![f] = NoSe]
    /\ UNCHANGED <<fdGen, st, seFd, seGen, seMask, refs, subs, list, valid,
                   pc, bse, cur, stay, got, fault>>

\* SOCKEVENTSUBSCRIBE handled for node n (dmm_msg_process_generic).
Subscribe(n, f, m) ==
    /\ Idle /\ valid[n] /\ FreeSlots # {}
    /\ \E f0, f1 \in Fails(AllocFailSub) :
          Becomes(SockSubscribe(S, f, m, n, CHOOSE i \in FreeSlots : TRUE, f0, f1))
    /\ UNCHANGED <<fdOpen, fdGen, valid, pc, bse, cur, stay, got>>

\* SOCKEVENTUNSUBSCRIBE handled for node n.
Unsubscribe(n, f) ==
    /\ Idle /\ valid[n]
    /\ Becomes(SockUnsubscribe(S, f, n))
    /\ UNCHANGED <<fdOpen, fdGen, valid, pc, bse, cur, stay, got>>

\* NODERM handled for node n.
RemoveNode(n) ==
    /\ Idle /\ valid[n]
    /\ Becomes(NodeRmOp(S, n))
    /\ valid' = [valid EXCEPT ![n] = FALSE]
    /\ UNCHANGED <<fdOpen, fdGen, pc, bse, cur, stay, got>>

\* The subscriber after n in sq, or NULL: the walk's saved tmp_en.
NextSubSkip(sq, n) ==
    LET k == CHOOSE j \in 1..Len(sq) : sq[j] = n
    IN  IF k + 2 <= Len(sq) THEN sq[k + 2] ELSE NoNode

NextSub(sq, n) ==
    LET k == CHOOSE j \in 1..Len(sq) : sq[j] = n
    IN  IF k < Len(sq) THEN sq[k + 1] ELSE NoNode

\* epoll_wait returns f's registration; dmm_sockevent_process passes its
\* data.ptr to dmm_sockevent_trigger without taking a reference.  If the
\* message cannot be created the object is UNREFed and ENOMEM ends the
\* main loop; otherwise dmm_event_sendsubscribed starts its walk.
Trigger(f) ==
    /\ Idle /\ fdOpen[f] /\ ep[f] # NoSe /\ st[ep[f]] = "live"
    /\ LET i == ep[f]
       IN  \E fail \in Fails(AllocFailTrig) :
              /\ Becomes(IF fail THEN TriggerFail(S, i) ELSE S)
              /\ pc' = CASE fail -> "stopped"
                         [] subs[i] = <<>> -> "idle"
                         [] OTHER -> "bcast"
              /\ bse' = i
              /\ cur' = IF fail \/ subs[i] = <<>> THEN NoNode ELSE Head(subs[i])
              /\ stay' = ToSet(subs[i])
              /\ got' = [n \in Nodes |-> 0]
    /\ UNCHANGED <<fdOpen, fdGen, valid>>

\* One step of TAILQ_FOREACH_SAFE: save the next record, deliver a copy to
\* a valid node, whose handler runs to completion and may unsubscribe
\* itself or remove its node.  A saved record freed by the handler would
\* be read after free.
Deliver ==
    /\ pc = "bcast" /\ fault = "none"
    /\ LET n == cur
           saved == NextSub(subs[bse], n)
       IN  \E op \in {"none"} \cup RcvOps :
              LET X == CASE ~valid[n] \/ op = "none" -> S
                         [] op = "unsub" -> SockUnsubscribe(S, seFd[bse], n)
                         [] op = "rm" -> NodeRmOp(S, n)
                  left == ToSet(X.subs[bse])
              IN  /\ Becomes(IF saved # NoNode /\ saved \notin left
                             THEN Fail(X, "uaf_walk") ELSE X)
                  /\ valid' = IF valid[n] /\ op = "rm"
                              THEN [valid EXCEPT ![n] = FALSE] ELSE valid
                  /\ got' = IF valid[n] THEN [got EXCEPT ![n] = @ + 1] ELSE got
                  /\ stay' = stay \cap left
                  /\ cur' = saved
                  /\ pc' = IF saved = NoNode THEN "idle" ELSE "bcast"
    /\ UNCHANGED <<fdOpen, fdGen, bse>>

Init ==
    /\ fdOpen = [f \in Fds |-> FALSE] /\ fdGen = [f \in Fds |-> 0]
    /\ ep = [f \in Fds |-> NoSe]
    /\ st = [i \in SeIds |-> "unused"]
    /\ seFd = [i \in SeIds |-> CHOOSE f \in Fds : TRUE]
    /\ seGen = [i \in SeIds |-> 0]
    /\ seMask = [i \in SeIds |-> CHOOSE m \in Masks : TRUE]
    /\ refs = [i \in SeIds |-> 0] /\ subs = [i \in SeIds |-> <<>>]
    /\ list = <<>> /\ valid = [n \in Nodes |-> TRUE]
    /\ pc = "idle" /\ bse = NoSe /\ cur = NoNode
    /\ stay = {} /\ got = [n \in Nodes |-> 0]
    /\ fault = "none"

Next ==
    \/ Open
    \/ \E f \in Fds : Close(f) \/ Trigger(f)
    \/ \E n \in Nodes, f \in Fds, m \in Masks : Subscribe(n, f, m)
    \/ \E n \in Nodes, f \in Fds : Unsubscribe(n, f)
    \/ \E n \in Nodes : RemoveNode(n)
    \/ Deliver

Spec == Init /\ [][Next]_vars

-----------------------------------------------------------------------------
(* Properties                                                              *)

TypeOK ==
    /\ fdOpen \in [Fds -> BOOLEAN] /\ fdGen \in [Fds -> 0..MaxGen]
    /\ ep \in [Fds -> SeIds \cup {NoSe}]
    /\ st \in [SeIds -> {"unused", "live", "freed"}]
    /\ seFd \in [SeIds -> Fds] /\ seMask \in [SeIds -> Masks]
    /\ refs \in [SeIds -> Nat] /\ subs \in [SeIds -> Seq(Nodes)]
    /\ list \in Seq(SeIds) /\ valid \in [Nodes -> BOOLEAN]
    /\ pc \in {"idle", "bcast", "stopped"}
    /\ cur \in Nodes \cup {NoNode} /\ got \in [Nodes -> Nat]

\* Every socket-event object's ev_refs equals its subscriber records (the
\* only holders between handlers), and no release ever finds the count
\* at zero or subscribers left at zero: the references taken by
\* subscribe's init, fd2ref, dmm_event_subscribe and the trigger path all
\* balance, through EEXIST joins, removals during a broadcast and node
\* removal.
SeRefsMatch ==
    /\ \A i \in SeIds : st[i] # "unused" => refs[i] = Len(subs[i])
    /\ fault \notin {"refs_below_zero", "subs_at_zero", "uaf_event"}

\* The epoll instance agrees with sockeventlist: every registration points
\* at a live object for that descriptor (dmm_sockevent_process trusts
\* data.ptr without a reference), and every live object of the currently
\* open description is the one epoll reports.
EpollMatchesObjects ==
    \A f \in Fds :
        /\ ep[f] # NoSe => st[ep[f]] = "live" /\ seFd[ep[f]] = f
        /\ \A i \in SeIds :
              st[i] = "live" /\ seFd[i] = f /\ fdOpen[f] /\ seGen[i] = fdGen[f]
                 => ep[f] = i

\* Spec scenario 4: a SOCKEVENTTRIGGER broadcast hands every node that
\* stays subscribed through it exactly one copy, and no node two, while
\* handlers unsubscribe or remove themselves mid-walk.
TriggerReachesAll ==
    [][/\ \A n \in Nodes : got'[n] <= 1
       /\ pc = "bcast" /\ pc' = "idle" => \A n \in stay' : got'[n] = 1]_vars

-----------------------------------------------------------------------------
(* Refinement of SockEventService                                         *)

\* The nodes the broadcast has yet to reach: the subscriber records from
\* the walk's current one to the end of the list.
Pending ==
    IF pc = "bcast" /\ \E k \in 1..Len(subs[bse]) : subs[bse][k] = cur
    THEN LET sq == subs[bse]
             k  == CHOOSE j \in 1..Len(sq) : sq[j] = cur
         IN  {sq[j] : j \in k..Len(sq)}
    ELSE {}

Service == INSTANCE SockEventService WITH
    open <- fdOpen, sub <- [f \in Fds |-> SubscribedTo(f)], alive <- valid,
    phase <- pc, pending <- Pending

\* The objects, references, epoll registrations and the saved-next walk of
\* dmm_sockevent_subscribe/unsubscribe/trigger and dmm_event_sendsubscribed
\* implement the service: subscription sets change only as requested, node
\* removal ends all of a node's subscriptions, and a trigger reaches exactly
\* the nodes subscribed when epoll reported it, one copy each.
ImplementsService == Service!Spec

====
