------------------------------ MODULE DmmTimer ------------------------------
(***************************************************************************)
(* Timers of the dimmon runtime (src/dmm_timer.c), the subscriber lists   *)
(* of their events (src/dmm_event.c), the generic control messages that   *)
(* manipulate them (src/dmm_base.c, dmm_msg_process_generic) and the part *)
(* of the main loop that waits for and triggers them (dmm_main_loop).     *)
(*                                                                         *)
(* The runtime is single-threaded but re-entrant: a node that receives a  *)
(* TIMER_TRIGGER may, inside its handler, send control messages that are  *)
(* processed at once, in the middle of dmm_timers_trigger and of          *)
(* dmm_event_sendsubscribed.  Both loops are LIST/TAILQ_FOREACH_SAFE      *)
(* loops that saved the next element before calling out; the model keeps *)
(* these saved pointers (tmptm, nxt) as state.                            *)
(*                                                                         *)
(* Time is relative: tmNext[t] is the time of timer t minus the current   *)
(* clock, in units of the 1 ms coalesce interval.  Waiting shifts every   *)
(* stored time down.  NoTime stands for the never-set value {0, 0}.       *)
(***************************************************************************)
EXTENDS Integers, Sequences, FiniteSets
LOCAL INSTANCE SequencesExt

CONSTANTS
    Nodes,          \* nodes that exist when the loop starts (model values)
    Starter,        \* the node that receives DMM_MSG_STARTUP
    NoNode,         \* NULL node pointer
    MaxTimers,      \* timer ids 1..MaxTimers; 0 is the NULL timer
    MaxOps,         \* control messages one handler invocation may send
    SetNext,        \* relative 'next' values a TIMERSET may carry (0 = {0,0})
    AbsNext,        \* DMM_TIMERSET_ABS 'next' values, relative to the clock
    SetIntervals,   \* 'interval' values a TIMERSET may carry (0 = one-shot)
    SetFlags,       \* flag sets among {"abs", "cio"} a TIMERSET may carry
    Lag,            \* how late epoll_wait may return after its timeout
    MaxWait,        \* longest wait when no timer is registered
    MinDue,         \* lowest relative time the model represents
    StartupOps,     \* messages the starter sends on DMM_MSG_STARTUP
    SockOps,        \* messages a socket-event handler sends
    TriggerOps,     \* messages a TIMER_TRIGGER handler sends
    TriggerTimers,  \* "own", "others" or "any": timers a trigger handler names
    TriggerNodes,   \* "self" or "any": nodes a trigger handler names
    StaleIds        \* whether handlers name ids of removed timers

OpKinds == {"create", "set", "subscribe", "unsubscribe", "remove", "noderm"}

ASSUME /\ Starter \in Nodes /\ NoNode \notin Nodes
       /\ MaxTimers \in Nat \ {0} /\ MaxOps \in Nat
       /\ StartupOps \cup SockOps \cup TriggerOps \subseteq OpKinds
       /\ SetFlags \subseteq SUBSET {"abs", "cio"}
       /\ TriggerTimers \in {"own", "others", "any"}
       /\ TriggerNodes \in {"self", "any"}

TimerIds == 1..MaxTimers
NoTimer  == 0
Coalesce == 1                 \* coalesce_interval, dmm_timer.c:28
NoTime   == MinDue - 1        \* tm_next == {0, 0}

VARIABLES
    tmState,     \* "unused", "live", "removed" (invalid, still referenced), "freed"
    tmRefs,      \* ev_refs of the timer's event
    tmNext,      \* tm_next, relative to the clock
    tmInterval,  \* tm_interval
    queue,       \* timer_trigger_list; membership is DMM_TIMER_REGISTERED
    subs,        \* ev_nodes: subscriber list of each timer's event
    nodeValid,   \* !DMM_NODE_INVALID
    pc,          \* where dmm_main_loop is
    hctx,        \* which handler runs: "startup", "sock" or "trigger"
    hnode,       \* the node whose handler runs
    ops,         \* messages sent by the running handler
    force,       \* force_trigger of dmm_timers_trigger
    tm,          \* loop variable of dmm_timers_trigger
    tmptm,       \* its saved successor
    cur,         \* subscriber being delivered to by dmm_event_sendsubscribed
    nxt,         \* the saved successor record tmp_en (its node)
    nxtLive,     \* whether the record tmp_en points to is still allocated
    pending,     \* ghost: timers set by TIMERSET and not yet triggered
    fault        \* "none" or the crash the code runs into

vars == <<tmState, tmRefs, tmNext, tmInterval, queue, subs, nodeValid, pc,
          hctx, hnode, ops, force, tm, tmptm, cur, nxt, nxtLive, pending,
          fault>>
loopVars == <<pc, hctx, hnode, force, tm, tmptm, cur, nxt>>

TypeOK ==
    /\ tmState \in [TimerIds -> {"unused", "live", "removed", "freed"}]
    /\ tmRefs \in [TimerIds -> Nat]
    /\ tmNext \in [TimerIds -> {NoTime} \cup (MinDue..100)]
    /\ tmInterval \in [TimerIds -> SetIntervals \cup {0}]
    /\ queue \in Seq(TimerIds)
    /\ subs \in [TimerIds -> Seq(Nodes)]
    /\ nodeValid \in [Nodes -> BOOLEAN]
    /\ pc \in {"startup", "wait", "pass", "bcast", "handler"}
    /\ hctx \in {"startup", "sock", "trigger"}
    /\ hnode \in Nodes \cup {NoNode}
    /\ ops \in 0..MaxOps
    /\ force \in BOOLEAN
    /\ tm \in TimerIds \cup {NoTimer} /\ tmptm \in TimerIds \cup {NoTimer}
    /\ cur \in Nodes \cup {NoNode} /\ nxt \in Nodes \cup {NoNode}
    /\ nxtLive \in BOOLEAN
    /\ pending \subseteq TimerIds
    /\ fault \in {"none", "null_deref", "assert_zero_next",
                  "uaf_subscriber", "uaf_next_timer"}

-----------------------------------------------------------------------------
(* Helpers on the lists.                                                   *)

Registered(t) == Contains(queue, t)

\* Element after x in s, or none.
SuccOf(s, x, none) ==
    LET i == SelectInSeq(s, LAMBDA y : y = x)
    IN  IF i # 0 /\ i < Len(s) THEN s[i + 1] ELSE none

\* Fault-injected variant: every timer is inserted at the head.
InsertPosHead(q, nx, v) == 1

\* dmm_timer_register's walk: insert before the first timer whose tm_next
\* is greater (the head test and the LIST_FOREACH scan are the same rule).
InsertPos(q, nx, v) ==
    LET i == SelectInSeq(q, LAMBDA x : nx[x] > v)
    IN  IF i = 0 THEN Len(q) + 1 ELSE i

\* The trigger list after dmm_timer_register of t (t not in q).
RegisterIn(q, nx, t) == InsertAt(q, InsertPos(q, nx, nx[t]), t)

Due(t) == tmNext[t] <= Coalesce
ValidNodes == {n \in Nodes : nodeValid[n]}


\* Which timers and nodes the running handler may name in its messages.
TimerArgs ==
    LET known == IF StaleIds THEN {t \in TimerIds : tmState[t] # "unused"}
                 ELSE {t \in TimerIds : tmState[t] = "live"}
    IN  IF hctx # "trigger" THEN known
        ELSE CASE TriggerTimers = "own"    -> known \cap {tm}
               [] TriggerTimers = "others" -> known \ {tm}
               [] OTHER                    -> known

\* dmm_msg_apply drops a message to an invalid node (EINVAL), so only valid
\* destinations have an effect.
NodeArgs ==
    IF hctx = "trigger" /\ TriggerNodes = "self"
    THEN {hnode} \cap ValidNodes ELSE ValidNodes

OpsOf == CASE hctx = "startup" -> StartupOps
           [] hctx = "sock"    -> SockOps
           [] OTHER            -> TriggerOps

\* The running handler sends one more control message of kind k.
Send(k) ==
    /\ pc = "handler" /\ fault = "none"
    /\ ops < MaxOps /\ k \in OpsOf /\ NodeArgs # {}
    /\ ops' = ops + 1

Crash(f) ==
    /\ fault' = f
    /\ UNCHANGED <<tmState, tmRefs, tmNext, tmInterval, queue, subs,
                   nodeValid, pending, nxtLive>>

-----------------------------------------------------------------------------
(* Generic control messages, each processed to completion by             *)
(* dmm_msg_process_generic before the sender's handler continues.         *)

\* DMM_MSG_TIMERCREATE: dmm_timer_create takes the next event id.
MsgTimerCreate ==
    /\ Send("create")
    /\ \E t \in TimerIds :
        /\ tmState[t] = "unused"
        /\ \A u \in TimerIds : tmState[u] = "unused" => t <= u
        /\ tmState' = [tmState EXCEPT ![t] = "live"]
        /\ tmRefs' = [tmRefs EXCEPT ![t] = 1]
        /\ tmNext' = [tmNext EXCEPT ![t] = NoTime]
        /\ tmInterval' = [tmInterval EXCEPT ![t] = 0]
    /\ UNCHANGED <<queue, subs, nodeValid, pending, nxtLive, fault, loopVars>>

\* tm_next chosen by dmm_timer_set for the message's next, interval, flags.
SetNext_(t, v, iv, fl) ==
    IF v = 0 THEN IF "cio" \in fl THEN tmNext[t] ELSE iv ELSE v

\* DMM_MSG_TIMERSET: id2ref, dmm_timer_set (deregister, register), UNREF.
MsgTimerSet ==
    /\ Send("set")
    /\ \E t \in TimerArgs, fl \in SetFlags, iv \in SetIntervals :
       \E v \in (IF "abs" \in fl THEN AbsNext ELSE SetNext) :
        IF tmState[t] # "live" THEN Crash("null_deref")
        ELSE IF v = 0 /\ iv = 0 THEN UNCHANGED <<tmState, tmRefs, tmNext,
                 tmInterval, queue, subs, nodeValid, pending, nxtLive, fault>>
        ELSE LET nx == [tmNext EXCEPT ![t] = SetNext_(t, v, iv, fl)]
             IN  IF nx[t] = NoTime THEN Crash("assert_zero_next")
                 ELSE /\ tmNext' = nx
                      /\ tmInterval' = [tmInterval EXCEPT ![t] = iv]
                      /\ queue' = RegisterIn(Remove(queue, t), nx, t)
                      /\ tmRefs' = [tmRefs EXCEPT ![t] =
                                      @ + (IF Registered(t) THEN 0 ELSE 1)]
                      /\ pending' = pending \cup {t}
                      /\ UNCHANGED <<tmState, subs, nodeValid, nxtLive, fault>>
    /\ UNCHANGED loopVars

\* DMM_MSG_TIMERSUBSCRIBE: subscribes the destination node; the id2ref
\* result is used without a NULL check.
MsgTimerSubscribe ==
    /\ Send("subscribe")
    /\ \E t \in TimerArgs, n \in NodeArgs :
        IF tmState[t] # "live" THEN Crash("null_deref")
        ELSE /\ IF Contains(subs[t], n)
                THEN UNCHANGED <<subs, tmRefs>>
                ELSE /\ subs' = [subs EXCEPT ![t] = Append(@, n)]
                     /\ tmRefs' = [tmRefs EXCEPT ![t] = @ + 1]
             /\ UNCHANGED <<tmState, tmNext, tmInterval, queue, nodeValid,
                            pending, nxtLive, fault>>
    /\ UNCHANGED loopVars

\* Whether freeing the subscriber record of node n on timer t frees the
\* record dmm_event_sendsubscribed saved as tmp_en.
FreesSaved(t, n) == hctx = "trigger" /\ t = tm /\ n = nxt

\* DMM_MSG_TIMERUNSUBSCRIBE: dmm_event_unsubscribe of the destination node.
MsgTimerUnsubscribe ==
    /\ Send("unsubscribe")
    /\ \E t \in TimerArgs, n \in NodeArgs :
        IF tmState[t] # "live" THEN Crash("null_deref")
        ELSE /\ IF Contains(subs[t], n)
                THEN /\ subs' = [subs EXCEPT ![t] = Remove(@, n)]
                     /\ tmRefs' = [tmRefs EXCEPT ![t] = @ - 1]
                     /\ nxtLive' = (nxtLive /\ ~FreesSaved(t, n))
                ELSE UNCHANGED <<subs, tmRefs, nxtLive>>
             /\ UNCHANGED <<tmState, tmNext, tmInterval, queue, nodeValid,
                            pending, fault>>
    /\ UNCHANGED loopVars

\* DMM_MSG_TIMERRM: id2ref, the early UNREF, then dmm_timer_rm: invalidate,
\* deregister, unsubscribe everybody, unlink, UNREF.
\* Fault-injected variant: no early UNREF, so the id2ref reference leaks.
RemoveRefsNoEarlyUnref(t) ==
    tmRefs[t] + 1 - (IF Registered(t) THEN 1 ELSE 0) - Len(subs[t]) - 1

\* Fault-injected variant: the usual trailing DMM_TIMER_UNREF kept as well.
RemoveRefsTrailingUnref(t) ==
    tmRefs[t] + 1 - 1 - (IF Registered(t) THEN 1 ELSE 0) - Len(subs[t]) - 1 - 1

RemoveRefs(t) ==
    tmRefs[t] + 1 - 1 - (IF Registered(t) THEN 1 ELSE 0) - Len(subs[t]) - 1

MsgTimerRemove ==
    /\ Send("remove")
    /\ \E t \in TimerArgs :
        IF tmState[t] # "live" THEN UNCHANGED <<tmState, tmRefs, tmNext,
                 tmInterval, queue, subs, nodeValid, pending, nxtLive, fault>>
        ELSE LET r == RemoveRefs(t)
             IN  /\ tmRefs' = [tmRefs EXCEPT ![t] = r]
                 /\ tmState' = [tmState EXCEPT ![t] =
                                   IF r = 0 THEN "freed" ELSE "removed"]
                 /\ queue' = Remove(queue, t)
                 /\ subs' = [subs EXCEPT ![t] = <<>>]
                 /\ nxtLive' = (nxtLive /\ ~(hctx = "trigger" /\ t = tm
                                               /\ nxt # NoNode))
                 /\ pending' = pending \ {t}
                 /\ UNCHANGED <<tmNext, tmInterval, nodeValid, fault>>
    /\ UNCHANGED loopVars

\* dmm_node_unsubscribeallevents: each dmm_event_unsubscribe releases the
\* event reference its subscriber record held.
NodeRmRefs(n) ==
    [t \in TimerIds |-> tmRefs[t] - (IF Contains(subs[t], n) THEN 1 ELSE 0)]

\* DMM_MSG_NODERM: dmm_node_rm invalidates the destination node and
\* unsubscribes it from every event (dmm_node_unsubscribeallevents).
MsgNodeRemove ==
    /\ Send("noderm")
    /\ \E n \in NodeArgs :
        /\ nodeValid' = [nodeValid EXCEPT ![n] = FALSE]
        /\ subs' = [t \in TimerIds |-> Remove(subs[t], n)]
        /\ tmRefs' = NodeRmRefs(n)
        /\ nxtLive' = (nxtLive /\ ~FreesSaved(tm, n))
        /\ UNCHANGED <<tmState, tmNext, tmInterval, queue, pending, fault>>
    /\ UNCHANGED loopVars


-----------------------------------------------------------------------------
(* dmm_main_loop.                                                         *)

\* Stored times after the clock advanced by d; an unregistered timer's
\* time is only ever read back by CHANGEINTERVALONLY and is kept at MinDue.
Shift(d) ==
    [t \in TimerIds |->
        IF tmNext[t] = NoTime THEN NoTime
        ELSE IF Registered(t) THEN tmNext[t] - d
        ELSE IF tmNext[t] - d < MinDue THEN MinDue ELSE tmNext[t] - d]

\* The clock may advance by d without a registered time leaving the model.
CanShift(d) == \A i \in 1..Len(queue) : tmNext[queue[i]] - d >= MinDue

\* timeout_ms of epoll_wait: -1 without timers, else head time clamped at 0.
Timeout ==
    IF queue = <<>> THEN -1
    ELSE IF tmNext[Head(queue)] < 0 THEN 0 ELSE tmNext[Head(queue)]

WaitSpan == IF Timeout = -1 THEN 0..MaxWait ELSE 0..Timeout

Waiting == pc = "wait" /\ fault = "none"

\* epoll_wait returns 0 after the timeout (possibly late by up to Lag):
\* dmm_timers_trigger(true).
TimeoutWake ==
    /\ Waiting /\ queue # <<>>
    /\ \E d \in Timeout..(Timeout + Lag) :
        /\ CanShift(d)
        /\ tmNext' = Shift(d)
    /\ pc' = "pass" /\ tm' = Head(queue) /\ force' = TRUE
    /\ UNCHANGED <<tmState, tmRefs, tmInterval, queue, subs, nodeValid,
                   pending, fault, hctx, hnode, ops, tmptm, cur, nxt, nxtLive>>

\* epoll_wait returns a socket event before the timeout: the subscribed
\* node's handler runs (dmm_sockevent_process), then
\* dmm_timers_trigger(false).
SockWake ==
    /\ Waiting
    /\ \E d \in WaitSpan, n \in ValidNodes :
        /\ CanShift(d)
        /\ tmNext' = Shift(d)
        /\ hnode' = n
    /\ pc' = "handler" /\ hctx' = "sock" /\ ops' = 0
    /\ UNCHANGED <<tmState, tmRefs, tmInterval, queue, subs, nodeValid,
                   pending, fault, force, tm, tmptm, cur, nxt, nxtLive>>

\* epoll_wait fails with EINTR: the loop recomputes the timeout.
Interrupted ==
    /\ Waiting
    /\ \E d \in WaitSpan \ {0} :
        /\ CanShift(d)
        /\ tmNext' = Shift(d)
    /\ UNCHANGED <<tmState, tmRefs, tmInterval, queue, subs, nodeValid,
                   pending, fault, ops, nxtLive, loopVars>>

\* The running handler returns.  After a startup handler the loop starts,
\* after a socket handler the timers are triggered, after a TIMER_TRIGGER
\* handler dmm_event_sendsubscribed moves on to the saved record.
HandlerReturn ==
    /\ pc = "handler" /\ fault = "none"
    /\ CASE hctx = "startup" ->
              /\ pc' = "wait"
              /\ UNCHANGED <<fault, tm, force, cur>>
         [] hctx = "sock" ->
              /\ pc' = "pass"
              /\ tm' = IF queue = <<>> THEN NoTimer ELSE Head(queue)
              /\ force' = FALSE
              /\ UNCHANGED <<fault, cur>>
         [] OTHER ->
              IF nxt # NoNode /\ ~nxtLive
              THEN /\ fault' = "uaf_subscriber"
                   /\ UNCHANGED <<pc, tm, force, cur>>
              ELSE /\ cur' = nxt /\ pc' = "bcast"
                   /\ UNCHANGED <<fault, tm, force>>
    /\ UNCHANGED <<tmState, tmRefs, tmNext, tmInterval, queue, subs,
                   nodeValid, pending, hctx, hnode, ops, tmptm, nxt, nxtLive>>

-----------------------------------------------------------------------------
(* dmm_timers_trigger: LIST_FOREACH_SAFE(tm, &timer_trigger_list, ...).   *)

Passing == pc = "pass" /\ fault = "none"

\* The loop ends at the end of the list, or breaks at a timer not yet due
\* unless the wake was a timeout and nothing has been triggered yet.
PassEnd ==
    /\ Passing
    /\ \/ tm = NoTimer
       \/ tm # NoTimer /\ Registered(tm) /\ ~force /\ ~Due(tm)
    /\ pc' = "wait" /\ tm' = NoTimer /\ tmptm' = NoTimer
    /\ UNCHANGED <<tmState, tmRefs, tmNext, tmInterval, queue, subs,
                   nodeValid, pending, fault, hctx, hnode, ops, force, cur,
                   nxt, nxtLive>>

\* REF the timer, save its successor, and dmm_timer_trigger it: build the
\* TIMER_TRIGGER message and start dmm_event_sendsubscribed.  If tm is a
\* saved successor that a handler took off the list and freed, the loop
\* reads freed memory instead.
TriggerStart ==
    /\ Passing /\ tm # NoTimer
    /\ ~Registered(tm) \/ force \/ Due(tm)
    /\ IF ~Registered(tm)
       THEN /\ fault' = "uaf_next_timer"
            /\ UNCHANGED <<tmRefs, pending, pc, tmptm, cur>>
       ELSE /\ tmptm' = SuccOf(queue, tm, NoTimer)
            /\ tmRefs' = [tmRefs EXCEPT ![tm] = @ + 1]
            /\ pending' = pending \ {tm}
            /\ cur' = IF subs[tm] = <<>> THEN NoNode ELSE Head(subs[tm])
            /\ pc' = "bcast"
            /\ UNCHANGED fault
    /\ UNCHANGED <<tmState, tmNext, tmInterval, queue, subs, nodeValid,
                   hctx, hnode, ops, force, tm, nxt, nxtLive>>

\* dmm_event_sendsubscribed visits the record cur: saves its successor,
\* skips an invalid node, else delivers a copy of the message.
Deliver ==
    /\ pc = "bcast" /\ fault = "none" /\ cur # NoNode
    /\ nxt' = SuccOf(subs[tm], cur, NoNode)
    /\ nxtLive' = TRUE
    /\ IF nodeValid[cur]
       THEN /\ pc' = "handler" /\ hctx' = "trigger" /\ hnode' = cur
            /\ ops' = 0
            /\ UNCHANGED cur
       ELSE /\ cur' = SuccOf(subs[tm], cur, NoNode)
            /\ UNCHANGED <<pc, hctx, hnode, ops>>
    /\ UNCHANGED <<tmState, tmRefs, tmNext, tmInterval, queue, subs,
                   nodeValid, pending, fault, force, tm, tmptm>>

\* Fault-injected variant: the periodic timer is re-armed at the same time.
RearmedSame(t) == tmNext[t]

\* TIMESPEC_INC(&tm->tm_next, &tm->tm_interval).
Rearmed(t) == tmNext[t] + tmInterval[t]

\* Back in dmm_timers_trigger after the broadcast: a still valid timer is
\* deregistered and, if periodic, registered again one interval later;
\* then the loop's reference is dropped and the loop moves to tmptm.
BcastEnd ==
    /\ pc = "bcast" /\ fault = "none" /\ cur = NoNode
    /\ LET live == tmState[tm] = "live"
           again == live /\ tmInterval[tm] # 0
           nx == [tmNext EXCEPT ![tm] = Rearmed(tm)]
           r == tmRefs[tm] - (IF live /\ Registered(tm) THEN 1 ELSE 0)
                           + (IF again THEN 1 ELSE 0) - 1
       IN  /\ tmNext' = IF again THEN nx ELSE tmNext
           /\ queue' = IF again THEN RegisterIn(Remove(queue, tm), nx, tm)
                       ELSE IF live THEN Remove(queue, tm) ELSE queue
           /\ tmRefs' = [tmRefs EXCEPT ![tm] = r]
           /\ tmState' = [tmState EXCEPT ![tm] = IF r = 0 THEN "freed" ELSE @]
    /\ force' = FALSE /\ tm' = tmptm /\ pc' = "pass"
    /\ UNCHANGED <<tmInterval, subs, nodeValid, pending, fault, hctx, hnode,
                   ops, tmptm, cur, nxt, nxtLive>>

-----------------------------------------------------------------------------

\* dmm_startup sends DMM_MSG_STARTUP to the starter; the nodes it names in
\* the configuration exist, no timer does.
Init ==
    /\ tmState = [t \in TimerIds |-> "unused"]
    /\ tmRefs = [t \in TimerIds |-> 0]
    /\ tmNext = [t \in TimerIds |-> NoTime]
    /\ tmInterval = [t \in TimerIds |-> 0]
    /\ queue = <<>>
    /\ subs = [t \in TimerIds |-> <<>>]
    /\ nodeValid = [n \in Nodes |-> TRUE]
    /\ pc = "handler" /\ hctx = "startup" /\ hnode = Starter /\ ops = 0
    /\ force = FALSE /\ tm = NoTimer /\ tmptm = NoTimer
    /\ cur = NoNode /\ nxt = NoNode /\ nxtLive = TRUE
    /\ pending = {}
    /\ fault = "none"

Message ==
    \/ MsgTimerCreate \/ MsgTimerSet \/ MsgTimerSubscribe
    \/ MsgTimerUnsubscribe \/ MsgTimerRemove \/ MsgNodeRemove

Loop ==
    \/ TimeoutWake \/ SockWake \/ Interrupted \/ HandlerReturn
    \/ PassEnd \/ TriggerStart \/ Deliver \/ BcastEnd

Next == Message \/ Loop

\* Every step of the loop and every handler runs to its end once started;
\* epoll_wait returns at its timeout whenever it is repeatedly asked to.
Fairness ==
    /\ WF_vars(HandlerReturn) /\ WF_vars(PassEnd) /\ WF_vars(TriggerStart)
    /\ WF_vars(Deliver) /\ WF_vars(BcastEnd)
    /\ SF_vars(TimeoutWake)

Spec == Init /\ [][Next]_vars /\ Fairness


-----------------------------------------------------------------------------
(* Properties.                                                             *)

\* The loop's own reference: from TriggerStart to BcastEnd.
Triggering(t) ==
    t = tm /\ (pc = "bcast" \/ (pc = "handler" /\ hctx = "trigger"))

\* Reference counting of timers (DMM_TIMER_REF/UNREF across dmm_timer.c,
\* dmm_event.c and the TIMER* cases of dmm_msg_process_generic): a timer's
\* count is exactly the number of holders -- its own creation reference
\* until TIMERRM, its place in the trigger list, one per subscriber record
\* and the trigger loop's -- and a timer is freed only when none is left.
RefsMatchHolders ==
    \A t \in TimerIds :
        tmState[t] # "unused" =>
            tmRefs[t] = (IF tmState[t] = "live" THEN 1 ELSE 0)
                        + (IF Registered(t) THEN 1 ELSE 0)
                        + Len(subs[t])
                        + (IF Triggering(t) THEN 1 ELSE 0)

\* A TIMERSET is honoured (spec: a timer set relative r later triggers r
\* +- coalesce after the call): until the timer triggers or is removed it
\* stays in the trigger list, and it never falls more than one late
\* epoll_wait wake-up (Lag) behind its time.
SetHonoured ==
    \A t \in pending : Registered(t) /\ tmNext[t] >= -Lag

\* dmm_timers_trigger always ends: however handlers re-set and re-arm
\* timers, the main loop gets back to epoll_wait.
PassTerminates == (pc # "wait") ~> (pc = "wait")


\* Spec 4.5 and 5: a handler may drop any subscription or remove any timer
\* at any time, and in-flight walks skip what it freed.  Neither walk a
\* TIMER_TRIGGER handler runs inside may step onto freed memory:
\* dmm_event_sendsubscribed (TAILQ_FOREACH_SAFE) onto a subscriber record
\* the handler freed, nor dmm_timers_trigger (LIST_FOREACH_SAFE) onto a
\* saved next timer the handler removed.
TriggerWalksSafe == fault \notin {"uaf_subscriber", "uaf_next_timer"}

=============================================================================
