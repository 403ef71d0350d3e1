------------------------------ MODULE DmmStarter ------------------------------
(***************************************************************************)
(* The starter node (src/modules/starter/starter.c) and the generic       *)
(* control messages it sends (dmm_msg_process_generic in src/dmm_base.c). *)
(*                                                                         *)
(* On STARTUP the starter queues the pipeline's commands with add_command; *)
(* a command is sent when the queue was empty, and the runtime answers it *)
(* synchronously, so process_response runs inside the send, stores the    *)
(* result (a node or timer id) in the starter's private data, drops the   *)
(* command and sends the next one.  A command's arguments (ids of nodes   *)
(* and timers created by earlier commands) are read when it is queued.    *)
(* An error response makes the process exit.  After startup the starter   *)
(* counts TIMER_TRIGGERs of its timer and removes the timer from the      *)
(* fifth on.  The timer's subscribers ifdata and cpuload read the kernel's *)
(* counters on each trigger and send frames to dbgprinter (DmmSensors);   *)
(* CPUs may be hotplugged meanwhile.  Before all this, main() reads the   *)
(* configuration, loads its modules and registers their types (DmmLoader). *)
(***************************************************************************)
EXTENDS Integers, Sequences, FiniteSets, TLC, DmmLoader

CONSTANTS
    ConfigFiles, \* the configuration files the process may be started with
    AllocFail,  \* command, message, copy and response allocations may fail
    OpFail,     \* the runtime's action for a command may fail (ENOMEM, ctor)
    MaxTT,      \* bound on TIMER_TRIGGERs delivered
    Garbage,    \* an uninitialised dmm_id_t field of pvt_data
    MaxCores,   \* CPUs the machine may have online
    MaxHotplug, \* bound on changes of the online CPUs
    InReads,    \* reads of /proc/stat in one handler that may see a change
    MaxLost     \* bound on TIMER_TRIGGER copies that fail to allocate

Here == 1                  \* the starter is the first node created
RmAfter == 5               \* rcvmsg: num_tt >= 5 sends TIMERRM
Slots == {"ifdata", "cpuload", "dbgprint", "timer"}

VARIABLES
    started,   \* the STARTUP message was handled
    queue,     \* commandlist
    waiting,   \* is_waiting
    curTok,    \* cm_token of cur_msg
    lastToken, \* last_token
    res,       \* pvt_data's result fields
    numTT,     \* num_tt
    ntype,     \* the nodes on nodelist: id -> type name
    edges,     \* out->in connections made
    tm,        \* the timer: "none", "live", "removed"
    tmId,      \* its id
    tmSubs,    \* its subscriber records, in order
    tmArmed,   \* registered on timer_trigger_list
    stale,     \* ghost: a command was sent naming an id nothing has
    nomem,     \* ghost: an allocation of the starter's or a response failed
    exited,    \* process_error called exit(1)
    fault,
    stat,      \* cpu<N> lines in /proc/stat
    numCores,  \* cpuload's static num_cores
    cpu,       \* cpuload's pvt_data (see DmmSensors)
    ifHook,    \* ifdata's pvt->hook is set
    printed,   \* frames dbgprinter printed
    hotplugs,  \* CPU hotplugs so far
    lost,      \* TIMER_TRIGGER copies lost so far
    loaded,    \* main() has read the configuration
    types,     \* typelist
    starterType, \* main()'s starter_type
    numIf      \* ifdata's num_interfaces

vars == <<started, queue, waiting, curTok, lastToken, res, numTT, ntype, edges,
          tm, tmId, tmSubs, tmArmed, stale, nomem, exited, fault,
          stat, numCores, cpu, ifHook, printed, hotplugs, lost,
          loaded, types, starterType, numIf>>

LoadVars == <<loaded, types, starterType, numIf>>

X0 == [queue |-> queue, waiting |-> waiting, curTok |-> curTok,
       lastToken |-> lastToken, res |-> res, numTT |-> numTT, ntype |-> ntype,
       edges |-> edges, tm |-> tm, tmId |-> tmId, tmSubs |-> tmSubs, tmArmed |-> tmArmed,
       stale |-> stale, nomem |-> nomem, exited |-> exited, fault |-> fault,
       stat |-> stat, numCores |-> numCores, cpu |-> cpu, ifHook |-> ifHook,
       printed |-> printed, types |-> types, numIf |-> numIf, sched |-> <<>>]

Becomes(X) ==
    /\ queue' = X.queue /\ waiting' = X.waiting /\ curTok' = X.curTok
    /\ lastToken' = X.lastToken /\ res' = X.res /\ numTT' = X.numTT
    /\ ntype' = X.ntype /\ edges' = X.edges /\ tm' = X.tm /\ tmId' = X.tmId
    /\ tmSubs' = X.tmSubs /\ tmArmed' = X.tmArmed /\ stale' = X.stale /\ nomem' = X.nomem
    /\ exited' = X.exited /\ fault' = X.fault
    /\ numCores' = X.numCores /\ cpu' = X.cpu /\ ifHook' = X.ifHook
    /\ printed' = X.printed

-----------------------------------------------------------------------------
(* Commands: [op, rcv, type, arg, slot] built from pvt's fields when queued *)

Cmd(op, rcv, ty, arg, slot) ==
    [op |-> op, rcv |-> rcv, type |-> ty, arg |-> arg, slot |-> slot]

\* The create_*_command builders and the create_*_msg callbacks they set.
\* A builder's allocations (the command, its argument) failing is the
\* failure <<i, "cmd">> of AddCommand.  Hook names are "out" and "in";
\* the destination id travels as the text "[id]" that dmm_node_addr2ref
\* parses back, so it arrives as the value read when queueing.
NodeCreateCommand(here, ty, slot) == Cmd("nodecreate", here, ty, 0, slot)
NodeConnectCommand(src, dst)      == Cmd("nodeconnect", src, "", dst, "none")
TimerCreateCommand(here)          == Cmd("timercreate", here, "", 0, "timer")
TimerSetCommand(node, tid)        == Cmd("timerset", node, "", tid, "none")
TimerSubscribeCommand(node, tid)  == Cmd("timersub", node, "", tid, "none")
TimerRmCommand(node, tid)         == Cmd("timerrm", node, "", tid, "none")

\* Mutant: the starter subscribes itself before cpuload.
StartupScriptSelfFirst(r) ==
    << NodeCreateCommand(Here, "ifdata", "ifdata"),
       NodeCreateCommand(Here, "cpuload", "cpuload"),
       NodeCreateCommand(Here, "dbgprinter", "dbgprint"),
       NodeConnectCommand(r.ifdata, r.dbgprint),
       NodeConnectCommand(r.cpuload, r.dbgprint),
       TimerCreateCommand(Here),
       TimerSetCommand(Here, r.timer),
       TimerSubscribeCommand(r.ifdata, r.timer),
       TimerSubscribeCommand(Here, r.timer),
       TimerSubscribeCommand(r.cpuload, r.timer) >>

\* process_startup_message's add_command calls (the #if 0 parts omitted),
\* each reading pvt's fields r when it is made.
StartupScript(r) ==
    << NodeCreateCommand(Here, "ifdata", "ifdata"),
       NodeCreateCommand(Here, "cpuload", "cpuload"),
       NodeCreateCommand(Here, "dbgprinter", "dbgprint"),
       NodeConnectCommand(r.ifdata, r.dbgprint),
       NodeConnectCommand(r.cpuload, r.dbgprint),
       TimerCreateCommand(Here),
       TimerSetCommand(Here, r.timer),
       TimerSubscribeCommand(r.ifdata, r.timer),
       TimerSubscribeCommand(r.cpuload, r.timer),
       TimerSubscribeCommand(Here, r.timer) >>

NScript == 10

\* The ids a command names: its receiver and its node or timer argument.
Named(c) == {c.rcv} \cup (IF c.op \in {"nodeconnect", "timerset", "timersub", "timerrm"}
                          THEN {c.arg} ELSE {})

Exists(X, id) == id \in DOMAIN X.ntype \/ (X.tm = "live" /\ id = X.tmId)

\* timer = dmm_timer_id2ref(id): NULL unless it names the live timer.
TimerFound(X, id) == X.tm = "live" /\ id = X.tmId

\* Results of the runtime's generic handling: [x, ok, id]; ok FALSE makes
\* dmm_msg_process_generic set DMM_MSG_ERR on the response it sends.
Ok(X, id) == [x |-> X, ok |-> TRUE, id |-> id]
Err(X)    == [x |-> X, ok |-> FALSE, id |-> 0]

\* dmm_node_create: an unknown type is EINVAL; the node's allocation or its
\* constructor may fail; otherwise the node gets ++lastnodeid and its
\* constructor ran (cpuload's counts the cores).
NodeCreate(X, ty, opFails) ==
    IF ~TypeFind(X.types, ty) \/ opFails THEN Err(X)
    ELSE LET n  == Cardinality(DOMAIN X.ntype) + 1
             X1 == [X EXCEPT !.ntype = @ @@ (n :> ty)]
         IN  Ok(IF ty = "cpuload" THEN CpuloadCtor(X1) ELSE X1, n)

\* NODECONNECT: the destination must exist; dmm_node_connect may fail.  The
\* out hook's newhook (cpuload's, ifdata's) stores it in pvt->hook.
NodeConnect(X, c, opFails) ==
    IF c.arg \notin DOMAIN X.ntype \/ opFails THEN Err(X)
    ELSE LET X1 == [X EXCEPT !.edges = @ \cup {<<c.rcv, c.arg>>}]
         IN  Ok(CASE X.ntype[c.rcv] = "cpuload" -> CpuloadNewhook(X1)
                  [] X.ntype[c.rcv] = "ifdata"  -> IfdataNewhook(X1)
                  [] OTHER                      -> X1, 0)

\* TIMERCREATE: dmm_timer_create; the id is the first event's.
TimerCreate(X, opFails) ==
    IF opFails THEN Err(X)
    ELSE Ok([X EXCEPT !.tm = "live", !.tmId = 1], 1)

\* TIMERSET: dmm_timer_set on dmm_timer_id2ref's result, unchecked.
TimerSet(X, c) ==
    IF ~TimerFound(X, c.arg) THEN Err(Fail(X, "null_timer"))
    ELSE Ok([X EXCEPT !.tmArmed = TRUE], 0)

\* TIMERSUBSCRIBE: dmm_timer_subscribe on an unchecked id2ref result; a
\* checked subscribe, whose record allocation may fail.
TimerSubscribe(X, c, opFails) ==
    CASE ~TimerFound(X, c.arg) -> Err(Fail(X, "null_timer"))
      [] opFails               -> Err(X)
      [] \E k \in 1..Len(X.tmSubs) : X.tmSubs[k] = c.rcv -> Ok(X, 0)
      [] OTHER -> Ok([X EXCEPT !.tmSubs = Append(@, c.rcv)], 0)

\* TIMERRM: ENOENT for an unknown id, else dmm_timer_rm unsubscribes all,
\* deregisters and frees the timer.
TimerRm(X, c) ==
    IF ~TimerFound(X, c.arg) THEN Err(X)
    ELSE Ok([X EXCEPT !.tm = "removed", !.tmSubs = <<>>, !.tmArmed = FALSE], 0)

\* dmm_msg_process_generic's dispatch on the command, after the response
\* was allocated.
Generic(X, c, opFails) ==
    CASE c.op = "nodecreate"  -> NodeCreate(X, c.type, opFails)
      [] c.op = "nodeconnect" -> NodeConnect(X, c, opFails)
      [] c.op = "timercreate" -> TimerCreate(X, opFails)
      [] c.op = "timerset"    -> TimerSet(X, c)
      [] c.op = "timersub"    -> TimerSubscribe(X, c, opFails)
      [] OTHER                -> TimerRm(X, c)

-----------------------------------------------------------------------------
(* The command queue.  A failure f = <<n, kind>> picks the n-th token's    *)
(* message ("msg": DMM_MSG_CREATE or DMM_MSG_COPY returns NULL), its        *)
(* response ("resp": dmm_msg_create_resp returns NULL, no answer) or its    *)
(* action ("op"); one failure per handler suffices, since any failure ends  *)
(* the handler's processing.                                                *)

NoFail == <<0, "none">>

\* Mutant: the response's token is stored instead of its result.
ProcessRespToken(X, c, id) ==
    IF c.slot = "none" THEN X ELSE [X EXCEPT !.res[c.slot] = X.curTok]

\* Mutant: the result is not stored.
ProcessRespNone(X, c, id) == X

\* nodecreate_process_resp / timercreate_process_resp store the id.
ProcessResp(X, c, id) ==
    IF c.slot = "none" THEN X ELSE [X EXCEPT !.res[c.slot] = id]

\* The value of Op at v, v evaluated once (the queue operators pass their
\* results on through it).
Bind(v, Op(_)) == CHOOSE r \in {Op(y) : y \in {v}} : TRUE

RECURSIVE ProcessCommands(_, _), ProcessCommand(_, _), ProcessResponse(_, _, _)

\* process_response for the awaited token: store, drop the head, go on.
ProcessResponse(X, id, f) ==
    LET X1 == ProcessResp(X, Head(X.queue), id)
        X2 == [X1 EXCEPT !.queue = Tail(@), !.waiting = FALSE]
    IN  IF X2.queue = <<>> THEN X2 ELSE ProcessCommands(X2, f)

\* process_command: [x, err]; the send's return is that of the receiver's
\* generic handling, 0 once a response was sent.
ProcessCommand(X, f) ==
    LET c  == Head(X.queue)
        t  == X.lastToken + 1
        X1 == [X EXCEPT !.lastToken = t]
        X2 == [X1 EXCEPT !.waiting = TRUE, !.curTok = t,
                         !.stale = @ \/ \E id \in Named(c) : ~Exists(X, id)]
        G  == Generic(X2, c, f = <<t, "op">>)
    IN  CASE f = <<t, "msg">>   -> [x |-> [X1 EXCEPT !.nomem = TRUE], err |-> TRUE]
          [] ~Exists(X, c.rcv)  -> [x |-> X2, err |-> TRUE]     \* ENOENT
          [] f = <<t, "resp">>  -> [x |-> [X2 EXCEPT !.nomem = TRUE], err |-> TRUE]
          [] G.x.fault # "none" -> [x |-> G.x, err |-> TRUE]
          [] ~G.ok              -> [x |-> [G.x EXCEPT !.exited = TRUE], err |-> TRUE]
          [] OTHER              -> [x |-> ProcessResponse(G.x, G.id, f), err |-> FALSE]

\* process_commands: STAILQ_FOREACH_SAFE saves the second command before
\* the first is sent; if the nested processing freed it the loop reads it.
ProcessCommands(X, f) ==
    IF X.queue = <<>> \/ X.exited \/ X.fault # "none" THEN X
    ELSE Bind(ProcessCommand(X, f), LAMBDA R :
             CASE R.err \/ R.x.waiting \/ R.x.exited \/ R.x.fault # "none" -> R.x
               [] Len(X.queue) = 1                -> R.x
               [] Len(R.x.queue) <= Len(X.queue) - 2 -> Fail(R.x, "uaf_cmd")
               [] OTHER                           -> ProcessCommands(R.x, f))

\* Mutant: a command queued on an empty list is not started.
AddCommandDeferred(X, c, i, f) ==
    IF f = <<i, "cmd">> THEN [X EXCEPT !.exited = TRUE, !.nomem = TRUE]
    ELSE [X EXCEPT !.queue = Append(@, c)]

\* add_command: assert(cmd) aborts when the command could not be allocated.
AddCommand(X, c, i, f) ==
    IF f = <<i, "cmd">> THEN [X EXCEPT !.exited = TRUE, !.nomem = TRUE]
    ELSE LET X1 == [X EXCEPT !.queue = Append(@, c)]
         IN  IF X.queue = <<>> THEN ProcessCommands(X1, f) ELSE X1

\* process_startup_message: each add_command reads pvt's ids at its call.
RECURSIVE RunScript(_, _, _)
RunScript(X, i, f) ==
    IF i > NScript \/ X.exited \/ X.fault # "none" THEN X
    ELSE Bind(AddCommand(X, StartupScript(X.res)[i], i, f),
              LAMBDA Y : RunScript(Y, i + 1, f))

-----------------------------------------------------------------------------
(* Actions *)

\* The failures one handler may meet: its n-th command allocation, or the
\* message, response or action of one of its next n tokens.
Failures(n) ==
    {NoFail}
    \cup (IF AllocFail
          THEN {<<i, "cmd">> : i \in 1..n}
               \cup {<<t, k>> : t \in lastToken + 1 .. lastToken + n, k \in {"msg", "resp"}}
          ELSE {})
    \cup (IF OpFail THEN {<<t, "op">> : t \in lastToken + 1 .. lastToken + n} ELSE {})

Init ==
    /\ started = FALSE
    /\ queue = <<>>
    /\ waiting = FALSE
    /\ curTok = 0
    /\ lastToken = 0
    /\ res = [s \in Slots |-> Garbage]
    /\ numTT = 0
    /\ ntype = <<>>
    /\ edges = {}
    /\ tm = "none"
    /\ tmId = 0
    /\ tmSubs = <<>>
    /\ tmArmed = FALSE
    /\ stale = FALSE
    /\ nomem = FALSE
    /\ exited = FALSE
    /\ fault = "none"
    /\ stat \in 1 .. MaxCores
    /\ numCores = 0
    /\ cpu = NoPrev
    /\ ifHook = FALSE
    /\ printed = {}
    /\ hotplugs = 0
    /\ lost = 0
    /\ loaded = FALSE
    /\ types = <<>>
    /\ starterType = ""
    /\ numIf = 0

\* The lines of configuration file cf that the modules loop may load.
LoadLines(cf) == {i \in DOMAIN cf : ~Skipped(cf[i]) /\ cf[i].text # "=="}

\* main() up to dmm_startup, for one of the configuration files and one
\* outcome of each dmm_module_load.
Load ==
    /\ ~loaded
    /\ loaded' = TRUE
    /\ \E cf \in ConfigFiles :
         \E outc \in {o \in [LoadLines(cf) -> {"ok", "dlopen", "init"}] :
                        \A i \in LoadLines(cf) : o[i] \in LoadOutcomes(cf[i].text)} :
         LET M == MainConfig(cf, outc) IN
             /\ types' = M.reg /\ numIf' = M.numIf /\ starterType' = M.starter
             /\ exited' = M.exit
    /\ UNCHANGED <<started, queue, waiting, curTok, lastToken, res, numTT, ntype, edges,
                   tm, tmId, tmSubs, tmArmed, stale, nomem, fault,
                   stat, numCores, cpu, ifHook, printed, hotplugs, lost>>

\* dmm_startup: create the starter node (its ctor allocates pvt_data) and
\* send it STARTUP, either failing with dmm_emerg; rcvmsg runs
\* process_startup_message, whose add_command results are ignored, and
\* returns 0, so "Startup finished with errors" is never reported.  A
\* starter type no module registered fails dmm_node_create.
Startup ==
    /\ loaded /\ ~exited /\ ~started
    /\ started' = TRUE
    /\ \E f \in Failures(NScript) \cup (IF AllocFail THEN {<<0, "node">>, <<0, "startmsg">>} ELSE {}),
         Y \in {[X0 EXCEPT !.ntype = (Here :> starterType)]} :
         \E Z \in {CASE ~TypeFind(types, starterType) -> [X0 EXCEPT !.exited = TRUE]
                    [] f = <<0, "node">>     -> [X0 EXCEPT !.exited = TRUE, !.nomem = TRUE]
                    [] f = <<0, "startmsg">> -> [Y EXCEPT !.exited = TRUE, !.nomem = TRUE]
                    [] OTHER                 -> RunScript(Y, 1, f)} : Becomes(Z)
    /\ UNCHANGED <<stat, hotplugs, lost>> /\ UNCHANGED LoadVars

Running == started /\ ~exited /\ fault = "none"

\* Mutant: num_tt is never incremented.
RcvTimerTriggerNoCount(X, f) ==
    IF X.numTT >= RmAfter
    THEN AddCommand(X, TimerRmCommand(Here, X.res.timer), 1, f)
    ELSE X

\* rcvmsg, DMM_MSG_TIMERTRIGGER: count, and from the fifth on ask to
\* remove the timer (timer_id read now).
RcvTimerTrigger(X, f) ==
    LET X1 == [X EXCEPT !.numTT = @ + 1]
    IN  IF X1.numTT >= RmAfter
        THEN AddCommand(X1, TimerRmCommand(Here, X1.res.timer), 1, f)
        ELSE X1

\* A subscriber's rcvmsg for TIMER_TRIGGER (dmm_msg_apply dispatches on the
\* node's type); dbgprinter's answers ENOTSUP.
TimerTriggerRcv(X, n, f) ==
    CASE X.ntype[n] = "ifdata"  -> IfdataRcvmsg(X, n, f)
      [] X.ntype[n] = "cpuload" -> CpuloadRcvmsg(X, n, f)
      [] X.ntype[n] = "starter" -> RcvTimerTrigger(X, f)
      [] OTHER                  -> X

\* dmm_event_sendsubscribed from record k of the list subs on: a copy per
\* subscriber (a failed copy is logged and skipped), each handled before
\* the walk moves on through the saved next record, which the starter's
\* TIMERRM frees unless the starter is last.
RECURSIVE SendSubscribed(_, _, _, _)
SendSubscribed(X, subs, k, f) ==
    IF k > Len(subs) \/ X.exited THEN X
    ELSE Bind(IF f = <<k, "copy">> THEN X ELSE TimerTriggerRcv(X, subs[k], f),
              LAMBDA Y : IF Y.tm = "removed" /\ k < Len(subs) THEN Fail(Y, "uaf_walk")
                         ELSE SendSubscribed(Y, subs, k + 1, f))

\* The allocations of one timer pass that may fail: the starter's TIMERRM
\* command, a subscriber's copy, or a sensor's frame or prev_val.
TriggerFailures ==
    Failures(1)
    \cup (IF AllocFail
          THEN {<<0, "cpudata">>, <<0, "prevval">>, <<0, "ifdata">>}
               \cup (IF lost < MaxLost THEN {<<k, "copy">> : k \in 1 .. Len(tmSubs)} ELSE {})
          ELSE {})

\* dmm_timers_trigger fires the armed timer and broadcasts TIMER_TRIGGER to
\* its subscribers; afterwards a still valid timer is re-armed.
\* The number of CPU hotplugs a schedule of reads q makes from count c.
Changes(c, q) ==
    Cardinality({i \in DOMAIN q : q[i] # (IF i = 1 THEN c ELSE q[i - 1])})

\* The counts the first reads of /proc/stat in one handler may see, as far
\* as the hotplug bound allows; later reads see the last of them.
Schedules ==
    {q \in UNION {[1 .. k -> 1 .. MaxCores] : k \in 0 .. InReads} :
        hotplugs + Changes(stat, q) <= MaxHotplug}

Trigger ==
    /\ Running /\ tm = "live" /\ tmArmed /\ numTT < MaxTT
    /\ \E f \in TriggerFailures, q \in Schedules :
         \E Y \in {[X0 EXCEPT !.sched = q]} :
         /\ \E Z \in {SendSubscribed(Y, tmSubs, 1, f)} :
              /\ Becomes(Z)
              /\ stat' = IF Z.sched = <<>> THEN Z.stat ELSE Z.sched[Len(Z.sched)]
         /\ hotplugs' = hotplugs + Changes(stat, q)
         /\ lost' = IF f[2] = "copy" THEN lost + 1 ELSE lost
    /\ UNCHANGED started /\ UNCHANGED LoadVars

\* The kernel brings CPUs on- or offline: the cpu<N> lines of /proc/stat.
Hotplug ==
    /\ hotplugs < MaxHotplug
    /\ \E c \in (1 .. MaxCores) \ {stat} : stat' = c
    /\ hotplugs' = hotplugs + 1
    /\ UNCHANGED <<started, queue, waiting, curTok, lastToken, res, numTT, ntype, edges,
                   tm, tmId, tmSubs, tmArmed, stale, nomem, exited, fault,
                   numCores, cpu, ifHook, printed, lost>>
    /\ UNCHANGED LoadVars

Next == Load \/ Startup \/ Trigger \/ Hotplug

\* main() runs on to dmm_startup; the handlers run to completion; the
\* armed timer keeps firing.
Spec == Init /\ [][Next]_vars /\ WF_vars(Load) /\ WF_vars(Startup) /\ WF_vars(Trigger)

-----------------------------------------------------------------------------
(* Properties *)

NodeIds == 1 .. NScript + 1

\* Type invariant: pvt's result fields hold an uninitialised value or an id
\* of the kind the slot stores.
TypeOK ==
    /\ queue \in Seq([op : {"nodecreate", "nodeconnect", "timercreate", "timerset",
                            "timersub", "timerrm"},
                      rcv : NodeIds \cup {Garbage}, type : {"", "ifdata", "cpuload", "dbgprinter"},
                      arg : 0 .. 1 \cup NodeIds \cup {Garbage}, slot : Slots \cup {"none"}])
    /\ waiting \in BOOLEAN /\ lastToken \in Nat /\ numTT \in 0..MaxTT
    /\ \A s \in Slots \ {"timer"} : res[s] \in NodeIds \cup {Garbage}
    /\ res["timer"] \in {1, Garbage}
    /\ DOMAIN ntype \subseteq NodeIds
    /\ stat \in 1 .. MaxCores /\ numCores \in 0 .. MaxCores
    /\ cpu \in [prev : 0 .. MaxCores, filled : BOOLEAN, hook : BOOLEAN]
    /\ lost \in 0 .. MaxLost /\ hotplugs \in 0 .. MaxHotplug
    /\ loaded \in BOOLEAN /\ types \in Seq(STRING) /\ starterType \in STRING
    /\ numIf \in Nat

\* Every command the starter sends names a node or timer that exists when
\* it is sent, although process_startup_message reads the ids into the
\* commands when it queues them, before earlier commands have run.
ArgsFresh == ~stale

\* Once STARTUP was handled without an allocation failure or an exit, the
\* pipeline of process_startup_message is in place: the three nodes of
\* their types, both connections to dbgprinter, and while the timer lives
\* it is armed with ifdata, cpuload and the starter subscribed in order.
PipelineBuilt ==
    started /\ ~exited /\ ~nomem =>
        /\ \A s \in {"ifdata", "cpuload", "dbgprint"} : res[s] \in DOMAIN ntype
        /\ ntype[res.ifdata] = "ifdata" /\ ntype[res.cpuload] = "cpuload"
        /\ ntype[res.dbgprint] = "dbgprinter"
        /\ edges = {<<res.ifdata, res.dbgprint>>, <<res.cpuload, res.dbgprint>>}
        /\ cpu.hook /\ ifHook
        /\ tm = "live" => /\ tmArmed /\ res.timer = tmId
                          /\ tmSubs = <<res.ifdata, res.cpuload, Here>>

\* No freed memory is read and no NULL timer dereferenced: the starter's
\* TIMERRM, sent from its TIMER_TRIGGER handler in the middle of
\* dmm_event_sendsubscribed's walk, frees the subscriber records, which is
\* safe only because the starter subscribes last; process_commands' saved
\* next command is never freed under it.
StarterMemorySafe == fault \notin {"null_timer", "uaf_walk", "uaf_cmd"}

\* cpuload never reads or writes prev_val beyond its allocation, whatever
\* CPUs the kernel brings on- or offline between or during its reads of
\* /proc/stat: process_timer_msg and fill_prev recount on every mismatch
\* they notice (the "OOPS" branches) so that prev_val is meant to be
\* reallocated for the new num_cores before it is indexed again.
PrevValInBounds == fault # "prev_overflow"

Quiet == queue = <<>> /\ tm # "live"

\* Unless an allocation fails, the starter eventually has no command left
\* and has removed its timer, or has exited on an error response: the
\* five TIMER_TRIGGERs arrive and the TIMERRM is processed.
StarterQuiesces == [](~nomem) => <>[](Quiet \/ exited)

====
