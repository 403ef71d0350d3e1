# TLA+ models of the dimmon runtime

dimmon (`src/`) is a single-process, single-threaded runtime for monitoring
pipelines. Nodes (instances of types loaded from modules) are connected by
hooks. Data frames flow along hooks. Control messages go from node to node.
One `epoll` main loop drives everything. This directory holds TLA+ models of
the runtime kernel, the TLC configurations that check them, and
`PROJECT.json`, which maps every definition to the source lines it models and
lists runs, mutants, findings and hazards.

## 1. The system and its parts

| Part | Source | What it does |
|---|---|---|
| Type registry | `dmm_module.c` | dlopen a module, check its ABI, run its init, register its types by name |
| Node and hook graph | `dmm_base.c`, `dmm_base.h` | nodes, in/out hooks, peer records, connect/disconnect, node removal, reference counts |
| Data frames | `dmm_base.c`, `dmm_message.h` | `dmm_data_send` delivers a frame to every peer of an out-hook, synchronously |
| Control messages | `dmm_base.c` (`dmm_msg_process_generic`, `dmm_msg_apply`) | generic commands: node create/remove/connect, timer and socket-event and wave-finish (un)subscription; responses carry an ERR flag |
| Event base | `dmm_event.c` | subscriber lists with back-pointing records; `dmm_event_sendsubscribed` broadcasts a message copy to each subscriber |
| Timers | `dmm_timer.c` | timers on a sorted trigger list, with a 1 ms coalesce interval and one-shot or periodic modes |
| Socket events | `dmm_sockevent.c` | one event object per fd, registered with epoll |
| Waves | `dmm_wave.c` | one wave per main-loop iteration; WAVEFINISH broadcast at its end |
| Main loop | `dmm_base.c` (`dmm_main_loop`) | wait on epoll with the head timer's timeout, then wave start, socket dispatch, timer trigger, wave finish |
| Process start | `dmm_main.c` | parse the configuration, load modules, create the starter |
| Sensors | `modules/sensors/` | cpuload and ifdata read `/proc` on every TIMER_TRIGGER and send one frame |
| Modules | `modules/` | starter (sends the pipeline's commands one at a time and removes its timer after five triggers), wavebuf (per-wave frame coalescing), sensors, processing and network nodes, Lua control |

How the parts interact: every handler runs to completion, and messages it
sends are processed at once, depth first. A node's TIMER_TRIGGER handler can
therefore create, set or remove timers, change subscriptions, or remove nodes
in the middle of `dmm_timers_trigger` and `dmm_event_sendsubscribed`. Both
walk their lists with `*_FOREACH_SAFE`, which keeps a pointer to the next
element across the call-out. Lifetimes are governed by reference counts
(`dmm_memman.h`). A subscription record holds one reference on the event and
one on the node. The trigger list holds one on each registered timer. The
trigger loop holds one on the timer it is firing.

## 2. Modules

### DmmTimer (with MCDmmTimer)

Models timers, their subscriber lists, the generic TIMER* and NODERM
messages, and the part of the main loop that waits and triggers.

**State.** The `tmState` values mean:
- `live`: valid and on `timerlist`;
- `removed`: invalid, but the trigger loop still holds a reference;
- `freed`: the memory has been released.

The other variables:
- `tmRefs`: `ev_refs`.
- `tmNext`: `tm_next`, as an offset from the clock in 1 ms units. `NoTime`
  stands for `{0,0}`.
- `tmInterval`.
- `queue`: `timer_trigger_list`. Membership in it is the REGISTERED flag.
- `subs`: `ev_nodes`. The nodes' `nd_events` lists are the same records
  seen from the node's side.
- `nodeValid`.
- The loop's control point (`pc`), the running handler (`hctx`, `hnode`,
  `ops`) and `force_trigger`.
- The pass's `tm` and its saved `tmptm`.
- The broadcast's current node `cur`, its saved next record `nxt`, and
  `nxtLive`, whether that record is still allocated.
- `pending`: a ghost variable holding the timers set and not yet triggered.
- `fault`: the crash the code runs into.

**Actions.** Each message action is one complete `case` of
`dmm_msg_process_generic`, including the calls it makes:
- `MsgTimerCreate`
- `MsgTimerSet`: `dmm_timer_set` with its deregister and re-register.
- `MsgTimerSubscribe`
- `MsgTimerUnsubscribe`
- `MsgTimerRemove`: the early UNREF, then `dmm_timer_rm`.
- `MsgNodeRemove`: `dmm_node_rm`, including unsubscribe-all.

A message to an invalid node has no effect, as in `dmm_msg_apply`. A NULL
timer from `dmm_timer_id2ref` crashes the process where the code
dereferences it.

The main loop:
- `TimeoutWake`, `SockWake` and `Interrupted` are the three outcomes of
  `epoll_wait`. Each advances the clock: `Shift` moves every stored time.
- `PassEnd`, `TriggerStart` and `BcastEnd` are the `LIST_FOREACH_SAFE` body
  of `dmm_timers_trigger`.
- `Deliver` and `HandlerReturn` are the `TAILQ_FOREACH_SAFE` body of
  `dmm_event_sendsubscribed`.

A running handler sends up to `MaxOps` messages. The constants `StartupOps`,
`SockOps` and `TriggerOps` say which kinds of message each handler may send.
`TriggerTimers` and `TriggerNodes` say which timers and nodes a trigger
handler may name.

**Abstractions.**
- Time is in whole coalesce intervals. Handlers take no time. `epoll_wait`
  returns between its timeout and `Lag` later.
- A socket wake-up is one handler run of a valid node. The socket-event
  machinery is not modelled here.
- Allocation failures (ENOMEM) are not modelled.
- Responses to control messages are not modelled. A response handler's
  messages are the same kinds of message the handler sends.
- Init is the starter's STARTUP handler, after the starter has created the
  configuration's nodes.
- Defining a timer's history (`pending`, `SetHonoured`) needs a ghost
  variable. It is not part of the code.

### DmmWave (with MCDmmWave)

Models waves (`dmm_wave.c`), the wave-finish event, and the wavebuf node
type (`modules/wavebuf/wavebuf.c`) between source nodes and a sink.

**State.**
- `pc`: `idle` (in `epoll_wait`), `wave` (the stimulus is being processed),
  `finish` (the WAVEFINISH broadcast is running).
- `wfExists`, `wfSubs`, `wfRefs`: the current wave's wave-finish event, its
  subscriber records in order (duplicates allowed), and its `ev_refs`.
- `cur`: the record the broadcast visits.
- `buf`: each wavebuf's `databuf`.
- Ghost variables, per wave: `emitted`, `sent` (frames each wavebuf sent) and
  `got` (what the sink received).

**Actions.**
- `WaveStart`: `dmm_wave_start`.
- `Emit(s)`: a source's `DMM_DATA_SEND`. `SendTo` is `dmm_data_send`, which
  delivers to the peers in list order. `RcvData` is wavebuf's `rcvdata`: if
  the buffer is empty it sends itself WAVEFINISHSUBSCRIBE (`Subscribe`, which
  joins or creates the event), then it queues the frame.
- `WaveFinish`: the `dmm_wavefinish_id2ref` lookup with its REF.
- `FinishDeliver`: one step of `dmm_event_sendsubscribed`, including the
  wavebuf `rcvmsg` it calls. The next index is saved before the handler
  runs. Records appended during the handler are visited only if the saved
  next was not NULL.
- `FinishEnd`: `dmm_event_unsubscribeall` and `dmm_wavefinish_rm`.

**Abstractions.**
- A frame is the set of sources whose data it carries.
- A buffer is the set of its frames. Concatenation is union, and the buffer
  is empty exactly when the set is.
- Each handler is atomic. The topology (`Peers`) is fixed.
- Data reference counts, ENOMEM, and the NULL out-hook path are left out.

### DmmGraph (with MCDmmGraph)

Models the node and hook graph of `dmm_base.c`, the generic NODECREATE,
NODECONNECT, NODEDISCONNECT and NODERM messages, the `newhook` and `rmhook`
callbacks of cpuload, prepend, wavebuf and blackhole, and `dmm_data_send`
with receiving handlers that change the graph while the peer list is walked.

**State.** One record `g`:
- `nd`, `ndRefs`: each node slot is `unused`, `live`, `invalid` (NODERM ran,
  references remain) or `freed`. `ndRefs` is `nd_refs`.
- `hk`, `hkRefs`: each possible hook (node, direction, name) is `none`
  (not allocated), `live` or `invalid`. `hkRefs` is `hk_refs`.
- `peers`: `hk_peers`, as a sequence in list order. New records go to the
  head, as `LIST_INSERT_HEAD` does.
- `pvt`: the out-hook pointer a node type keeps in its private data
  (`pvt->hook` or `pvt->outhook`).
- `rec`, `recLive`: the peer record `dmm_data_send` stands on, and whether it
  is still allocated.
- `fault`: the assertion or use-after-free the code runs into.

Outside `g`: `pc` (`deliver` while `dmm_data_send` walks), `sh` (the out
hook sent on), `cp` (the current peer), and two ghost variables, `stay` (the
peers present since the send began) and `cnt` (frames each hook got).

**Operators and actions.** Every graph function is an operator from a
state to a state, so a handler with all its calls is one step, at top level
or nested in a send:
- `AddPeer`, `RmPeer`, `HookFind`, `HookCreate`, `HookGet`, `HookRm`,
  `NodeCreateOp`, `NodeRmOp`, `ConnectOp` (with its rollback) and
  `DisconnectOp` are the functions of the same names.
- `NodeUnref` and `HookUnref` are the unref macros, including the
  assertions and, for hooks, the type's `rmhook`. Releasing a count at zero
  is recorded as -1 and a fault. (The 32-bit count would wrap.)
- `Apply` is `dmm_msg_send_id` plus `dmm_msg_apply`: look the node up with
  REF, reject an invalid node, UNREF. `WithDst` is `addr2ref` and its UNREF.
- Actions: `CreateNode`, `Connect`, `Disconnect`, `RemoveNode`, `SendStart`
  (a handler of a cpuload, prepend or wavebuf node sends on `pvt`'s hook),
  and `Deliver`. `Deliver` is one iteration of the `LIST_FOREACH`:
  `passtohook`, the receiver's handler (`HandlerResults`: nothing, or one
  graph message from `RcvOps`), then reading the next record.

**Abstractions.**
- The receiving handlers' graph messages stand for what spec.md allows a
  handler to do. The bundled `rcvdata` functions send no graph messages. A
  nested data send (prepend forwarding) changes no graph state and is left
  out.
- Hook-name validation and hook allocation failure only return an error
  with nothing changed, so they are left out. Peer-record allocation failure
  (`AllocFail`) is modelled, because the rollback depends on it.
- Events (`dmm_node_unsubscribeallevents`) are in DmmTimer and DmmWave.

### DmmSockEvent (with MCDmmSockEvent)

Models `dmm_sockevent.c` on the event base (`dmm_event.c`, `dmm_event.h`),
with the kernel side the code relies on.

State:
- `fdOpen`, `fdGen`: which descriptor numbers are open, and a ghost count of
  `open()` calls per number. `Open` takes the lowest free number, as
  `socket()` and `fopen()` do.
- `ep[f]`: the object that the epoll registration of f's open description
  points to (`ev.data.ptr`). `close()` drops the registration.
- Per object slot: `st` (unused, live, freed), `seFd`, `seGen` (the
  description it was added for), `seMask`, `refs` (`ev_refs`) and `subs`
  (`ev_nodes`, in order).
- `list`: `sockeventlist`, head first.
- `valid`, plus the broadcast: `pc`, `bse`, `cur`, and the ghosts `stay` and
  `got`.
- `fault`: which assertion or use after free happened.

Operations are operators on a record `S` of the object state, so a handler
with every call it makes is one step:
- `Destructor`: unlink, EPOLL_CTL_DEL, free.
- `EventUnref`, `EventRef`, `EventSubscribe`, `CheckedSubscribe`,
  `EventUnsubscribe`, `UnsubscribeAll`.
- `Fd2Ref`: the first object on the list with that fd.
- `SockSubscribe`, which has three paths:
  - ADD succeeds: a new object.
  - EEXIST: join the object `Fd2Ref` finds, with MOD if the mask differs.
  - Any other error: nothing changes.
- `SockUnsubscribe`, `TriggerFail`, `NodeRmOp`.

Actions:
- `Open`, `Close`.
- `Subscribe`, `Unsubscribe`: the SOCKEVENT(UN)SUBSCRIBE cases of
  `dmm_msg_process_generic`.
- `RemoveNode`.
- `Trigger`: `epoll_wait` returns a registration, then
  `dmm_sockevent_process` and `dmm_sockevent_trigger`. If message
  allocation fails, the main loop stops.
- `Deliver`: one step of `dmm_event_sendsubscribed`. A handler may do
  nothing, unsubscribe itself, or remove its node.

Constants:
- `AllocFailSub`, `AllocFailTrig`: whether allocation may fail in the
  subscribe path and in the trigger.
- `CloseAny`: FALSE means modules close a descriptor only after
  unsubscribing from it, as every module in `src/modules` does.

Abstractions:
- Masks are model values.
- Any registered descriptor may become ready.
- `se_ev_2_epoll_ev` and `epoll_ev_2_se_ev` are not modelled.

### SockEventService (abstract), checked against DmmSockEvent

What socket events promise a node, with no objects, references or epoll.
Each open descriptor has a set of subscribed nodes (`sub`). A trigger of a
descriptor starts one broadcast that must reach every node subscribed at
that moment (`pending`), one copy each. Receiving handlers may unsubscribe
or remove themselves. A descriptor is closed only when nobody is subscribed.

`DmmSockEvent` instantiates it with this refinement mapping:
- `open <- fdOpen`
- `sub[f] <-` the subscribers of the live objects for f (`SubscribedTo`)
- `alive <- valid`
- `phase <- pc`
- `pending <-` the subscriber records from the walk's current one to the end
  (`Pending`)

The property `ImplementsService == Service!Spec` is checked in `se_core`.
Each concrete step (subscribe with EEXIST joins and failed allocations,
unsubscribe, node removal, the destructor, each step of the saved-next
walk) must be a step of the service, or leave its mapped state unchanged.

### DmmStarter (with MCDmmStarter), DmmSensors and DmmLoader

DmmStarter models the whole life of the process that `starter_core` checks.
First `main()` reads the configuration and loads its modules (DmmLoader).
Then `dmm_startup` creates the starter node (`modules/starter/starter.c`) and
sends it STARTUP. The starter's commands go to `dmm_msg_process_generic`.
The pipeline it builds is ifdata and cpuload, both connected to dbgprinter
and subscribed to the starter's timer. Its nodes' handlers are in
DmmSensors. All messaging is synchronous. A command sent with
`DMM_MSG_SEND_ID` is handled at once by the receiver, and the response comes
back to the starter's `rcvmsg` before the send returns. One handler, with
everything nested in it, is therefore one step. DmmLoader and DmmSensors
hold operators over a record `X` of the state. DmmStarter owns the
variables (`X0` reads them, `Becomes` writes them).

State:
- main(): `loaded`, `types` (the registry `typelist`, newest first),
  `starterType`, and `numIf` (ifdata's static `num_interfaces`).
- The starter's `pvt_data`: `queue` (`commandlist`), `waiting`
  (`is_waiting`), `curTok` (the token of `cur_msg`), `res` (the id fields the
  responses fill, `Garbage` until written, since `DMM_MALLOC` does not zero)
  and `numTT`. Also `lastToken` (`last_token`).
- The runtime objects the commands touch: `ntype` (node ids to types),
  `edges`, and the timer (`tm`, `tmId`, `tmSubs`, `tmArmed`).
- The sensors: `stat` (cpu<N> lines in `/proc/stat`), `numCores`
  (cpuload's static `num_cores`), `cpu` (cpuload's `pvt_data`: the cores
  `prev_val` was allocated for, `prev_val_filled` and the hook), `ifHook`,
  and `printed` (the frames dbgprinter printed). Inside a handler the
  record `X` also has `sched`: the CPU counts that the handler's successive
  rewinds of `/proc/stat` will see (`ReadStat` takes the next one), so
  CPUs can come and go between two reads of one handler.
- `exited`: `dmm_emerg` or `process_error` called `exit(1)`.
- Ghosts: `stale` (a command was sent naming an id nothing had), `nomem`
  (an allocation failed), `fault` (the first memory error met).
- Bounds counters: `hotplugs`, `lost`.

DmmLoader operators:
- `ReadModules` is `main()`'s for loop. It skips blank, `#` and `--` lines
  (`Skipped`), exits on a line that fills `buf` (`FillsBuf`), stops at
  `==`, and calls `ModuleLoad` on every other line.
- `MainConfig` is the rest of `main()` up to `dmm_startup`. The line right
  after the first `==` is the starter type. It must be shorter than
  `DMM_TYPENAMESIZE`. The line after it must be `==`.
- `ModuleLoad` is `dmm_module_load`. dlopen or dlsym fails, the ABI differs,
  or init fails; otherwise every type is registered (`RegisterAll`,
  `TypeRegister`, `TypeFind`). `IfdataInit` is ifdata's init: it adds the
  interfaces of `/proc/net/dev` to `num_interfaces` and never resets it.
- A configuration line is `[text, len]`. The text stands for the first
  characters the code tests, or the whole line for a path or a type name.
  Every line is taken to end with a newline; a last line without one
  would fill `buf` one character later than `FillsBuf` says.

DmmSensors operators:
- cpuload: `CpuloadCtor`, `CountCoresStates`, `FillPrev` (recursive, as the
  code's do-while retry), `FewerCores` (the for loop going on over the
  recounted `num_cores` after a missing cpu line, without reallocating),
  `ProcessTimerMsg`, `CpuloadRcvmsg`, `CpuloadNewhook`. Every rewind is a
  `ReadStat`.
  `TouchPrev` records an index past the `prev_val` allocation as
  `prev_overflow`.
- ifdata: `IfdataNewhook` and `IfdataRcvmsg`. The latter returns EINVAL
  when `/proc/net/dev` has fewer lines than `num_interfaces`.
- dbgprinter's `DbgRcvdata`, and `DataSend` (`dmm_data_send`).

DmmStarter operators:
- `StartupScript(r)`: the ten `add_command` calls of
  `process_startup_message`, each reading pvt's ids when it is made. The
  `*Command` builders are the `create_*_command` functions.
- `AddCommand`, `ProcessCommands`, `ProcessCommand`, `ProcessResponse` and
  `ProcessResp` follow the C functions of the same names. They are
  mutually recursive, as in the code. `ProcessCommands` keeps
  `STAILQ_FOREACH_SAFE`'s saved next command.
- `Generic` dispatches to `NodeCreate` (looks the type up in `types`, runs
  cpuload's constructor), `NodeConnect` (runs the source's newhook),
  `TimerCreate`, `TimerSet`, `TimerSubscribe` and `TimerRm`. Each returns
  whether the response carries `DMM_MSG_ERR`. TIMERSET and TIMERSUBSCRIBE
  use `dmm_timer_id2ref`'s result unchecked, so an unknown id is a NULL
  dereference (`fault`).
- `SendSubscribed` is `dmm_event_sendsubscribed`. It gives each subscriber
  a copy, and `TimerTriggerRcv` dispatches the copy to the subscriber's
  handler. A failed copy is skipped. Freeing the saved next record is
  `uaf_walk`.
- `Bind` evaluates a result once before passing it on. This only keeps
  TLC's evaluation linear.

Actions:
- `Load`: `main()` up to `dmm_startup`, for one of `ConfigFiles` and one
  outcome of every module load.
- `Startup`: `dmm_startup` (an unregistered starter type exits), then the
  whole STARTUP handler.
- `Trigger`: one `dmm_timers_trigger` pass of the armed timer. It
  broadcasts to ifdata, cpuload and the starter in order. It picks a
  schedule from `Schedules`: up to `InReads` CPU counts that the pass's
  reads of `/proc/stat` see in turn (each change counts against
  `MaxHotplug`). The starter
  counts, and from the fifth trigger on it queues a TIMERRM.
- `Hotplug`: the kernel changes the number of online CPUs.

A failure `<<n, kind>>` picks one of these:
- the n-th token's message, copy or response allocation;
- the runtime action;
- the n-th command allocation;
- a sensor's data allocation.

One failure per handler is exact, because every failure ends the handler's
processing.

Constants:
- `ConfigFiles` and `Modules` (each module's ABI, init and types);
- `PathMax` and `TypeNameSize`;
- `AllocFail`, `OpFail`;
- `MaxTT`, `MaxCores`, `MaxHotplug`, `MaxLost`, `InReads`;
- `NumStates`, `NetIfs`.

### Planned modules (in order)

1. **DmmLoop**: DmmTimer, DmmSockEvent and DmmWave composed in one main-loop
   iteration.
2. An abstract event broadcast for DmmTimer's walk, restricted to handlers
   that do not free the saved record.

## 3. Runs

| Run | cfg | Expect | Checks |
|---|---|---|---|
| timer_core | `MCDmmTimer.cfg` | pass | TypeOK, RefsMatchHolders, SetHonoured, PassTerminates |
| timer_self_set | `MCDmmTimerSelfSet.cfg` | violation | SetHonoured |
| timer_walk | `MCDmmTimerWalk.cfg` | violation | TriggerWalksSafe |
| wave_layer | `MCDmmWave.cfg` | pass | TypeOK, WfRefsMatch, OneFramePerWave, WaveCoalesced, EventuallyFlushed |
| wave_chain | `MCDmmWaveChain.cfg` | violation | EventuallyFlushed |
| wave_chain3 | `MCDmmWaveChain3.cfg` | violation | OneFramePerWave |
| graph_core | `MCDmmGraph.cfg` | pass | TypeOK, RefsMatch, GraphWellFormed, HookPeered, PvtOutAccurate, SendReachesPeers |
| graph_rm_self | `MCDmmGraphRmSelf.cfg` | violation | SendWalkSafe |
| se_core | `MCDmmSockEvent.cfg` | pass | TypeOK, SeRefsMatch, EpollMatchesObjects, TriggerReachesAll, ImplementsService |
| se_trigger_enomem | `MCDmmSockEventTrigNoMem.cfg` | violation | SeRefsMatch |
| starter_core | `MCDmmStarter.cfg` | pass | TypeOK, ArgsFresh, PipelineBuilt, StarterMemorySafe, StarterQuiesces |
| starter_cpu_race | `MCDmmStarterCpuRace.cfg` | violation | PrevValInBounds |

What the properties say:
- **RefsMatchHolders**: a timer's reference count equals the number of its
  holders. The holders are the creation reference, the trigger list, one per
  subscriber record, and the trigger loop. Breaking it takes a TIMERRM while
  the loop or subscribers hold the timer.
- **SetHonoured**: a timer set by TIMERSET stays on the trigger list until it
  fires or is removed. It is never more than one late wake-up (`Lag`) past
  its time. This is spec section 8's law, `timer_set` then firing within
  coalesce, allowing for epoll lateness.
- **PassTerminates**: every trigger pass returns to `epoll_wait`, including
  when periodic timers are re-armed inside the pass.
- **TriggerWalksSafe**: neither walk that a TIMER_TRIGGER handler runs
  inside steps onto memory the handler freed. TLC's shortest counterexample
  frees a subscriber record (finding 2). Removing the saved next timer
  (finding 3) is reached in 16 states, as checked with that fault alone.
- **WfRefsMatch**: the wave-finish event's count equals its holders: one
  per record, plus the lookup during the broadcast. After the wave it is 0,
  so the event is neither leaked nor released twice.
- **OneFramePerWave**: each wavebuf sends at most one frame per wave (spec
  scenario 2).
- **WaveCoalesced**: at the end of a wave no wavebuf still holds a frame.
- **EventuallyFlushed**: whatever a wavebuf buffers is eventually sent on.
- **TypeOK** (DmmGraph) includes that no node or hook count is ever released
  below zero (spec invariant 3).
- **RefsMatch**: every node and hook count equals its holders. A hook is
  held by each peer record naming it and by `dmm_data_send`. A node is held
  by its creation reference, its hooks, and `dmm_msg_apply` during a send.
  No unref assertion fires (spec invariants 4 and 5).
- **GraphWellFormed**: peer records are symmetric, join an out hook to an in
  hook, join valid hooks only, and are never duplicated. This holds also
  after a connect whose second record failed to allocate.
- **HookPeered**: between messages, every hook is valid and peered (spec
  invariant 1). A failed connect leaves no orphan hook.
- **PvtOutAccurate**: a node type's out-hook pointer is exactly its live
  `out` hook. It is never dangling and never lost.
- **SendWalkSafe** (graph_rm_self only): `dmm_data_send` never reads a
  freed peer record.
- **SendReachesPeers** (action property): when a send ends, every peer that
  stayed connected throughout got the frame exactly once, and no hook got it
  twice.
- **SeRefsMatch**: every socket-event object's count equals its subscriber
  records. No release finds the count at zero or subscribers left at zero.
  This holds through EEXIST joins, failed subscriptions, removals during a
  broadcast and node removal.
- **EpollMatchesObjects**: every epoll registration points at a live object
  for its descriptor, because `dmm_sockevent_process` uses `data.ptr`
  without a reference. Every live object of the open description is the
  one epoll reports.
- **TriggerReachesAll** (action property): a SOCKEVENTTRIGGER broadcast
  hands each node that stays subscribed exactly one copy (spec scenario 4).
- **ImplementsService**: DmmSockEvent refines SockEventService under the
  mapping above.
- **ArgsFresh**: every command the starter sends names only nodes and
  timers that exist when it is sent. The ids are read into the commands
  when they are queued, before the commands that create them have run.
- **PipelineBuilt**: after a STARTUP with no failure, the three nodes exist
  with their types and both connections to dbgprinter are made, and both
  sensors hold their out hook. A module whose load failed only gets a log
  line from `main()`, so this holds only because the NODECREATE for a
  missing type makes the starter exit. While the
  timer lives, it is armed, with ifdata, cpuload and the starter subscribed
  in that order.
- **StarterMemorySafe**: no NULL timer dereference, and no read of a freed
  command or subscriber record. The starter's TIMERRM runs inside the
  timer's broadcast. It is safe only because the starter subscribes last.
- **PrevValInBounds** (starter_cpu_race only): cpuload never indexes
  `prev_val` past its allocation, whatever CPUs come and go between or
  during its reads of `/proc/stat`. The code recounts on every mismatch
  and frees `prev_val` when `numcore_changed`, so each recount is meant to
  be followed by a reallocation before the values are indexed.
- **StarterQuiesces** (liveness): if no allocation fails, the starter
  eventually has an empty queue and no timer, or has exited on an error
  response.

**Findings** (details in `PROJECT.json`):
1. A TIMERSET a handler makes on its own timer is overwritten by the
   post-trigger re-arm. A periodic timer re-set as one-shot is lost.
2. Unsubscribing the next subscriber inside a broadcast is a use-after-free
   in `dmm_event_sendsubscribed`. So is removing the broadcasting timer while
   not its last subscriber. The spec says broadcasts iterate a snapshot.
3. Removing the next due timer inside a trigger handler is a use-after-free
   in `dmm_timers_trigger`.
4. (No run: a single request reaches it.) TIMERSET, TIMERSUBSCRIBE or
   TIMERUNSUBSCRIBE with a removed timer's id dereference NULL. This is a
   hazard in `PROJECT.json`.
5. (No run: a single request reaches it.) CHANGEINTERVALONLY on a
   never-armed timer fails the zero-next assertion. This is a hazard in
   `PROJECT.json`.
6. Chained wavebufs, downstream one fed by the last WAVEFINISH subscriber:
   the downstream subscription lands after the broadcast's saved NULL next
   and is torn down undelivered. Its buffer is never flushed again, because
   `rcvdata` subscribes only when the buffer is empty.
7. Chained wavebufs, upstream one not last: the downstream wavebuf is
   subscribed twice and sends two frames in one wave.
8. A receiving handler that removes its own node, or disconnects itself from
   the sender, frees the peer record `dmm_data_send` reads the next pointer
   from (`dmm_base.c:609`). spec.md allows a node to remove itself at any
   time from within a handler.
9. When the trigger message cannot be allocated, `dmm_sockevent_trigger`
   UNREFs an object `dmm_sockevent_process` took no reference on
   (`dmm_sockevent.c:168`). With one subscriber the count reaches zero with
   the subscriber still attached, and `dmm_event_unref`'s assertion fails.
   The intended outcome is that the main loop returns ENOMEM.
10. cpuload's `fill_prev` recounts `num_cores` when a cpu line is missing
    but goes on with the old `prev_val` (`cpuload.c:152`). If a later read
    of the same pass sees more CPUs than were allocated for, and the pass
    then ends on a non-cpu line, `prev_val_filled` is set with `prev_val`
    too small, and the next trigger writes past it (lines 226 and 264).
    TLC's trace: two CPUs at the ctor, then one and three within the first
    trigger, and the overrun on the second.
11. (No run.) wavebuf's `rmhook` clears its out-hook pointer when any hook
    is freed, in hooks included (`wavebuf.c:68`). Disconnecting its
    upstream makes a still-connected wavebuf drop every later frame.
    PvtOutAccurate, checked for prepend and cpuload in graph_core, is
    violated with a wavebuf in three steps; it is kept as a hazard.

The starter stalls for good when an allocation fails. This is checked by
hand, not by a run. `StarterQuiesces` assumes no allocation fails. Without
that antecedent, TLC shows the stall right after `Startup`:
- If `create_msg` or the copy fails, the command stays at the head with
  `is_waiting` 0, and later `add_command` calls only queue. If the
  runtime cannot allocate the response, the starter waits forever.
- `process_startup_message` ignores every result and returns 0, so
  `dmm_startup` never reports "Startup finished with errors".
- Once the queue has stalled, every trigger from the fifth on queues
  another TIMERRM.

Two early-close hazards are checked by hand, not by a run. No module in
`src/modules` closes a descriptor it is still subscribed to. With
`CloseAny = TRUE`:
- close, then unsubscribe: DEL fails with EBADF, and the destructor's
  assertion allows only ENOENT (`dmm_sockevent.c:150`). Spec 4.7 says this
  is tolerated. TLC reaches it in 5 states.
- close, reopen with the same number, subscribe another node, then remove
  the first node: the old object's destructor DELs the new registration, and
  EpollMatchesObjects fails. TLC reaches it in 7 states.

**Bounds.**
- Two nodes: enough for a broadcast with a saved next record.
- Two timer ids: enough for a saved next timer and for two timers with equal
  times.
- Three messages per handler: the starter's create, set and subscribe.
- `next` in {0, 2}, intervals in {0, 2}: one-shot and periodic timers, with
  times that can coincide.
- `Lag` = 1.
- `MinDue` = -3: time steps are guarded so that no registered timer falls
  below it.

The core run, with node removal, explores about 540 000 states in about a
minute.

DmmWave bounds:
- The passing topology has four sources, three wavebufs and one sink. Some
  sources are shared between wavebufs, and some sources also feed the sink
  directly. That gives every emission order and every subscription order
  for one layer.
- The two chain topologies are the smallest that show findings 6 and 7.

DmmGraph bounds:
- Three nodes: a cpuload source, a prepend (a wavebuf in graph_rm_self)
  and a blackhole sink. Hook names are "in" and "out". That gives:
  - chains and fan-out (cpuload to prepend and to blackhole);
  - rejected hooks (cpuload refuses in hooks, prepend refuses wrong names);
  - a blackhole with two in hooks;
  - a third node for a handler to remove or connect while two others are
    mid-send.
- The core run explores about 46 500 states in under two minutes.
- The state space is finite without a bound, because buffers are sets of
  frames.

DmmSockEvent bounds:
- Two nodes, so a broadcast has a saved next record, and a join can be an
  EEXIST of another node.
- Two descriptor numbers, each opened at most twice (`MaxGen` = 2). That
  gives reuse of a number.
- Three object slots: two live objects, plus the allocation an EEXIST
  frees again.
- Two masks, so a join may MOD the registration.
- About 300 000 states in 15 seconds, with symmetry over the nodes.

DmmStarter bounds:
- Three configuration files:
  - the pipeline's (the four modules, with `#`, blank and `--` lines);
  - the same with ifdata's module listed twice;
  - one with a blank line after the first `==`.
- Each module load may fail. Every module whose type the pipeline needs is
  in each file, so both the complete registry and every incomplete one are
  reached.
- The script is the code's. Any one allocation or action of each handler
  may fail.
- `MaxTT` = 24 triggers: five lead to the TIMERRM, and the rest let a
  stalled queue grow after it.
- `MaxCores` = 2, `MaxHotplug` = 2 and `InReads` = 2: a CPU goes away
  and comes back, before, between or during triggers.
- `MaxLost` = 1: one lost broadcast copy.
- `NumStates` = 2, `NetIfs` = 2.
- About 25 500 states in about a minute.
- The race run (`MCDmmStarterCpuRace.cfg`) takes the pipeline file only,
  `MaxCores` = 3 and `InReads` = 3. Three CPU counts are the fewest that
  show the overrun: one to allocate for, a smaller one to take the
  fewer-cores branch, and a larger one to outgrow the allocation.

**Fairness.**
- Weak fairness on every step of the trigger pass, on the broadcast, and on
  handler return. The code runs these to completion without blocking.
- Strong fairness on `TimeoutWake`. `epoll_wait` with a finite timeout does
  return at the timeout, even if socket events and EINTR keep interrupting
  it, because the clock advances.
- No fairness on socket wake-ups or on messages.
- In DmmWave, weak fairness on `WaveStart` assumes a periodic timer keeps
  producing waves. Weak fairness on the finish steps holds because
  `dmm_wave_finish` runs to completion. Sources have no fairness: a wave may
  carry no data.

- DmmGraph and DmmSockEvent check safety only, with no fairness.
- DmmStarter has weak fairness on `Load`, `Startup` and `Trigger`.
  `main()` runs straight on to `dmm_startup`. The STARTUP message is sent
  before the main loop starts. An armed periodic timer keeps firing.
  `Hotplug` has no fairness. `starter_core` runs with
  `CHECK_DEADLOCK FALSE`: after the TIMERRM nothing is armed and no socket
  is subscribed, so the daemon blocks in `epoll_wait(-1)`
  (`dmm_base.c:1019`). That is where `StarterQuiesces` says it ends.

`timer_core` runs with `CHECK_DEADLOCK FALSE`. With every node removed and
no timer armed, the loop calls `epoll_wait(-1)` and blocks for good
(`dmm_base.c:1019`). That is real behaviour of an idle daemon. Crashes in
that run would still show up, as a violation of PassTerminates.
`se_core` runs with `CHECK_DEADLOCK FALSE` for the same reason: once its
bounds are used up, nothing is registered and the daemon waits.

## 4. Not modelled, and why

- `dmm_main.c`'s command line, `set_defaults` and `dmm_initialize`.
  `dmm_log.c` and the formatting in modules. All are text I/O with no
  concurrency.
- Configuration lines are abstracted to their kind and length.
- `dlopen` itself is an input: a load succeeds or fails.
- A second `dlopen` of the same file is modelled by its effects: init runs
  again, and the module's types are refused with EEXIST.
- The disagreement with spec.md section 6 over the starter line is recorded
  as a hazard (`dmm_main.c:115`), not as a run. The code takes the line
  right after `==`, even when it is blank, and so exits on such a file.
- The Lua control module and its bridge: an embedded interpreter.
- The memory, edac and dummy sensors. No configuration in `src/` creates
  them, and their handlers read `/proc` and send like ifdata's.
- Interfaces appearing in `/proc/net/dev` after init (`NetIfs` is fixed).
- A second cpuload node sharing the static `num_cores`: the starter creates
  only one.
- ifdata's `rmhook`, which stores the removed hook rather than NULL: the
  starter never disconnects.
- Which CPU a `/proc/stat` line names, and the counter values. The code
  matches CPUs by position (its id check is compiled out), so a swap of
  one CPU for another between triggers is a hazard with no property.
- Processing and network modules: data transformations on frames. Their
  control behaviour is subscribing to one timer or one socket, which the
  handler abstraction already covers.
- Allocation failures other than peer records (DmmGraph), the socket event
  paths (DmmSockEvent) and the starter's commands, messages and responses
  (DmmStarter). Elsewhere they only return an error with nothing changed.
  A broadcast copy that fails to allocate (`dmm_event.c:157`) makes one
  subscriber miss a trigger. It is modelled in DmmStarter (`lost`);
  the hazard is checked by StarterQuiesces, since the starter's own
  missed triggers only delay its TIMERRM.
- The starter's `#if 0` commands, its unused net/ip and wave-finish command
  builders, `dtor` and `newhook`: compiled out, never called, or change no
  modelled state. The other subscribers' TIMER_TRIGGER handlers are left
  out of DmmStarter, which models only the starter's.
- Sub-millisecond time. The early wake-up that `force_trigger` exists for
  cannot happen in the model. It is listed as a hazard with no property.
