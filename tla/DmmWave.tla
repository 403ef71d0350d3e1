------------------------------- MODULE DmmWave -------------------------------
(***************************************************************************)
(* Waves (src/dmm_wave.c) and the wavebuf node type                        *)
(* (src/modules/wavebuf/wavebuf.c) that coalesces the frames it receives  *)
(* in one wave into a single frame sent at the wave's end.                *)
(*                                                                         *)
(* Each main-loop iteration is one wave: dmm_wave_start, then source      *)
(* nodes (sensors triggered by a timer or a socket) send frames that      *)
(* reach their peers synchronously through dmm_data_send, then            *)
(* dmm_wave_finish broadcasts WAVEFINISH to the wave's wave-finish event. *)
(* A wavebuf subscribes to that event, by a WAVEFINISHSUBSCRIBE message   *)
(* to itself, when a frame arrives while its buffer is empty; on          *)
(* WAVEFINISH it sends the concatenation of its buffer on its out hook.   *)
(* A frame is abstracted to the set of sources whose data it carries, and *)
(* a wavebuf's buffer to the set of frames in it: concatenation is their  *)
(* union, and the buffer is empty exactly when the set is.                *)
(***************************************************************************)
EXTENDS Integers, Sequences, FiniteSets, TLC

CONSTANTS
    Sources,   \* nodes that send one frame of their own when stimulated
    Bufs,      \* wavebuf nodes
    Sinks,     \* nodes that consume frames
    Peers      \* Peers[n]: in-hook owners on n's out hook, in list order

ASSUME /\ Sources \cap Bufs = {} /\ Bufs \cap Sinks = {}
       /\ Sources \cap Sinks = {}
       /\ \A n \in Sources \cup Bufs : Peers[n] \in Seq(Bufs \cup Sinks)

Frame == SUBSET Sources

VARIABLES
    pc,        \* "idle" (epoll_wait), "wave" (stimulus processing), "finish"
    wfExists,  \* a wave-finish event for the current wave is on wavefinishlist
    wfSubs,    \* its ev_nodes list
    wfRefs,    \* its ev_refs
    cur,       \* record index dmm_event_sendsubscribed visits (0 = done)
    buf,       \* the databuf list of each wavebuf
    emitted,   \* sources that sent a frame in this wave
    sent,      \* frames each wavebuf sent in this wave
    got        \* sources whose data each sink received in this wave

vars == <<pc, wfExists, wfSubs, wfRefs, cur, buf, emitted, sent, got>>

TypeOK ==
    /\ pc \in {"idle", "wave", "finish"}
    /\ wfExists \in BOOLEAN
    /\ wfSubs \in Seq(Bufs)
    /\ wfRefs \in Nat
    /\ cur \in 0..Len(wfSubs)
    /\ buf \in [Bufs -> SUBSET Frame]
    /\ emitted \subseteq Sources
    /\ sent \in [Bufs -> Nat]
    /\ got \in [Sinks -> Frame]

-----------------------------------------------------------------------------
(* The data path, as a function of the state it changes:                  *)
(* [buf, subs, exists, refs, got].                                         *)

\* Mutants of dmm_wavefinish_subscribe: the joining subscription is lost;
\* a lookup that misses the current event and starts a new one; the new
\* event keeps its init reference.
SubscribeJoinLost(st, w) ==
    IF st.exists THEN st
    ELSE [st EXCEPT !.exists = TRUE, !.subs = <<w>>, !.refs = 1]
SubscribeNewOnly(st, w) ==
    [st EXCEPT !.exists = TRUE, !.subs = <<w>>, !.refs = 1]
SubscribeNewNoUnref(st, w) ==
    IF st.exists THEN [st EXCEPT !.subs = Append(@, w), !.refs = @ + 1]
    ELSE [st EXCEPT !.exists = TRUE, !.subs = <<w>>, !.refs = 2]

\* dmm_wavefinish_subscribe: join the current wave's event (id2ref REF,
\* subscribe, UNREF) or create it (init, insert, subscribe, UNREF).  The
\* subscribe is dmm_event_subscribe, not the checked one.
Subscribe(st, w) ==
    IF st.exists
    THEN [st EXCEPT !.subs = Append(@, w), !.refs = @ + 1 + 1 - 1]
    ELSE [st EXCEPT !.exists = TRUE, !.subs = <<w>>, !.refs = 1 + 1 - 1]

\* Mutant of rcvdata: subscribe on every frame, not just the first.
RcvDataAlways(st, p, f) ==
    IF p \in Sinks THEN [st EXCEPT !.got[p] = @ \cup f]
    ELSE [Subscribe(st, p) EXCEPT !.buf[p] = @ \cup {f}]

\* wavebuf rcvdata: subscribe to wave finish if the buffer is empty, then
\* queue the frame; a sink just takes the frame.
RcvData(st, p, f) ==
    IF p \in Sinks THEN [st EXCEPT !.got[p] = @ \cup f]
    ELSE LET st1 == IF st.buf[p] = {} THEN Subscribe(st, p) ELSE st
         IN  [st1 EXCEPT !.buf[p] = @ \cup {f}]

\* dmm_data_send: pass the frame to every peer of the out hook in order.
RECURSIVE SendTo(_, _, _)
SendTo(st, f, ps) ==
    IF ps = <<>> THEN st ELSE SendTo(RcvData(st, Head(ps), f), f, Tail(ps))

\* The concatenation of a wavebuf's buffered frames (rcvmsg's STAILQ walks).
Concat(fs) == UNION fs

DataState == [buf |-> buf, subs |-> wfSubs, exists |-> wfExists,
              refs |-> wfRefs, got |-> got]

\* The step changes the data state to st.
Becomes(st) ==
    /\ buf' = st.buf /\ wfSubs' = st.subs /\ wfExists' = st.exists
    /\ wfRefs' = st.refs /\ got' = st.got

-----------------------------------------------------------------------------

\* dmm_wave_start, then the stimulus reaches the sources.
WaveStart ==
    /\ pc = "idle"
    /\ pc' = "wave"
    /\ emitted' = {} /\ sent' = [w \in Bufs |-> 0]
    /\ got' = [k \in Sinks |-> {}]
    /\ UNCHANGED <<wfExists, wfSubs, wfRefs, cur, buf>>

\* Source s sends a frame of its own data (DMM_DATA_SEND on its out hook).
Emit(s) ==
    /\ pc = "wave" /\ s \notin emitted
    /\ Becomes(SendTo(DataState, {s}, Peers[s]))
    /\ emitted' = emitted \cup {s}
    /\ UNCHANGED <<pc, cur, sent>>

\* dmm_wave_finish: look up the current wave's event (REF) and start the
\* WAVEFINISH broadcast; without one the wave just ends.
WaveFinish ==
    /\ pc = "wave"
    /\ IF wfExists
       THEN /\ pc' = "finish" /\ cur' = 1
            /\ wfRefs' = wfRefs + 1
       ELSE /\ pc' = "idle"
            /\ UNCHANGED <<cur, wfRefs>>
    /\ UNCHANGED <<wfExists, wfSubs, buf, emitted, sent, got>>

\* The broadcast visits record cur, saving the next record first; the
\* wavebuf's rcvmsg drains its buffer and sends one frame (possibly empty)
\* on its out hook.  Records appended by the downstream subscriptions are
\* reached only if the walk had not saved NULL.
FinishDeliver ==
    /\ pc = "finish" /\ cur # 0
    /\ LET w == wfSubs[cur]
           saved == IF cur < Len(wfSubs) THEN cur + 1 ELSE 0
       IN  /\ Becomes(SendTo([DataState EXCEPT !.buf[w] = {}],
                              Concat(buf[w]), Peers[w]))
           /\ cur' = saved
           /\ sent' = [sent EXCEPT ![w] = @ + 1]
    /\ UNCHANGED <<pc, emitted>>

\* Mutant: one reference too many dropped at teardown.
FinishRefsDoubleUnref == wfRefs - Len(wfSubs) - 2

\* References left after unsubscribeall and the UNREF of dmm_wavefinish_rm.
FinishRefs == wfRefs - Len(wfSubs) - 1

\* After the broadcast: dmm_event_unsubscribeall, then dmm_wavefinish_rm
\* (unsubscribe all again, unlink, UNREF: at zero the destructor frees it).
\* The event is off wavefinishlist whatever its count.
FinishEnd ==
    /\ pc = "finish" /\ cur = 0
    /\ wfRefs' = FinishRefs
    /\ wfExists' = FALSE
    /\ wfSubs' = <<>>
    /\ pc' = "idle"
    /\ UNCHANGED <<cur, buf, emitted, sent, got>>

Init ==
    /\ pc = "idle"
    /\ wfExists = FALSE /\ wfSubs = <<>> /\ wfRefs = 0 /\ cur = 0
    /\ buf = [w \in Bufs |-> {}]
    /\ emitted = {} /\ sent = [w \in Bufs |-> 0]
    /\ got = [k \in Sinks |-> {}]

Next ==
    \/ WaveStart \/ (\E s \in Sources : Emit(s)) \/ WaveFinish
    \/ FinishDeliver \/ FinishEnd

\* Waves keep coming (a periodic timer drives the sources) and every wave
\* runs to its end.
Spec == Init /\ [][Next]_vars /\ WF_vars(WaveStart) /\ WF_vars(WaveFinish)
                /\ WF_vars(FinishDeliver) /\ WF_vars(FinishEnd)

-----------------------------------------------------------------------------
(* Properties                                                              *)

\* The wave-finish event's count is its holders: one per subscription
\* record, plus the lookup reference dmm_wave_finish holds during the
\* broadcast; once unlinked at the wave's end it has been freed (no leak,
\* no release of freed memory).
WfRefsMatch ==
    wfRefs = IF wfExists
             THEN Len(wfSubs) + (IF pc = "finish" THEN 1 ELSE 0)
             ELSE 0

\* Spec 4.8 / scenario 2: a wavebuf emits exactly one frame per wave, the
\* one its WAVEFINISH handler builds.
OneFramePerWave == \A w \in Bufs : sent[w] <= 1

\* When a wave is over, no wavebuf still holds a frame received in it:
\* every frame was coalesced into the wave's outgoing frame.
WaveCoalesced == pc = "idle" => \A w \in Bufs : buf[w] = {}

\* Whatever a wavebuf buffers is eventually sent on (rcvdata's subscription
\* and rcvmsg's flush).
EventuallyFlushed == \A w \in Bufs : buf[w] # {} ~> buf[w] = {}

=============================================================================
