------------------------------- MODULE DmmGraph -------------------------------
(***************************************************************************)
(* The node and hook graph of src/dmm_base.c: nodes, their in and out      *)
(* hooks, the symmetric peer records between hooks, and the reference     *)
(* counts that govern their lifetimes (dmm_base.h); the generic NODECREATE,*)
(* NODECONNECT, NODEDISCONNECT and NODERM messages; the newhook and rmhook *)
(* callbacks of the node types; and dmm_data_send, whose receiving         *)
(* handlers may change the graph while the peer list is being walked.     *)
(*                                                                         *)
(* Every graph operation is an operator from one graph state G to the     *)
(* next, so that a message handler, with all the calls it makes, is one   *)
(* step, whether it runs at top level or nested inside a data send.       *)
(***************************************************************************)
EXTENDS Integers, Sequences, FiniteSets
LOCAL INSTANCE SequencesExt

CONSTANTS
    Nodes,      \* node slots, in creation order of ids
    NodeType,   \* NodeType[n]: "wavebuf", "prepend", "cpuload" or "blackhole"
    Names,      \* hook names used in connect and disconnect requests
    NoHook,     \* NULL hook pointer
    AllocFail,  \* whether DMM_MALLOC of a peer record may fail
    RcvOps      \* what a receiving rcvdata handler may do to the graph

Dirs == {"IN", "OUT"}
Hooks == Nodes \X Dirs \X Names   \* a hook is named by owner, direction, name
Owner(h) == h[1]
Keepers == {"wavebuf", "prepend", "cpuload"}  \* types keeping an out-hook pointer

ASSUME RcvOps \subseteq {"connect", "disconnect_other", "rm_other",
                         "disconnect_self", "rm_self"}

VARIABLES
    g,      \* the graph: see GraphState
    pc,     \* "idle", or "deliver" while dmm_data_send walks the peer list
    sh,     \* the out hook dmm_data_send sends on
    cp,     \* the peer the walk is at (hp->hp_peer)
    stay,   \* ghost: peers of sh present since the send started
    cnt     \* ghost: frames each hook received in this send

vars == <<g, pc, sh, cp, stay, cnt>>

GraphState == [
    nd: [Nodes -> {"unused", "live", "invalid", "freed"}],  \* nd_flags, lifetime
    ndRefs: [Nodes -> Int],                                  \* nd_refs
    hk: [Hooks -> {"none", "live", "invalid"}],              \* allocated, hk_flags
    hkRefs: [Hooks -> Int],                                  \* hk_refs
    peers: [Hooks -> Seq(Hooks)],                            \* hk_peers
    pvt: [Nodes -> Hooks \cup {NoHook}],                     \* the type's out-hook pointer
    rec: Hooks \X Hooks \cup {<<>>},                         \* record the walk stands on
    recLive: BOOLEAN,                                        \* it has not been freed
    fault: {"none", "refs_below_zero", "node_hooks_at_zero",
            "hook_peers_at_zero", "uaf_peer_record", "uaf_pvt_hook"}]

Err == {"ok", "EINVAL", "ENOENT", "EEXIST", "ENOMEM"}

-----------------------------------------------------------------------------
(* The node types' callbacks                                               *)

\* wavebuf newhook: any in hook; the out hook must be named "out".
NewhookWavebuf(dir, name) == dir = "IN" \/ name = "out"
\* prepend newhook: in hook "in", out hook "out".
NewhookPrepend(dir, name) == IF dir = "IN" THEN name = "in" ELSE name = "out"
\* cpuload newhook: only an out hook named "out".
NewhookCpuload(dir, name) == dir = "OUT" /\ name = "out"
\* blackhole newhook: in hooks only.
NewhookBlackhole(dir, name) == dir = "IN"

Newhook(t, dir, name) ==
    CASE t = "wavebuf" -> NewhookWavebuf(dir, name)
      [] t = "prepend" -> NewhookPrepend(dir, name)
      [] t = "cpuload" -> NewhookCpuload(dir, name)
      [] t = "blackhole" -> NewhookBlackhole(dir, name)

\* wavebuf rmhook: clears its out-hook pointer, whatever hook is freed.
RmhookWavebuf(p, h) == NoHook
\* Mutant: prepend's rmhook without its direction check.
RmhookPrependAny(p, h) == NoHook
\* prepend rmhook: clears the out-hook pointer when the out hook is freed.
RmhookPrepend(p, h) == IF h[2] = "OUT" THEN NoHook ELSE p
\* cpuload rmhook: clears its hook pointer (it has no in hooks).
RmhookCpuload(p, h) == NoHook

Rmhook(t, p, h) ==
    CASE t = "wavebuf" -> RmhookWavebuf(p, h)
      [] t = "prepend" -> RmhookPrepend(p, h)
      [] t = "cpuload" -> RmhookCpuload(p, h)
      [] t = "blackhole" -> p

-----------------------------------------------------------------------------
(* Reference counts (dmm_memman.h, dmm_base.h)                             *)

Fail(G, f) == IF G.fault = "none" THEN [G EXCEPT !.fault = f] ELSE G

\* Hooks on a node's nd_inhooks or nd_outhooks list.
HooksOf(G, n, dir) == {h \in Hooks : Owner(h) = n /\ h[2] = dir /\ G.hk[h] # "none"}
AllHooksOf(G, n) == HooksOf(G, n, "IN") \cup HooksOf(G, n, "OUT")

NodeRef(G, n) == [G EXCEPT !.ndRefs[n] = @ + 1]
HookRef(G, h) == [G EXCEPT !.hkRefs[h] = @ + 1]

\* A count is the number of its holders; releasing at zero trips the assert
\* in dmm_refrelease (a 32-bit count would wrap), recorded as -1 and a fault.
\* dmm_node_unref: at zero, assert both hook lists are empty, run the
\* destructor and free the node.
NodeUnref(G, n) ==
    IF G.ndRefs[n] <= 0 THEN Fail([G EXCEPT !.ndRefs[n] = @ - 1], "refs_below_zero")
    ELSE IF G.ndRefs[n] > 1 THEN [G EXCEPT !.ndRefs[n] = @ - 1]
    ELSE LET G1 == [G EXCEPT !.ndRefs[n] = 0, !.nd[n] = "freed"]
         IN  IF AllHooksOf(G, n) # {} THEN Fail(G1, "node_hooks_at_zero") ELSE G1

\* dmm_hook_unref: at zero, assert the peer list is empty, call the type's
\* rmhook, unlink the hook from its node, free it and release the node.
HookUnref(G, h) ==
    IF G.hkRefs[h] <= 0 THEN Fail([G EXCEPT !.hkRefs[h] = @ - 1], "refs_below_zero")
    ELSE IF G.hkRefs[h] > 1 THEN [G EXCEPT !.hkRefs[h] = @ - 1]
    ELSE LET n == Owner(h)
             G1 == [G EXCEPT !.hkRefs[h] = 0, !.hk[h] = "none",
                       !.pvt[n] = Rmhook(NodeType[n], @, h)]
         IN  NodeUnref(IF G.peers[h] # <<>> THEN Fail(G1, "hook_peers_at_zero")
                       ELSE G1, n)

-----------------------------------------------------------------------------
(* Peer records and hooks.  An operation returns [g |-> state, err |-> e].  *)

\* Mutant: the peer record does not hold a reference on its peer.
AddPeerNoRef(G, h, p, fail) ==
    IF p \in ToSet(G.peers[h]) THEN [g |-> G, err |-> "EEXIST"]
    ELSE IF fail THEN [g |-> G, err |-> "ENOMEM"]
    ELSE [g |-> [G EXCEPT !.peers[h] = <<p>> \o @], err |-> "ok"]

\* dmm_hook_addpeer: duplicate peering fails, the record may fail to be
\* allocated, else it goes to the head of the list and holds the peer.
AddPeer(G, h, p, fail) ==
    IF p \in ToSet(G.peers[h]) THEN [g |-> G, err |-> "EEXIST"]
    ELSE IF fail THEN [g |-> G, err |-> "ENOMEM"]
    ELSE [g |-> HookRef([G EXCEPT !.peers[h] = <<p>> \o @], p), err |-> "ok"]

\* dmm_hook_rmpeer: unlink and free the record, release the peer.
RmPeer(G, h, p) ==
    IF p \notin ToSet(G.peers[h]) THEN [g |-> G, err |-> "ENOENT"]
    ELSE [g |-> HookUnref([G EXCEPT !.peers[h] = Remove(@, p),
                                    !.recLive = @ /\ G.rec # <<h, p>>], p),
          err |-> "ok"]

\* Mutant: the name comparison always matches, so the first hook of the
\* direction on the node's list is found.
HookFindAnyName(G, n, dir, name) ==
    LET live == {x \in HooksOf(G, n, dir) : G.hk[x] = "live"}
        h == CHOOSE x \in live : TRUE
    IN  IF live # {} THEN [g |-> HookRef(G, h), err |-> "ok", h |-> h]
        ELSE [g |-> G, err |-> "ENOENT", h |-> NoHook]

\* dmm_hook_find: a valid hook of that direction and name, referenced.
HookFind(G, n, dir, name) ==
    LET h == <<n, dir, name>>
    IN  IF G.hk[h] = "live" THEN [g |-> HookRef(G, h), err |-> "ok", h |-> h]
        ELSE [g |-> G, err |-> "ENOENT", h |-> NoHook]

\* dmm_hook_create: the node must be valid and the type's newhook accept
\* the hook; it then holds a node reference and a temporary reference.
HookCreate(G, n, dir, name) ==
    LET h == <<n, dir, name>>
        t == NodeType[n]
    IN  IF G.nd[n] # "live" \/ ~Newhook(t, dir, name)
        THEN [g |-> G, err |-> "EINVAL", h |-> NoHook]
        ELSE [g |-> NodeRef([G EXCEPT !.hk[h] = "live", !.hkRefs[h] = 1,
                              !.pvt[n] = IF dir = "OUT" /\ t \in Keepers
                                         THEN h ELSE @], n),
              err |-> "ok", h |-> h]

\* dmm_hook_get: find, else create.
HookGet(G, n, dir, name) ==
    LET F == HookFind(G, n, dir, name)
    IN  IF F.err = "ok" THEN F ELSE HookCreate(G, n, dir, name)

\* The body of dmm_hook_rm's LIST_FOREACH_SAFE: remove each record from
\* both sides (the walk's saved next record is never one of these frees).
RECURSIVE RmBoth(_, _, _)
RmBoth(G, h, ps) ==
    IF ps = <<>> THEN G
    ELSE RmBoth(RmPeer(RmPeer(G, Head(ps), h).g, h, Head(ps)).g, h, Tail(ps))

\* Mutant: hook_rm without its protective reference.
HookRmNoRef(G, h) ==
    HookUnref(RmBoth([G EXCEPT !.hk[h] = "invalid"], h, G.peers[h]), h)

\* dmm_hook_rm: hold the hook, invalidate it, drop every peering, release.
HookRm(G, h) ==
    HookUnref(RmBoth([HookRef(G, h) EXCEPT !.hk[h] = "invalid"], h, G.peers[h]), h)

RECURSIVE HookRmAll(_, _)
HookRmAll(G, S) ==
    IF S = {} THEN G
    ELSE LET h == CHOOSE x \in S : TRUE IN HookRmAll(HookRm(G, h), S \ {h})

-----------------------------------------------------------------------------
(* Nodes and the generic graph messages                                    *)

\* dmm_node_create: a fresh id, constructed, validated, one reference.
NodeCreateOp(G, n) == [G EXCEPT !.nd[n] = "live", !.ndRefs[n] = 1]

\* dmm_node_rm: invalidate, remove in hooks, then out hooks, release the
\* creation reference.
NodeRmOp(G, n) ==
    LET G1 == [G EXCEPT !.nd[n] = "invalid"]
        G2 == HookRmAll(G1, HooksOf(G1, n, "IN"))
    IN  NodeUnref(HookRmAll(G2, HooksOf(G2, n, "OUT")), n)

\* Mutant: no rollback of the first record when the second fails.
ConnectNoRollback(G, s, sn, d, dn, f1, f2) ==
    LET S == HookGet(G, s, "OUT", sn)
        D == HookGet(S.g, d, "IN", dn)
        A == AddPeer(D.g, S.h, D.h, f1)
        B == IF A.err = "ok" THEN AddPeer(A.g, D.h, S.h, f2) ELSE A
    IN  IF S.err # "ok" THEN [g |-> G, err |-> S.err]
        ELSE IF D.err # "ok" THEN [g |-> HookUnref(D.g, S.h), err |-> D.err]
        ELSE [g |-> HookUnref(HookUnref(B.g, D.h), S.h), err |-> B.err]

\* Mutant: the source hook is not released when the destination hook
\* cannot be had.
ConnectLeakSrc(G, s, sn, d, dn, f1, f2) ==
    LET S == HookGet(G, s, "OUT", sn)
        D == HookGet(S.g, d, "IN", dn)
        A == AddPeer(D.g, S.h, D.h, f1)
        B == IF A.err = "ok" THEN AddPeer(A.g, D.h, S.h, f2) ELSE A
        R == IF A.err = "ok" /\ B.err # "ok" THEN RmPeer(B.g, S.h, D.h).g ELSE B.g
    IN  IF S.err # "ok" THEN [g |-> G, err |-> S.err]
        ELSE IF D.err # "ok" THEN [g |-> D.g, err |-> D.err]
        ELSE [g |-> HookUnref(HookUnref(R, D.h), S.h), err |-> B.err]

\* dmm_node_connect: get both hooks, peer them both ways (rolling back the
\* first record if the second fails), release the temporary references.
ConnectOp(G, s, sn, d, dn, f1, f2) ==
    LET S == HookGet(G, s, "OUT", sn)
        D == HookGet(S.g, d, "IN", dn)
        sh_ == S.h
        dh == D.h
        A == AddPeer(D.g, sh_, dh, f1)
        B == IF A.err = "ok" THEN AddPeer(A.g, dh, sh_, f2) ELSE A
        R == IF A.err = "ok" /\ B.err # "ok" THEN RmPeer(B.g, sh_, dh).g ELSE B.g
    IN  IF S.err # "ok" THEN [g |-> G, err |-> S.err]
        ELSE IF D.err # "ok" THEN [g |-> HookUnref(D.g, sh_), err |-> D.err]
        ELSE [g |-> HookUnref(HookUnref(R, dh), sh_), err |-> B.err]

\* dmm_node_disconnect: both nodes valid, both hooks found; remove both
\* records even if the first is missing; release the found hooks.
DisconnectOp(G, s, sn, d, dn) ==
    LET S == HookFind(G, s, "OUT", sn)
        D == HookFind(S.g, d, "IN", dn)
        sh_ == S.h
        dh == D.h
        R == RmPeer(RmPeer(D.g, sh_, dh).g, dh, sh_)
    IN  IF G.nd[s] # "live" \/ G.nd[d] # "live" THEN [g |-> G, err |-> "EINVAL"]
        ELSE IF S.err # "ok" THEN [g |-> G, err |-> "ENOENT"]
        ELSE IF D.err # "ok" THEN [g |-> HookUnref(D.g, sh_), err |-> "ENOENT"]
        ELSE [g |-> HookUnref(HookUnref(R.g, dh), sh_), err |-> R.err]

\* A node reachable by id or address: on the node list, valid or not.
Listed(G, n) == G.nd[n] \in {"live", "invalid"}

\* dmm_msg_send_id and dmm_msg_apply: look the node up (REF), apply the
\* generic handler if the node is valid, release it.  H is the handler's
\* result from the state NodeRef(G, n).
Apply(G, n, H) ==
    IF ~Listed(G, n) THEN G
    ELSE NodeUnref(IF G.nd[n] = "live" THEN H ELSE NodeRef(G, n), n)

\* The destination address resolved by dmm_node_addr2ref (REF ... UNREF);
\* H is the result of the request from the state NodeRef(G, d).
WithDst(G, d, H) == IF ~Listed(G, d) THEN G ELSE NodeUnref(H, d)

\* NODECONNECT, NODEDISCONNECT and NODERM as sent to node s (or n).
SendConnect(G, s, sn, d, dn, f1, f2) ==
    LET G1 == NodeRef(G, s)
    IN  Apply(G, s, WithDst(G1, d, ConnectOp(NodeRef(G1, d), s, sn, d, dn, f1, f2).g))
SendDisconnect(G, s, sn, d, dn) ==
    LET G1 == NodeRef(G, s)
    IN  Apply(G, s, WithDst(G1, d, DisconnectOp(NodeRef(G1, d), s, sn, d, dn).g))
SendNodeRm(G, n) == Apply(G, n, NodeRmOp(NodeRef(G, n), n))

-----------------------------------------------------------------------------
(* dmm_data_send and the receiving handlers                                *)

\* What a receiving handler of hook p, sent to from hook h, may do to the
\* graph: nothing, or one generic graph message (RcvOps) sent
\* synchronously with DMM_MSG_SEND_ID.  An out hook of the sender's node
\* is named by its name, the receiver's in hook likewise.
HandlerResults(G, h, p) ==
    LET r == Owner(p)
        s == Owner(h)
    IN  {G}
        \cup (IF "rm_self" \in RcvOps THEN {SendNodeRm(G, r)} ELSE {})
        \cup (IF "disconnect_self" \in RcvOps
              THEN {SendDisconnect(G, s, h[3], r, p[3])} ELSE {})
        \cup (IF "rm_other" \in RcvOps
              THEN {SendNodeRm(G, m) : m \in Nodes \ {r, s}} ELSE {})
        \cup (IF "connect" \in RcvOps
              THEN {SendConnect(G, a, an, b, bn, FALSE, FALSE) :
                        a \in Nodes, an \in Names, b \in Nodes, bn \in Names}
              ELSE {})
        \cup (IF "disconnect_other" \in RcvOps
              THEN {SendDisconnect(G, a, an, b, bn) :
                        <<a, an, b, bn>> \in {<<a, an, b, bn>> \in
                            Nodes \X Names \X Nodes \X Names :
                            <<<<a, "OUT", an>>, <<b, "IN", bn>>>> # <<h, p>>}}
              ELSE {})

\* Mutant: the walk steps over a record.
NextPeerSkip(ps, p) ==
    LET i == CHOOSE j \in DOMAIN ps : ps[j] = p
    IN  IF i + 1 < Len(ps) THEN ps[i + 2] ELSE NoHook

\* The record after the one for p in h's peer list, NoHook at the end.
NextPeer(ps, p) ==
    LET i == CHOOSE j \in DOMAIN ps : ps[j] = p
    IN  IF i < Len(ps) THEN ps[i + 1] ELSE NoHook

Idle == pc = "idle" /\ g.fault = "none"

\* NODECREATE from the starter: a node of n's type gets the next id.
CreateNode(n) ==
    /\ Idle /\ g.nd[n] = "unused"
    /\ g' = NodeCreateOp(g, n)
    /\ UNCHANGED <<pc, sh, cp, stay, cnt>>

\* A NODECONNECT message to node s; peer records may fail to allocate.
Connect(s, sn, d, dn) ==
    /\ Idle
    /\ \E f1, f2 \in IF AllocFail THEN BOOLEAN ELSE {FALSE} :
          g' = SendConnect(g, s, sn, d, dn, f1, f2)
    /\ UNCHANGED <<pc, sh, cp, stay, cnt>>

\* A NODEDISCONNECT message to node s.
Disconnect(s, sn, d, dn) ==
    /\ Idle
    /\ g' = SendDisconnect(g, s, sn, d, dn)
    /\ UNCHANGED <<pc, sh, cp, stay, cnt>>

\* A NODERM message to node n.
RemoveNode(n) ==
    /\ Idle
    /\ g' = SendNodeRm(g, n)
    /\ UNCHANGED <<pc, sh, cp, stay, cnt>>

\* A handler of node n (applied under dmm_msg_apply's reference) sends a
\* frame on the out hook its private data points to: dmm_data_send
\* returns at once on an invalid hook, else holds the hook and starts the
\* walk at the first peer record.
SendStart(n) ==
    /\ Idle /\ g.nd[n] = "live" /\ NodeType[n] \in Keepers
    /\ g.pvt[n] # NoHook
    /\ LET h == g.pvt[n]
       IN  IF g.hk[h] = "none" THEN /\ g' = Fail(g, "uaf_pvt_hook")
                                    /\ UNCHANGED <<pc, sh, cp, stay, cnt>>
           ELSE IF g.hk[h] = "invalid" \/ g.peers[h] = <<>>
           THEN UNCHANGED vars
           ELSE /\ g' = [HookRef(NodeRef(g, n), h) EXCEPT
                           !.rec = <<h, Head(g.peers[h])>>, !.recLive = TRUE]
                /\ pc' = "deliver" /\ sh' = h /\ cp' = Head(g.peers[h])
                /\ stay' = ToSet(g.peers[h])
                /\ cnt' = [x \in Hooks |-> 0]

\* One iteration of the LIST_FOREACH: dmm_data_passtohook hands the frame
\* to peer cp (skipped if cp is invalid), whose rcvdata may change the
\* graph under a hook reference; then hp->hp_peerlist.le_next is read from
\* the record, which must not have been freed.  At the end of the list
\* the hook and the node are released.
Deliver ==
    /\ pc = "deliver" /\ g.fault = "none"
    /\ LET p == cp
           G0 == IF g.hk[p] = "live" THEN HookRef(g, p) ELSE g
       IN  \E G1 \in IF g.hk[p] = "live" THEN HandlerResults(G0, sh, p) ELSE {G0} :
           LET G2 == IF g.hk[p] = "live" THEN HookUnref(G1, p) ELSE G1
               nxt == NextPeer(G2.peers[sh], p)
           IN  /\ cnt' = [cnt EXCEPT ![p] = @ + 1]
               /\ stay' = stay \cap ToSet(G2.peers[sh])
               /\ UNCHANGED sh
               /\ CASE G2.fault # "none" ->
                         g' = G2 /\ UNCHANGED <<pc, cp>>
                    [] ~G2.recLive ->
                         g' = Fail(G2, "uaf_peer_record") /\ UNCHANGED <<pc, cp>>
                    [] nxt # NoHook ->
                         g' = [G2 EXCEPT !.rec = <<sh, nxt>>]
                         /\ cp' = nxt /\ UNCHANGED pc
                    [] OTHER ->
                         g' = NodeUnref(HookUnref([G2 EXCEPT !.rec = <<>>], sh),
                                        Owner(sh))
                         /\ pc' = "idle" /\ UNCHANGED cp

GraphInit == [nd |-> [n \in Nodes |-> "unused"], ndRefs |-> [n \in Nodes |-> 0],
              hk |-> [h \in Hooks |-> "none"], hkRefs |-> [h \in Hooks |-> 0],
              peers |-> [h \in Hooks |-> <<>>], pvt |-> [n \in Nodes |-> NoHook],
              rec |-> <<>>, recLive |-> FALSE, fault |-> "none"]

Init ==
    /\ g = GraphInit /\ pc = "idle"
    /\ sh = NoHook /\ cp = NoHook /\ stay = {} /\ cnt = [x \in Hooks |-> 0]

Next ==
    \/ \E n \in Nodes : CreateNode(n) \/ RemoveNode(n) \/ SendStart(n)
    \/ \E s, d \in Nodes, sn, dn \in Names :
          Connect(s, sn, d, dn) \/ Disconnect(s, sn, d, dn)
    \/ Deliver

Spec == Init /\ [][Next]_vars

-----------------------------------------------------------------------------
(* Properties                                                              *)

TypeOK ==
    /\ g.nd \in [Nodes -> {"unused", "live", "invalid", "freed"}]
    /\ g.ndRefs \in [Nodes -> Nat] /\ g.hkRefs \in [Hooks -> Nat]
    /\ g.hk \in [Hooks -> {"none", "live", "invalid"}]
    /\ \A h \in Hooks : g.peers[h] \in Seq(Hooks)
    /\ g.pvt \in [Nodes -> Hooks \cup {NoHook}]
    /\ pc \in {"idle", "deliver"}
    /\ cnt \in [Hooks -> Nat] /\ stay \subseteq Hooks

\* The hooks whose peer lists hold a record for h.
PeeredBy(h) == {q \in Hooks : h \in ToSet(g.peers[q])}

\* The reference counts are exactly their holders (spec invariants 3-5):
\* a hook is held by each peer record naming it and, while data is sent
\* on it, by dmm_data_send; a node by its creation reference until
\* NODERM, by each of its hooks and by dmm_msg_apply while its handler
\* sends.  So no count reaches zero while a holder remains, and none is
\* released below zero, whatever messages handlers send mid-send.
RefsMatch ==
    /\ \A h \in Hooks : g.hk[h] # "none" =>
          g.hkRefs[h] = Cardinality(PeeredBy(h)) + IF pc = "deliver" /\ h = sh THEN 1 ELSE 0
    /\ \A n \in Nodes : g.nd[n] \in {"live", "invalid"} =>
          g.ndRefs[n] = (IF g.nd[n] = "live" THEN 1 ELSE 0) + Cardinality(AllHooksOf(g, n))
                        + IF pc = "deliver" /\ n = Owner(sh) THEN 1 ELSE 0
    /\ g.fault \notin {"refs_below_zero", "node_hooks_at_zero", "hook_peers_at_zero"}

\* Peer records come in symmetric pairs between an out hook and an in hook,
\* both valid, never duplicated (spec: "peer records are symmetric"), also
\* after a connect whose second record failed to allocate.
GraphWellFormed ==
    \A h \in Hooks :
        /\ Len(g.peers[h]) = Cardinality(ToSet(g.peers[h]))
        /\ \A p \in ToSet(g.peers[h]) :
              h \in ToSet(g.peers[p]) /\ h[2] # p[2]
              /\ g.hk[h] = "live" /\ g.hk[p] = "live"

\* Between messages every existing hook is valid and peered (spec
\* invariant 1): a failed or rolled back connect leaves no orphan hook.
HookPeered ==
    pc = "idle" => \A h \in Hooks : g.hk[h] # "none" =>
                        g.hk[h] = "live" /\ g.peers[h] # <<>>

\* A node type's out-hook pointer is its live out hook "out" exactly:
\* never dangling (dmm_data_send on freed memory) and never lost while the
\* hook exists (the node's frames silently dropped).
PvtOutAccurate ==
    \A n \in Nodes : g.nd[n] = "live" /\ NodeType[n] \in Keepers =>
        g.pvt[n] = IF g.hk[<<n, "OUT", "out">>] = "live"
                   THEN <<n, "OUT", "out">> ELSE NoHook

\* dmm_data_send never reads the next pointer of a peer record the
\* receiving handler freed (spec: a node may remove itself at any time
\* from within a handler).
SendWalkSafe == g.fault # "uaf_peer_record"

\* A send ends with every peer that stayed connected throughout having
\* received the frame exactly once, and no hook receiving it twice.
SendReachesPeers ==
    [][pc = "deliver" /\ pc' = "idle" =>
         /\ \A p \in stay' : cnt'[p] = 1
         /\ \A p \in Hooks : cnt'[p] <= 1]_vars

=============================================================================
