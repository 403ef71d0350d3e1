------------------------------ MODULE DmmSensors ------------------------------
(***************************************************************************)
(* The nodes of the starter's pipeline, as handlers over a record X of     *)
(* the daemon's state (the module that composes them owns the variables): *)
(* the cpuload sensor (src/modules/sensors/cpuload/cpuload.c), the ifdata *)
(* sensor (src/modules/sensors/ifdata/ifdata.c) and the dbgprinter sink   *)
(* (src/modules/dbgprinter/dbgprinter.cc), with the data frames they      *)
(* exchange (dmm_message.h) and dmm_data_send.                             *)
(*                                                                         *)
(* The fields of X used here:                                              *)
(*   stat      cpu<N> lines /proc/stat listed at the last read             *)
(*   sched     the counts the handler's next reads of /proc/stat see: the  *)
(*             kernel hotplugs CPUs while a handler runs                   *)
(*   numCores  cpuload's static num_cores, shared by all cpuload nodes     *)
(*   cpu       cpuload's pvt_data: prev (cores prev_val was allocated for, *)
(*             0 for NULL), filled (prev_val_filled), hook (pvt->hook set) *)
(*   ifHook    ifdata's pvt->hook is set                                   *)
(*   numIf     ifdata's static num_interfaces, counted by its init()       *)
(*   edges     out->in connections, printed the frames dbgprinter printed  *)
(*   fault     the first memory error met                                  *)
(* A failure f names the one allocation of a handler that returns NULL:   *)
(* <<0, "cpudata">>, <<0, "prevval">> or <<0, "ifdata">>.                  *)
(***************************************************************************)
EXTENDS Integers, Sequences

CONSTANTS
    NumStates,  \* num_states: per-core counters of a /proc/stat cpu line
    NetIfs      \* interfaces listed in /proc/net/dev

Fail(X, f) == IF X.fault = "none" THEN [X EXCEPT !.fault = f] ELSE X

MinOf(a, b) == IF a <= b THEN a ELSE b

-----------------------------------------------------------------------------
(* Data frames: a sequence of data nodes, each a sensor id and a length    *)
(* in values; DMM_DN_MKEND ends it.                                         *)

Frame(sensors, width) == [i \in DOMAIN sensors |-> [sensor |-> sensors[i], len |-> width]]

CpuSensors == [s \in 1 .. NumStates |-> 499 + s]   \* CPU_USER + state
IfSensors  == <<100, 101, 102, 103>>              \* IFBYTESIN .. IFPACKETSOUT

\* dbgprinter's rcvdata: every data node of the frame goes to its handler
\* (the default one: no DBGPRINTER_SET is sent) and is printed.
DbgRcvdata(X, fr) == [X EXCEPT !.printed = @ \cup {fr}]

\* dmm_data_send on the out hook of node src: every peer's rcvdata; the
\* pipeline's only in hooks are dbgprinter's.
DataSend(X, src, fr) ==
    IF \E e \in X.edges : e[1] = src THEN DbgRcvdata(X, fr) ELSE X

-----------------------------------------------------------------------------
(* cpuload *)

NoPrev == [prev |-> 0, filled |-> FALSE, hook |-> FALSE]

\* A rewind and read of /proc/stat: it sees the next count of the
\* handler's schedule X.sched (the CPUs online at that moment), or the
\* current count when no change comes before it.
ReadStat(X) ==
    IF X.sched = <<>> THEN X
    ELSE [X EXCEPT !.stat = Head(X.sched), !.sched = Tail(X.sched)]

\* count_cores_states: reads /proc/stat again; num_cores becomes the
\* number of cpu<N> lines it lists now.
CountCoresStates(X) ==
    LET Y == ReadStat(X) IN [Y EXCEPT !.numCores = Y.stat]

\* ctor: the first cpuload node counts cores and states (num_states == 0).
CpuloadCtor(X) ==
    LET Y == IF X.numCores = 0 THEN CountCoresStates(X) ELSE X
    IN  [Y EXCEPT !.cpu = NoPrev]

\* Reading or writing prev_val[core * num_states + state] for the first n
\* cores overruns the allocation unless it was made for at least n cores.
TouchPrev(X, n) == IF n > X.cpu.prev THEN Fail(X, "prev_overflow") ELSE X

\* newhook: only an out hook named "out" is accepted; it becomes pvt->hook.
CpuloadNewhook(X) == [X EXCEPT !.cpu.hook = TRUE]

\* The "fewer cores" branch of fill_prev's for loop at core c: recount and
\* continue with the next core; the file now stands after the lines
\* count_cores_states read, so every later token is not "cpu" either and
\* each remaining core (up to the new num_cores) recounts again.
RECURSIVE FewerCores(_, _)
FewerCores(X, c) ==
    LET Y == CountCoresStates(X)
    IN  IF c + 1 < Y.numCores THEN FewerCores(Y, c + 1) ELSE Y

\* fill_prev: (re)allocate prev_val for num_cores cores when it is NULL or
\* the count changed, rewind, and read each expected core's counters into
\* it.  A core line missing (fewer cores) recounts without reallocating and
\* still ends with prev_val_filled; a cpu<N> line after the last expected
\* core (more cores) recounts and repeats the pass with a new array.
RECURSIVE FillPrev(_, _, _)
FillPrev(X, changed, f) ==
    LET X1 == IF X.cpu.prev # 0 /\ changed THEN [X EXCEPT !.cpu.prev = 0] ELSE X
        X2 == IF X1.cpu.prev = 0 /\ f # <<0, "prevval">>
              THEN [X1 EXCEPT !.cpu.prev = X1.numCores] ELSE X1
        R  == ReadStat(X2)
        X3 == TouchPrev(R, MinOf(R.numCores, R.stat))
    IN  CASE X2.cpu.prev = 0        -> [X2 EXCEPT !.cpu.filled = FALSE]     \* ENOMEM
          [] R.stat < R.numCores    -> [FewerCores(X3, R.stat) EXCEPT !.cpu.filled = TRUE]
          [] R.stat > R.numCores    -> FillPrev(CountCoresStates(X3), TRUE, f)
          [] OTHER                  -> [X3 EXCEPT !.cpu.filled = TRUE]

CpuFrame(X) == [src |-> "cpuload", nodes |-> Frame(CpuSensors, X.numCores)]

\* process_timer_msg: rewind; with previous values and a hook, read every
\* core, store its counters as the new previous values and send the load
\* fractions; a core count that differs from num_cores (a missing cpu<N>
\* line, or one more after the last) drops the frame, recounts and refills.
\* Without previous values or a hook, only fill_prev.
ProcessTimerMsg(X, n, f) ==
    LET R == ReadStat(X) IN
    IF R.cpu.filled /\ R.cpu.hook
    THEN IF f = <<0, "cpudata">> THEN R                         \* ENOMEM
         ELSE LET X1 == TouchPrev(R, MinOf(R.numCores, R.stat))
              IN  IF X1.stat # X1.numCores
                  THEN FillPrev(CountCoresStates(X1), TRUE, f)   \* numcore_changed
                  ELSE DataSend(X1, n, CpuFrame(X1))
    ELSE FillPrev(R, FALSE, f)

\* rcvmsg: only generic TIMERTRIGGER messages are processed, the timer's
\* broadcast being the only message cpuload gets.
CpuloadRcvmsg(X, n, f) == ProcessTimerMsg(X, n, f)

-----------------------------------------------------------------------------
(* ifdata *)

\* newhook: only the out hook named HOOKNAME is accepted; it becomes pvt->hook.
IfdataNewhook(X) == [X EXCEPT !.ifHook = TRUE]

\* rcvmsg: every message counts as a timer tick; without a hook nothing is
\* read; otherwise the counters of num_interfaces interfaces are scanned
\* from /proc/net/dev, and a line missing there is EINVAL (no frame).
IfdataRcvmsg(X, n, f) ==
    CASE ~X.ifHook             -> X
      [] f = <<0, "ifdata">>  -> X                               \* ENOMEM
      [] X.numIf > NetIfs      -> X                               \* errexit
      [] OTHER -> DataSend(X, n, [src |-> "ifdata", nodes |-> Frame(IfSensors, X.numIf)])

====
