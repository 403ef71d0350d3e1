------------------------------ MODULE DmmLoader ------------------------------
(***************************************************************************)
(* The process start: main() of src/dmm_main.c up to dmm_startup reads    *)
(* the configuration file, loads every module it lists with               *)
(* dmm_module_load, and takes the starter type from the line after the   *)
(* first "=="; the loader registers each module's types in the type       *)
(* registry of src/dmm_module.c.  Operators over the configuration and   *)
(* the registry; DmmStarter owns the variables.                           *)
(*                                                                         *)
(* A line of the file is [text, len]: len is its length in characters     *)
(* without the newline; text is "" for a blank line, "#" for any line     *)
(* starting with '#', "--" for any line starting with "--", "==" for the  *)
(* separator, and otherwise the line itself (a module path or type name). *)
(***************************************************************************)
EXTENDS Integers, Sequences, DmmSensors

CONSTANTS
    PathMax,      \* PATH_MAX: buf holds PATH_MAX + 1 bytes
    TypeNameSize, \* DMM_TYPENAMESIZE
    Modules       \* module file path -> [abi, init, types]: its descriptor
                  \* (abiversion, the type names listed) and whether it
                  \* exports an init function (ifdata's counts interfaces)

Line(t, n) == [text |-> t, len |-> n]

\* What the environment does to one dmm_module_load of a path: dlopen or
\* dlsym fails ("dlopen"), or the module's init fails ("init").
LoadOutcomes(path) ==
    IF path \notin DOMAIN Modules THEN {"dlopen"}
    ELSE {"ok", "dlopen"} \cup (IF Modules[path].init THEN {"init"} ELSE {})

-----------------------------------------------------------------------------
(* The type registry: typelist, most recently registered first. *)

\* dmm_type_find: the first entry of that name.
TypeFind(reg, name) == \E i \in DOMAIN reg : reg[i] = name

\* dmm_type_register: an empty name is EINVAL, a registered one EEXIST;
\* otherwise SLIST_INSERT_HEAD.  (A name filling tp_name without its NUL
\* is also EINVAL; the modules' names are short.)
TypeRegister(reg, name) ==
    IF name = "" \/ TypeFind(reg, name) THEN reg ELSE <<name>> \o reg

RECURSIVE RegisterAll(_, _, _)
RegisterAll(reg, types, i) ==
    IF i > Len(types) THEN reg
    ELSE RegisterAll(TypeRegister(reg, types[i]), types, i + 1)

\* ifdata's init: count the interface lines of /proc/net/dev into the
\* static num_interfaces, never reset.
IfdataInit(S) == [S EXCEPT !.numIf = @ + NetIfs]

\* dmm_module_load: a failed dlopen or dlsym is ENOENT, a descriptor of
\* another ABI version EINVAL, a failing init its error; then every type
\* of the descriptor is registered, a refused one only logged, and the
\* load returns 0.  The state S is [reg, numIf]; init is ifdata's.

ModuleLoad(S, path, outcome) ==
    CASE outcome = "dlopen"      -> S
      [] Modules[path].abi # 0   -> S
      [] outcome = "init"        -> S
      [] OTHER ->
            LET S1 == IF Modules[path].init THEN IfdataInit(S) ELSE S
            IN  [S1 EXCEPT !.reg = RegisterAll(@, Modules[path].types, 1)]

-----------------------------------------------------------------------------
(* main() *)

\* fgets fills buf (PATH_MAX characters read, len == sizeof(buf) - 1)
\* when the line with its newline has PATH_MAX characters or more.
FillsBuf(l) == l.len + 1 >= PathMax

\* Skipped lines of the modules section: empty, '#' and "--" comments.
Skipped(l) == l.len = 0 \/ l.text = "#" \/ (l.len >= 2 /\ l.text = "--")

\* The for loop over the modules section from line i: returns the state,
\* the stage it ended in, the next line, and whether dmm_emerg exited.
\* outc gives the outcome of the load of each line.
RECURSIVE ReadModules(_, _, _, _)
ReadModules(cf, S, i, outc) ==
    IF i > Len(cf) THEN [s |-> S, stage |-> "modules", next |-> i, emerg |-> FALSE]
    ELSE LET l == cf[i] IN
         CASE FillsBuf(l)    -> [s |-> S, stage |-> "modules", next |-> i, emerg |-> TRUE]
           [] Skipped(l)     -> ReadModules(cf, S, i + 1, outc)
           [] l.text = "=="  -> [s |-> S, stage |-> "starter", next |-> i + 1, emerg |-> FALSE]
           [] OTHER          -> ReadModules(cf, ModuleLoad(S, l.text, outc[i]), i + 1, outc)

\* main(): the modules section, then the very next line is the starter
\* type (it must be shorter than DMM_TYPENAMESIZE; it is not skipped when
\* blank or a comment) and the one after it must be "==".  Any failure is
\* dmm_emerg, which exits.
MainConfig(cf, outc) ==
    LET M == ReadModules(cf, [reg |-> <<>>, numIf |-> 0], 1, outc)
        j == M.next
    IN  [reg |-> M.s.reg, numIf |-> M.s.numIf,
         starter |-> IF j <= Len(cf) THEN cf[j].text ELSE "",
         exit |-> \/ M.emerg
                  \/ M.stage # "starter" \/ j > Len(cf)
                  \/ cf[j].len >= TypeNameSize
                  \/ j + 1 > Len(cf) \/ cf[j + 1].text # "=="]

====
