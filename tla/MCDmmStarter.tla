---------------------------- MODULE MCDmmStarter ----------------------------
(* The starter started with one of three configuration files: the one of   *)
(* the pipeline (with comment and blank lines), the same with ifdata's      *)
(* module listed twice, and one with a blank line after the first "==";    *)
(* or with the first of them only.                                          *)
EXTENDS DmmStarter, TLC

MCModules ==
    ("starter.so"    :> [abi |-> 0, init |-> FALSE, types |-> <<"starter">>]) @@
    ("ifdata.so"     :> [abi |-> 0, init |-> TRUE,  types |-> <<"ifdata">>]) @@
    ("cpuload.so"    :> [abi |-> 0, init |-> FALSE, types |-> <<"cpuload">>]) @@
    ("dbgprinter.so" :> [abi |-> 0, init |-> FALSE, types |-> <<"dbgprinter">>])

MCHead == <<Line("#", 9), Line("starter.so", 10), Line("", 0), Line("--", 6),
            Line("ifdata.so", 9), Line("cpuload.so", 10), Line("dbgprinter.so", 13)>>

MCPipelineConfig ==
    { MCHead \o <<Line("==", 2), Line("starter", 7), Line("==", 2)>> }

MCConfigFiles ==
    { MCHead \o <<Line("==", 2), Line("starter", 7), Line("==", 2)>>,
      MCHead \o <<Line("ifdata.so", 9), Line("==", 2), Line("starter", 7), Line("==", 2)>>,
      MCHead \o <<Line("==", 2), Line("", 0), Line("starter", 7), Line("==", 2)>> }

====
