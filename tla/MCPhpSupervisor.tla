--------------------------- MODULE MCPhpSupervisor ---------------------------
(***************************************************************************)
(* Two agents, the heartbeat and the log agent, and MaxForks processes: at *)
(* least one of them is forked again.                                      *)
(***************************************************************************)
EXTENDS PhpSupervisor

==============================================================================
