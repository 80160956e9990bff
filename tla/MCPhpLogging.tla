---------------------------- MODULE MCPhpLogging ----------------------------
(***************************************************************************)
(* Three days, batches of one line and up to three lines, so that a batch  *)
(* fills, a day ends with lines unread, a batch is held over midnight, and *)
(* an agent that is stranded on one day is free again on the next.         *)
(***************************************************************************)
EXTENDS PhpLogging

==============================================================================
