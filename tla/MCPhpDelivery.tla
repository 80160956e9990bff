---------------------------- MODULE MCPhpDelivery ----------------------------
(***************************************************************************)
(* One worker: workers only read what the heartbeat process writes, so one *)
(* sees everything another one could.  Two plugins and two configurations, *)
(* of which the first does not fit, in two seconds, with two faults.       *)
(***************************************************************************)
EXTENDS PhpDelivery

MCLruMax == [c \in 0 .. MaxConfig |-> IF c = MaxConfig THEN 2 ELSE 1]

MCOversize == {1}

==============================================================================
