---------------------------- MODULE MCPhpWebdirs ----------------------------
(***************************************************************************)
(* Two document roots, one of them with two workers, so that both requests *)
(* of one root and requests of two roots meet in the mailbox.  The         *)
(* registry has room for each root twice, since the first is registered    *)
(* twice.                                                                  *)
(***************************************************************************)
EXTENDS PhpWebdirs

CONSTANTS a, b, w1, w2, w3

MCDocRoot == [w \in Worker |-> IF w = w3 THEN b ELSE a]

==============================================================================
