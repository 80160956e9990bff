---------------------------- MODULE MCVerdictCache ----------------------------
(***************************************************************************)
(* A small instance of VerdictCache.  Checks readA and writeA have the     *)
(* same parameter buffer under two types; buffers bA and bB have the same  *)
(* hash; bB is longer than the smaller comparison limit.  Plugin 1 flags   *)
(* readB only, plugin 2 flags writeA.                                      *)
(***************************************************************************)
EXTENDS VerdictCache, TLC

CONSTANTS readA, writeA, readB, bA, bB, h

MCParams == readA :> bA @@ writeA :> bA @@ readB :> bB
MCHashOf == bA :> h @@ bB :> h
MCSize == bA :> 1 @@ bB :> 2
MCFlagged == <<{readB}, {writeA}>>

MCSymmetry == Permutations(Thread)

===============================================================================
