---------------------------- MODULE MCPluginStore ----------------------------
(***************************************************************************)
(* Two overlapping console requests, MaxPlugins = 2 and five plugins, so   *)
(* that every upload but the first has something to prune.                 *)
(***************************************************************************)
EXTENDS PluginStore, TLC

MCSymmetry == Permutations(Request)

==============================================================================
