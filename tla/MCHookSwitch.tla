----------------------------- MODULE MCHookSwitch -----------------------------
(***************************************************************************)
(* A small instance of HookSwitch: two detections, in both modes.          *)
(***************************************************************************)
EXTENDS HookSwitch

===============================================================================
