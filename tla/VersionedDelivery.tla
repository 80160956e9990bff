--------------------------- MODULE VersionedDelivery ---------------------------
(***************************************************************************)
(* What the delivery of remote configuration promises, without heartbeats. *)
(* The console publishes versions of an application's configuration, each  *)
(* with a time stamp.  An agent holds one of them, or its local            *)
(* configuration after a start; it only ever moves to a published version  *)
(* that is not older than the one it holds, and it never mixes two.        *)
(***************************************************************************)
EXTENDS Naturals

CONSTANTS
  Version,   \* versions of the configuration, records with a field time
  Local      \* what an agent holds after it starts

VARIABLES
  published, \* the versions the console has held
  held       \* the version the agent runs

Init ==
  /\ published \in SUBSET Version
  /\ held = Local

Publish ==
  /\ \E v \in Version : published' = published \cup {v}
  /\ UNCHANGED held

Deliver ==
  /\ \E v \in published :
       /\ v.time >= held.time
       /\ held' = v
  /\ UNCHANGED published

Restart ==
  /\ held' = Local
  /\ UNCHANGED published

Next == Publish \/ Deliver \/ Restart

Spec == Init /\ [][Next]_<<published, held>>

===============================================================================
