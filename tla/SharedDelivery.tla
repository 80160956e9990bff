---------------------------- MODULE SharedDelivery ----------------------------
(***************************************************************************)
(* VersionedDelivery with several carriers that deliver to one agent.  A   *)
(* carrier asks for a version and later delivers the answer.  If another   *)
(* carrier has delivered in between, the answer has become stale and may   *)
(* take the agent back to an older version; an answer nobody has overtaken *)
(* never does.                                                             *)
(***************************************************************************)
EXTENDS Naturals

CONSTANTS
  Carrier,   \* what delivers versions to the agent
  Version,   \* versions of the configuration, records with a field time
  Local      \* what the agent holds after it starts

VARIABLES
  published, \* the versions the console has held
  held,      \* the version the agent runs
  asked      \* asked[c]: carrier c has no answer under way, a fresh or a stale one

Init ==
  /\ published \in SUBSET Version
  /\ held = Local
  /\ asked = [c \in Carrier |-> "no"]

Publish ==
  /\ \E v \in Version : published' = published \cup {v}
  /\ UNCHANGED <<held, asked>>

Ask(c) ==
  /\ asked[c] = "no"
  /\ asked' = [asked EXCEPT ![c] = "fresh"]
  /\ UNCHANGED <<published, held>>

\* There is nothing to deliver, or the answer is lost.
Drop(c) ==
  /\ asked' = [asked EXCEPT ![c] = "no"]
  /\ UNCHANGED <<published, held>>

Deliver(c) ==
  /\ asked[c] # "no"
  /\ \E v \in published :
       /\ asked[c] = "fresh" => v.time >= held.time
       /\ held' = v
  /\ asked' = [d \in Carrier |-> IF d = c \/ asked[d] = "no" THEN "no" ELSE "stale"]
  /\ UNCHANGED published

Restart ==
  /\ held' = Local
  /\ asked' = [c \in Carrier |-> "no"]
  /\ UNCHANGED published

Next ==
  \/ Publish \/ Restart
  \/ \E c \in Carrier : Ask(c) \/ Drop(c) \/ Deliver(c)

Spec == Init /\ [][Next]_<<published, held, asked>>

===============================================================================
