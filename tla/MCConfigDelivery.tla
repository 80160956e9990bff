-------------------------- MODULE MCConfigDelivery --------------------------
(***************************************************************************)
(* Instances of ConfigDelivery.  With two slots an abandoned request is    *)
(* still being handled while the next is answered; with two tasks one task *)
(* loads and installs while the answer of the other is under way.          *)
(***************************************************************************)
EXTENDS ConfigDelivery, TLC

\* Tasks, requests and plugins are interchangeable; used without liveness.
Symmetry == Permutations(Task) \cup Permutations(Slot) \cup Permutations(Md5)

=============================================================================
