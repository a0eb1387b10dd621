----------------------------- MODULE MCAdmission -----------------------------
(* Two task calls, and a dispatch from outside that is repeated with another
   input and for another session, those of the children, which it may open
   before they are spawned. *)
EXTENDS Admission

MCRequests ==
  {[id |-> "c1", key |-> "k1", input |-> "x", task |-> TRUE],
   [id |-> "c2", key |-> "k2", input |-> "x", task |-> TRUE],
   [id |-> "c1", key |-> "k3", input |-> "x", task |-> TRUE],
   [id |-> "d", key |-> "k1", input |-> "x", task |-> FALSE],
   [id |-> "d", key |-> "k1", input |-> "y", task |-> FALSE],
   [id |-> "d", key |-> "k2", input |-> "x", task |-> FALSE]}
=============================================================================
