------------------------ MODULE SubmissionLifecycle ------------------------
(***************************************************************************)
(* What the durable submission engine promises its callers, with nothing   *)
(* of how it keeps the promise: an admitted submission is decided at most  *)
(* once, the decision never changes, and the submissions of one session    *)
(* are decided in the order they were admitted (docs/architecture.md 4.2). *)
(* Coordinator implements this specification.                              *)
(***************************************************************************)
EXTENDS Naturals

CONSTANTS NumSubs,      \* submissions are numbered in admission order
          SessionOf,    \* the session each submission is addressed to
          Outcomes,     \* what a submission can settle as
          Undecided     \* not an outcome

Subs == 1 .. NumSubs

VARIABLES admitted, decision

vars == <<admitted, decision>>

Init == /\ admitted = {}
        /\ decision = [s \in Subs |-> Undecided]

(* Every earlier submission of the same session has been decided. *)
SessionHead(s) ==
  \A t \in Subs : t < s /\ SessionOf[t] = SessionOf[s] => decision[t] # Undecided

Admit(s) == /\ s \notin admitted
            /\ \A t \in Subs : t < s => t \in admitted
            /\ admitted' = admitted \cup {s}
            /\ UNCHANGED decision

Decide(s, o) == /\ s \in admitted
                /\ decision[s] = Undecided
                /\ SessionHead(s)
                /\ decision' = [decision EXCEPT ![s] = o]
                /\ UNCHANGED admitted

Next == \E s \in Subs : Admit(s) \/ \E o \in Outcomes : Decide(s, o)

Spec == Init /\ [][Next]_vars
=============================================================================
