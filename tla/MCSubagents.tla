---------------------------- MODULE MCSubagents ----------------------------
(* The instances of Subagents that TLC checks. *)
EXTENDS Subagents, TLC

CONSTANTS k1, k2

OneChild    == {k1}
TwoChildren == {k1, k2}

(* Nothing tells one child from another. *)
Siblings == Permutations(Kids)

(* A bound for two children: each is claimed at most once.  What a second
   attempt of a child does is seen with one child. *)
FewAttempts == \A k \in Kids : row[k].count <= 1
=============================================================================
