--------------------------- MODULE MCCoordinator ---------------------------
(* The instances of Coordinator that TLC checks. *)
EXTENDS CoordinatorInvariant

CONSTANTS k1, k2

(* One session that two submissions queue in... *)
OneSession   == {k1}
InOneSession == [s \in 1 .. NumSubs |-> k1]

(* ...or two sessions, run side by side. *)
TwoSessions   == {k1, k2}
InTwoSessions == [s \in 1 .. NumSubs |-> IF s = 2 THEN k2 ELSE k1]

(* The first submission may outlive its durability timeout. *)
FirstDeadlined == {1}
NoneDeadlined  == {}

(* Overlapping runtimes can take a submission from each other for ever. *)
FewClaims == \A s \in Subs : minted[s] <= IF s = 1 THEN 2 ELSE 1
=============================================================================
