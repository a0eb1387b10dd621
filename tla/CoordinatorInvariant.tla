------------------------ MODULE CoordinatorInvariant ------------------------
(***************************************************************************)
(* The inductive invariant of Coordinator.  Its first half holds however   *)
(* the runtimes overlap; the second half needs the session guard, that is  *)
(* one process at a time over the store.                                   *)
(***************************************************************************)
EXTENDS Coordinator

Terminal == {"terminalizing", "settled"}

(* A settled record and the terminal half of the row's life go together, and
   what a settling goroutine knows of both is never out of date. *)
RecordsInv ==
  /\ \A s \in Subs :
       /\ row[s].status \notin Terminal => settled[s] = <<>>
       /\ row[s].status = "settled" => settled[s] # <<>>
  /\ \A r \in Runtimes, k \in Sessions :
       /\ run[r][k].pc \in Settling => row[run[r][k].sub].status \in Terminal
       /\ run[r][k].pc = "finalize" => settled[run[r][k].sub] # <<>>
  /\ \A r \in Runtimes : phase[r] = "reconcile" =>
       \A x \in todo[r] : row[x[1]].status \in Terminal

(* Head-of-line order of the rows, and of the listing being claimed from. *)
EarlierSettled(s) == \A t \in Earlier(s) : row[t].status = "settled"

OrderInv ==
  /\ \A s \in Subs : row[s].status \in {"running"} \cup Terminal => EarlierSettled(s)
  /\ \A r \in Runtimes : phase[r] = "claim" =>
       \A x \in todo[r] : EarlierSettled(x[1])

(* One Runtime at a time has a loop or a run, and a run's session is its
   slot's: so no two goroutines work on one submission. *)
SessionGuard ==
  /\ \A r \in Runtimes : up[r] \in {"new", "down"} => ~Busy(r)
  /\ \A q, r \in Runtimes : q # r => \/ Stopped(q) \/ Stopped(r)
  /\ \A r \in Runtimes, k \in Sessions :
       run[r][k].pc # "idle" => SessionOf[run[r][k].sub] = k

(* What each goroutine found by reading the log still holds. *)
OnceInv ==
  /\ \A s \in Subs : Len(settled[s]) <= 1 /\ inputs[s] <= 1
  /\ \A r \in Runtimes, k \in Sessions :
       /\ run[r][k].pc = "append" => settled[run[r][k].sub] = <<>>
       /\ run[r][k].pc = "author" => inputs[run[r][k].sub] = 0

(* Every drive is paid for by a counted claim. *)
BudgetInv ==
  /\ \A s \in Subs : drives[s] <= row[s].count /\ drives[s] <= MaxAttempts
  /\ \A r \in Runtimes, k \in Sessions :
       run[r][k].pc \in {"claimed", "begin"} =>
         /\ run[r][k].count = row[run[r][k].sub].count
         /\ drives[run[r][k].sub] < run[r][k].count

(* The invariant the theorems rest on: stronger than each property, and
   preserved by every step of the engine. *)
Invariant ==
  /\ TypeOK
  /\ RecordsInv
  /\ OrderInv
  /\ ~Overlap => SessionGuard /\ OnceInv /\ BudgetInv
=============================================================================
