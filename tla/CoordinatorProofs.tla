-------------------------- MODULE CoordinatorProofs --------------------------
(***************************************************************************)
(* Theorems about Coordinator, for every number of submissions, sessions,  *)
(* Runtime starts and failing store calls.                                 *)
(***************************************************************************)
EXTENDS CoordinatorInvariant, TLAPS

USE ConstantsAssumption

----------------------------------------------------------------------------
(* Types. *)

(* A fresh slot has the type of a slot. *)
LEMMA NewRunType ==
  ASSUME NEW p \in RunPhases, NEW s \in Nat, NEW a \in Nat, NEW n \in Nat,
         NEW o \in Outcomes \cup {"none"}
  PROVE  NewRun(p, s, a, n, o) \in Slot
  BY DEF NewRun, Slot

LEMMA IdleType == Idle \in Slot /\ Idle.pc = "idle"
  BY NewRunType DEF Idle, NewRun, RunPhases

(* A listed row is a submission, and striking it off leaves a listing. *)
LEMMA TodoType ==
  ASSUME LoopType, NEW r \in Runtimes, NEW x \in todo[r]
  PROVE  /\ x[1] \in Subs /\ x[2] \in Nat
         /\ SessionOf[x[1]] \in Sessions
         /\ todo[r] \ {x} \in SUBSET (Subs \X Nat)
  <1>1. todo[r] \in SUBSET (Subs \X Nat)
    BY DEF LoopType
  <1>2. x \in Subs \X Nat
    BY <1>1
  <1> QED
    BY <1>1, <1>2

LEMMA ListingType ==
  ASSUME StoreType, NEW Set \in SUBSET Subs
  PROVE  Listing(Set) \in SUBSET (Subs \X Nat)
  BY DEF StoreType, Listing, Row

(* Replacing a slot, or moving it to another phase, keeps the type of run. *)
SlotOK(v) == /\ v \in Slot
             /\ v.pc # "idle" => v.sub \in Subs
             /\ v.pc \in Settling \cup {"settle"} => v.outcome \in Outcomes

LEMMA SlotReplaced ==
  ASSUME RunType, NEW r \in Runtimes, NEW k \in Sessions, NEW v, SlotOK(v),
         run' = [run EXCEPT ![r][k] = v]
  PROVE  RunType'
  BY DEF RunType, SlotOK

LEMMA SlotMoved ==
  ASSUME RunType, NEW r \in Runtimes, NEW k \in Sessions, NEW p \in RunPhases,
         run[r][k].pc # "idle",
         p \in Settling \cup {"settle"} =>
           run[r][k].pc \in Settling \cup {"settle"},
         run' = [run EXCEPT ![r][k].pc = p]
  PROVE  RunType'
  <1> DEFINE v == [run[r][k] EXCEPT !.pc = p]
  <1>1. run[r][k] \in Slot
    BY DEF RunType
  <1>2. v \in Slot /\ v.pc = p /\ v.sub = run[r][k].sub /\ v.outcome = run[r][k].outcome
    BY <1>1 DEF Slot
  <1>3. SlotOK(v)
    BY <1>2 DEF SlotOK, RunType
  <1>4. run' = [run EXCEPT ![r][k] = v]
    BY DEF RunType
  <1> QED
    BY <1>3, <1>4, SlotReplaced

LEMMA SlotEnds ==
  ASSUME RunType, NEW r \in Runtimes, NEW k \in Sessions, NEW o \in Outcomes,
         run[r][k].pc # "idle", Ends(r, k, o)
  PROVE  RunType'
  <1> DEFINE v == [run[r][k] EXCEPT !.pc = "settle", !.outcome = o]
  <1>1. run[r][k] \in Slot /\ run[r][k].sub \in Subs
    BY DEF RunType
  <1>2. v \in Slot /\ v.sub = run[r][k].sub /\ v.outcome = o
    BY <1>1 DEF Slot, RunPhases, Owning
  <1>3. SlotOK(v)
    BY <1>1, <1>2 DEF SlotOK
  <1>4. run' = [run EXCEPT ![r][k] = v]
    BY DEF RunType, Ends
  <1> QED
    BY <1>3, <1>4, SlotReplaced

LEMMA SlotFreed ==
  ASSUME RunType, NEW r \in Runtimes, NEW k \in Sessions,
         run' = [run EXCEPT ![r][k] = Idle]
  PROVE  RunType'
  BY IdleType, SlotReplaced DEF SlotOK, Settling

LEMMA SlotLost ==
  ASSUME RunType, NEW r \in Runtimes, NEW k \in Sessions,
         run' = [run EXCEPT ![r][k].lost = TRUE]
  PROVE  RunType'
  <1> DEFINE v == [run[r][k] EXCEPT !.lost = TRUE]
  <1>1. run[r][k] \in Slot
    BY DEF RunType
  <1>2. /\ v \in Slot /\ v.pc = run[r][k].pc /\ v.sub = run[r][k].sub
        /\ v.outcome = run[r][k].outcome
    BY <1>1 DEF Slot
  <1>3. SlotOK(v)
    BY <1>2 DEF SlotOK, RunType
  <1>4. run' = [run EXCEPT ![r][k] = v]
    BY DEF RunType
  <1> QED
    BY <1>3, <1>4, SlotReplaced

(* Setting one field of a row keeps the type of the rows. *)
LEMMA RowMoved ==
  ASSUME StoreType, NEW s \in Subs, NEW st \in Statuses, NEW b \in BOOLEAN
  PROVE  /\ [row EXCEPT ![s].status = st] \in [Subs -> Row]
         /\ [row EXCEPT ![s].leased = b] \in [Subs -> Row]
  <1>1. row[s] \in Row
    BY DEF StoreType
  <1>2. [row[s] EXCEPT !.status = st] \in Row /\ [row[s] EXCEPT !.leased = b] \in Row
    BY <1>1 DEF Row
  <1> QED
    BY <1>2 DEF StoreType

(* Handing a claim back keeps the type of the rows. *)
LEMMA ReleasedType ==
  ASSUME StoreType, NEW s \in Subs
  PROVE  Released(s) \in [Subs -> Row]
  <1> DEFINE q == [row[s] EXCEPT !.status = "queued"]
             a == [q EXCEPT !.attempt = 0]
             v == [a EXCEPT !.leased = FALSE]
  <1>1. row[s] \in Row
    BY DEF StoreType
  <1>2. q \in Row
    BY <1>1 DEF Row, Statuses
  <1>3. a \in Row
    BY <1>2 DEF Row
  <1>4. v \in Row
    BY <1>3 DEF Row
  <1>5. Released(s) = [row EXCEPT ![s] = v]
    BY <1>1 DEF StoreType, Released
  <1> HIDE DEF v
  <1> QED
    BY <1>4, <1>5 DEF StoreType

LEMMA TypeInit == Init => TypeOK
  <1> SUFFICES ASSUME Init PROVE TypeOK
    OBVIOUS
  <1>1. StoreType
    BY DEF Init, StoreType, Row, Statuses
  <1>2. LoopType
    BY DEF Init, LoopType, LoopPhases
  <1>3. RunType
    BY IdleType DEF Init, RunType, Settling
  <1>4. HistoryType
    BY DEF Init, HistoryType
  <1> QED
    BY <1>1, <1>2, <1>3, <1>4 DEF TypeOK

LEMMA TypeNext == TypeOK /\ [Next]_vars => TypeOK'
  <1> SUFFICES ASSUME StoreType, LoopType, RunType, HistoryType, [Next]_vars
               PROVE  TypeOK'
    BY DEF TypeOK
  <1> USE DEF store, loop, TypeOK
  <1>1. ASSUME NEW r \in Runtimes, Start(r) PROVE TypeOK'
    BY <1>1, ListingType, Interrupted \in SUBSET Subs
    DEF Start, StoreType, LoopType, RunType, HistoryType, LoopPhases, Interrupted
  <1>2. ASSUME NEW r \in Runtimes, Close(r) PROVE TypeOK'
    BY <1>2 DEF Close, StoreType, LoopType, RunType, HistoryType
  <1>3. ASSUME NEW r \in Runtimes, Crash(r) PROVE TypeOK'
    <2>1. RunType'
      BY <1>3, IdleType DEF Crash, RunType, Settling
    <2> QED
      BY <1>3, <2>1 DEF Crash, StoreType, LoopType, HistoryType
  <1>4. ASSUME NEW r \in Runtimes, Reconcile(r) PROVE TypeOK'
    <2>1. PICK x \in todo[r] :
            /\ todo' = [todo EXCEPT ![r] = @ \ {x}]
            /\ run' = [run EXCEPT ![r][SessionOf[x[1]]] =
                         NewRun("check", x[1], x[2], 0, "indeterminate")]
      BY <1>4 DEF Reconcile
    <2>2. /\ x[1] \in Subs /\ x[2] \in Nat /\ SessionOf[x[1]] \in Sessions
          /\ todo[r] \ {x} \in SUBSET (Subs \X Nat)
      BY TodoType
    <2> DEFINE new == NewRun("check", x[1], x[2], 0, "indeterminate")
    <2>3. new \in Slot
      BY <2>2, NewRunType DEF RunPhases, Settling, Outcomes, Subs
    <2>4. SlotOK(new)
      BY <2>2, <2>3 DEF NewRun, SlotOK, Outcomes
    <2> HIDE DEF new
    <2>5. RunType'
      BY <2>1, <2>2, <2>4, SlotReplaced DEF new
    <2>6. LoopType'
      BY <1>4, <2>1, <2>2 DEF Reconcile, LoopType
    <2> QED
      BY <1>4, <2>5, <2>6 DEF Reconcile, StoreType, HistoryType
  <1>5. ASSUME NEW r \in Runtimes, ListExpired(r) PROVE TypeOK'
    BY <1>5, ListingType, {s \in Subs : Expired(s)} \in SUBSET Subs
    DEF ListExpired, StoreType, LoopType, RunType, HistoryType, LoopPhases
  <1>6. ASSUME NEW r \in Runtimes, Reclaim(r) PROVE TypeOK'
    <2>1. PICK x \in todo[r] : /\ todo' = [todo EXCEPT ![r] = @ \ {x}]
                               /\ row' = row \/ row' = Released(x[1])
      BY <1>6 DEF Reclaim
    <2>2. x[1] \in Subs /\ todo[r] \ {x} \in SUBSET (Subs \X Nat)
      BY TodoType
    <2>3. LoopType'
      BY <1>6, <2>1, <2>2 DEF Reclaim, LoopType
    <2>4. row' \in [Subs -> Row]
      BY <2>1, <2>2, ReleasedType DEF StoreType
    <2> QED
      BY <1>6, <2>3, <2>4 DEF Reclaim, StoreType, RunType, HistoryType
  <1>7. ASSUME NEW r \in Runtimes, ListRunnable(r) PROVE TypeOK'
    BY <1>7, ListingType, {s \in Subs : Runnable(s)} \in SUBSET Subs
    DEF ListRunnable, StoreType, LoopType, RunType, HistoryType, LoopPhases
  <1>15. ASSUME NEW r \in Runtimes, LoopExits(r) PROVE TypeOK'
    BY <1>15 DEF LoopExits, StoreType, LoopType, RunType, HistoryType, LoopPhases
  <1>8. ASSUME NEW r \in Runtimes, ClaimSkipped(r) \/ LoopCallFails(r) PROVE TypeOK'
    <2>1. PICK x \in todo[r] : todo' = [todo EXCEPT ![r] = @ \ {x}]
      BY <1>8 DEF ClaimSkipped, LoopCallFails
    <2>2. todo[r] \ {x} \in SUBSET (Subs \X Nat)
      BY TodoType
    <2>3. LoopType'
      BY <1>8, <2>1, <2>2 DEF ClaimSkipped, LoopCallFails, LoopType
    <2>4. HistoryType'
      BY <1>8 DEF ClaimSkipped, LoopCallFails, HistoryType
    <2> QED
      BY <1>8, <2>3, <2>4 DEF ClaimSkipped, LoopCallFails, StoreType, RunType
  <1>9. ASSUME NEW r \in Runtimes, ClaimRunnable(r) PROVE TypeOK'
    <2>1. PICK x \in todo[r] :
            /\ todo' = [todo EXCEPT ![r] = @ \ {x}]
            /\ minted' = [minted EXCEPT ![x[1]] = minted[x[1]] + 1]
            /\ row' = [row EXCEPT ![x[1]] =
                 [status |-> "running", attempt |-> minted[x[1]] + 1,
                  count |-> @.count + 1, leased |-> TRUE]]
            /\ run' = [run EXCEPT ![r][SessionOf[x[1]]] =
                 NewRun("claimed", x[1], minted[x[1]] + 1, row[x[1]].count + 1, "none")]
      BY <1>9 DEF ClaimRunnable
    <2>2. /\ x[1] \in Subs /\ SessionOf[x[1]] \in Sessions
          /\ todo[r] \ {x} \in SUBSET (Subs \X Nat)
      BY TodoType
    <2>3. minted[x[1]] + 1 \in Nat /\ row[x[1]].count + 1 \in Nat
      <3>1. minted[x[1]] \in Nat
        BY <2>2 DEF HistoryType
      <3>2. row[x[1]] \in Row
        BY <2>2 DEF StoreType
      <3> QED
        BY <3>1, <3>2 DEF Row
    <2> DEFINE new == NewRun("claimed", x[1], minted[x[1]] + 1,
                             row[x[1]].count + 1, "none")
    <2>4. new \in Slot
      BY <2>2, <2>3, NewRunType DEF RunPhases, Owning, Subs
    <2>5. SlotOK(new)
      BY <2>2, <2>4 DEF NewRun, SlotOK, Settling
    <2> HIDE DEF new
    <2>6. RunType'
      BY <2>1, <2>2, <2>5, SlotReplaced DEF new
    <2>7. LoopType'
      BY <1>9, <2>1, <2>2 DEF ClaimRunnable, LoopType
    <2>8. row' \in [Subs -> Row] /\ minted' \in [Subs -> Nat]
      BY <2>1, <2>2, <2>3 DEF StoreType, HistoryType, Row, Statuses
    <2> QED
      BY <1>9, <2>6, <2>7, <2>8 DEF ClaimRunnable, StoreType, HistoryType
  <1>10. ASSUME NEW r \in Runtimes, NEW k \in Sessions,
                RunStep(r, k) \/ RunCallFails(r, k) \/ RenewLease(r, k)
         PROVE  TypeOK'
    <2>1. run[r][k].pc # "idle"
      BY <1>10 DEF RunStep, StartAttempt, Begin, CheckInput, AuthorInput,
           LeaseLost, DriveInterrupted, DriveTransient, DriveEnds, Release,
           ReserveSettlement, CheckSettled, AppendSettled, FinalizeSettlement,
           RunCallFails, RenewLease, Driving, Settling
    <2>2. run[r][k].sub \in Subs /\ run[r][k].outcome \in Outcomes \cup {"none"}
          /\ run[r][k].attempt \in Nat
      BY <2>1 DEF RunType, Slot
    <2> USE DEF RunPhases, Owning, Driving, Settling
    <2>3. CASE StartAttempt(r, k)
      BY <2>1, <2>2, <2>3, SlotMoved
      DEF StartAttempt, StoreType, LoopType, HistoryType
    <2>4. CASE Begin(r, k)
      <3>1. CASE \E o \in Outcomes : Ends(r, k, o) /\ UNCHANGED drives
        BY <2>1, <2>4, <3>1, SlotEnds DEF Begin, StoreType, LoopType, HistoryType
      <3>2. CASE /\ run' = [run EXCEPT ![r][k].pc = "input"]
                 /\ drives' = [drives EXCEPT ![run[r][k].sub] = @ + 1]
        <4>1. RunType'
          BY <2>1, <3>2, SlotMoved
        <4>2. drives' \in [Subs -> Nat]
          BY <2>2, <3>2 DEF HistoryType
        <4> QED
          BY <2>4, <4>1, <4>2 DEF Begin, StoreType, LoopType, HistoryType
      <3> QED
        BY <2>4, <3>1, <3>2 DEF Begin, Outcomes
    <2>5. CASE CheckInput(r, k)
      BY <2>1, <2>5, SlotMoved DEF CheckInput, StoreType, LoopType, HistoryType
    <2>6. CASE AuthorInput(r, k)
      <3>1. RunType'
        BY <2>1, <2>6, SlotMoved DEF AuthorInput
      <3>2. inputs' \in [Subs -> Nat]
        BY <2>2, <2>6 DEF AuthorInput, StoreType
      <3> QED
        BY <2>6, <3>1, <3>2 DEF AuthorInput, StoreType, LoopType, HistoryType
    <2>7. CASE LeaseLost(r, k)
      BY <2>7, SlotFreed DEF LeaseLost, StoreType, LoopType, HistoryType
    <2>8. CASE DriveInterrupted(r, k)
      BY <2>1, <2>8, SlotMoved DEF DriveInterrupted, StoreType, LoopType, HistoryType
    <2>9. CASE DriveTransient(r, k)
      BY <2>1, <2>9, SlotMoved DEF DriveTransient, StoreType, LoopType, HistoryType
    <2>10. CASE DriveEnds(r, k)
      <3>1. \E o \in Outcomes : Ends(r, k, o)
        BY <2>10 DEF DriveEnds, Outcomes
      <3> QED
        BY <2>1, <2>10, <3>1, SlotEnds DEF DriveEnds, StoreType, LoopType, HistoryType
    <2>11. CASE Release(r, k)
      <3>1. row' \in [Subs -> Row]
        BY <2>2, <2>11, ReleasedType DEF Release, StoreType
      <3> QED
        BY <2>11, <3>1, SlotFreed DEF Release, StoreType, LoopType, HistoryType
    <2>12. CASE ReserveSettlement(r, k)
      <3>1. RunType'
        BY <2>1, <2>12, SlotFreed, SlotMoved DEF ReserveSettlement
      <3>2. UNCHANGED <<markers, inputs, settled, late>>
        BY <2>12 DEF ReserveSettlement
      <3>3. row' \in [Subs -> Row]
        <4>1. \/ row' = row
              \/ row' = [row EXCEPT ![run[r][k].sub].status = "terminalizing"]
          BY <2>12, Zenon DEF ReserveSettlement
        <4>2. "terminalizing" \in Statuses /\ TRUE \in BOOLEAN
          BY DEF Statuses
        <4>3. [row EXCEPT ![run[r][k].sub].status = "terminalizing"] \in [Subs -> Row]
          BY <2>2, <4>2, RowMoved
        <4> QED
          BY <4>1, <4>3 DEF StoreType
      <3>4. StoreType'
        BY <3>2, <3>3 DEF StoreType
      <3> QED
        BY <2>12, <3>1, <3>4 DEF ReserveSettlement, LoopType, HistoryType
    <2>13. CASE CheckSettled(r, k)
      BY <2>1, <2>13, SlotMoved DEF CheckSettled, StoreType, LoopType, HistoryType
    <2>14. CASE AppendSettled(r, k)
      <3>1. RunType'
        BY <2>1, <2>14, SlotMoved DEF AppendSettled
      <3>2. run[r][k].outcome \in Outcomes
        BY <2>14 DEF AppendSettled, RunType
      <3>3. Append(settled[run[r][k].sub], run[r][k].outcome) \in Seq(Outcomes)
        BY <2>2, <3>2 DEF StoreType
      <3>4. settled' \in [Subs -> Seq(Outcomes)]
        BY <2>14, <3>3 DEF AppendSettled, StoreType
      <3> QED
        BY <2>14, <3>1, <3>4 DEF AppendSettled, StoreType, LoopType, HistoryType
    <2>15. CASE FinalizeSettlement(r, k)
      <3>1. StoreType'
        BY <2>2, <2>15, RowMoved DEF FinalizeSettlement, StoreType, Statuses
      <3> QED
        BY <2>15, <3>1, SlotFreed DEF FinalizeSettlement, LoopType, HistoryType
    <2>16. CASE RunCallFails(r, k)
      <3>1. RunType'
        BY <2>16, SlotFreed DEF RunCallFails
      <3>2. wounded' \subseteq Subs /\ fails' \in Nat
        BY <2>2, <2>16 DEF RunCallFails, HistoryType
      <3> QED
        BY <2>16, <3>1, <3>2 DEF RunCallFails, StoreType, LoopType, HistoryType
    <2>17. CASE RenewLease(r, k)
      <3>1. StoreType'
        <4>1. row' = row \/ row' = [row EXCEPT ![run[r][k].sub].leased = TRUE]
          BY <2>17 DEF RenewLease
        <4>2. [row EXCEPT ![run[r][k].sub].leased = TRUE] \in [Subs -> Row]
          BY <2>2, RowMoved DEF Statuses
        <4> QED
          BY <2>17, <4>1, <4>2 DEF RenewLease, StoreType
      <3>2. RunType'
        BY <2>17, SlotLost DEF RenewLease, RunType
      <3> QED
        BY <2>17, <3>1, <3>2 DEF RenewLease, LoopType, HistoryType
    <2> QED
      BY <1>10, <2>3, <2>4, <2>5, <2>6, <2>7, <2>8, <2>9, <2>10, <2>11,
         <2>12, <2>13, <2>14, <2>15, <2>16, <2>17 DEF RunStep
  <1>11. ASSUME NEW s \in Subs, Dispatch(s) PROVE TypeOK'
    BY <1>11 DEF Dispatch, StoreType, LoopType, RunType, HistoryType, Row, Statuses
  <1>12. ASSUME NEW s \in Subs, LeaseExpires(s) PROVE TypeOK'
    BY <1>12 DEF LeaseExpires, StoreType, LoopType, RunType, HistoryType, Row
  <1>13. ASSUME NEW s \in Subs, DeadlinePasses(s) PROVE TypeOK'
    BY <1>13 DEF DeadlinePasses, StoreType, LoopType, RunType, HistoryType
  <1>14. CASE UNCHANGED vars
    BY <1>14 DEF vars, StoreType, LoopType, RunType, HistoryType
  <1> QED
    BY <1>1, <1>2, <1>3, <1>4, <1>5, <1>6, <1>7, <1>8, <1>9, <1>10, <1>11,
       <1>12, <1>13, <1>14, <1>15 DEF Next, LoopStep

(* Every variable keeps its type. *)
THEOREM TypeCorrect == Spec => []TypeOK
  BY TypeInit, TypeNext, PTL DEF Spec

----------------------------------------------------------------------------
(* What a step changes. *)

(* The slot (r, k) moves to phase p, and no other slot changes. *)
OnlySlot(r, k, p) ==
  /\ run'[r][k].pc = p
  /\ p # "idle" => /\ run'[r][k].sub = run[r][k].sub
                   /\ run'[r][k].count = run[r][k].count
  /\ \A q \in Runtimes, j \in Sessions : q # r \/ j # k => run'[q][j] = run[q][j]

(* The row of s moves to status st, and no other row moves. *)
OnlyStatus(s, st) ==
  /\ row'[s].status = st
  /\ \A t \in Subs : /\ row'[t].count = row[t].count
                     /\ t # s => row'[t].status = row[t].status

(* No row moves at all. *)
SameStatus ==
  \A t \in Subs : row'[t].count = row[t].count /\ row'[t].status = row[t].status

LEMMA Moved ==
  ASSUME RunType, NEW r \in Runtimes, NEW k \in Sessions, NEW p \in RunPhases,
         run' = [run EXCEPT ![r][k].pc = p]
  PROVE  OnlySlot(r, k, p)
  BY DEF RunType, Slot, OnlySlot

LEMMA Ended ==
  ASSUME RunType, NEW r \in Runtimes, NEW k \in Sessions, NEW o, Ends(r, k, o)
  PROVE  OnlySlot(r, k, "settle")
  BY DEF RunType, Slot, OnlySlot, Ends

LEMMA Freed ==
  ASSUME RunType, NEW r \in Runtimes, NEW k \in Sessions,
         run' = [run EXCEPT ![r][k] = Idle]
  PROVE  OnlySlot(r, k, "idle")
  BY IdleType DEF RunType, OnlySlot

LEMMA StatusSet ==
  ASSUME StoreType, NEW s \in Subs, NEW st,
         row' = [row EXCEPT ![s].status = st]
  PROVE  OnlyStatus(s, st)
  BY DEF StoreType, Row, OnlyStatus

LEMMA ReleasedStatus ==
  ASSUME StoreType, NEW s \in Subs, row' = Released(s)
  PROVE  OnlyStatus(s, "queued")
  BY DEF StoreType, Row, OnlyStatus, Released

LEMMA LeaseSet ==
  ASSUME StoreType, NEW s \in Subs, NEW b, row' = [row EXCEPT ![s].leased = b]
  PROVE  SameStatus
  BY DEF StoreType, Row, SameStatus

(* One lemma for each step of a run goroutine. *)
LEMMA RunEffect ==
  ASSUME StoreType, RunType, NEW r \in Runtimes, NEW k \in Sessions
  PROVE  /\ StartAttempt(r, k) => OnlySlot(r, k, "begin")
         /\ Begin(r, k) =>
              \/ OnlySlot(r, k, "settle") /\ UNCHANGED drives
              \/ /\ OnlySlot(r, k, "input")
                 /\ BudgetLeft(run[r][k].count)
                 /\ drives' = [drives EXCEPT ![run[r][k].sub] = @ + 1]
         /\ CheckInput(r, k) =>
              \/ OnlySlot(r, k, "author") /\ inputs[run[r][k].sub] = 0
              \/ OnlySlot(r, k, "model")
         /\ AuthorInput(r, k) => OnlySlot(r, k, "model")
         /\ LeaseLost(r, k) => OnlySlot(r, k, "idle")
         /\ DriveInterrupted(r, k) => OnlySlot(r, k, "release")
         /\ DriveTransient(r, k) => OnlySlot(r, k, "release")
         /\ DriveEnds(r, k) => OnlySlot(r, k, "settle")
         /\ Release(r, k) =>
              /\ OnlySlot(r, k, "idle")
              /\ \/ SameStatus
                 \/ /\ row[run[r][k].sub].status = "running"
                    /\ OnlyStatus(run[r][k].sub, "queued")
         /\ ReserveSettlement(r, k) =>
              \/ OnlySlot(r, k, "idle") /\ SameStatus
              \/ /\ OnlySlot(r, k, "check")
                 /\ row[run[r][k].sub].status = "running"
                 /\ OnlyStatus(run[r][k].sub, "terminalizing")
         /\ CheckSettled(r, k) =>
              \/ OnlySlot(r, k, "append") /\ settled[run[r][k].sub] = <<>>
              \/ OnlySlot(r, k, "finalize") /\ settled[run[r][k].sub] # <<>>
         /\ AppendSettled(r, k) => OnlySlot(r, k, "finalize")
         /\ FinalizeSettlement(r, k) =>
              /\ OnlySlot(r, k, "idle")
              /\ \/ SameStatus
                 \/ /\ row[run[r][k].sub].status = "terminalizing"
                    /\ OnlyStatus(run[r][k].sub, "settled")
         /\ RunCallFails(r, k) => OnlySlot(r, k, "idle")
         /\ RenewLease(r, k) => OnlySlot(r, k, run[r][k].pc) /\ SameStatus
  <1> USE DEF RunPhases, Owning, Driving, Settling
  <1>1. ASSUME run[r][k].pc # "idle" PROVE run[r][k].sub \in Subs
    BY <1>1 DEF RunType
  <1>2. row' = row => SameStatus
    BY DEF SameStatus
  <1>3. StartAttempt(r, k) => OnlySlot(r, k, "begin")
    BY Moved DEF StartAttempt
  <1>4. Begin(r, k) =>
              \/ OnlySlot(r, k, "settle") /\ UNCHANGED drives
              \/ /\ OnlySlot(r, k, "input")
                 /\ BudgetLeft(run[r][k].count)
                 /\ drives' = [drives EXCEPT ![run[r][k].sub] = @ + 1]
    BY Moved, Ended DEF Begin
  <1>5. CheckInput(r, k) =>
              \/ OnlySlot(r, k, "author") /\ inputs[run[r][k].sub] = 0
              \/ OnlySlot(r, k, "model")
    BY Moved DEF CheckInput
  <1>6. AuthorInput(r, k) => OnlySlot(r, k, "model")
    BY Moved DEF AuthorInput
  <1>7. LeaseLost(r, k) => OnlySlot(r, k, "idle")
    BY Freed DEF LeaseLost
  <1>8. DriveInterrupted(r, k) => OnlySlot(r, k, "release")
    BY Moved DEF DriveInterrupted
  <1>9. DriveTransient(r, k) => OnlySlot(r, k, "release")
    BY Moved DEF DriveTransient
  <1>10. DriveEnds(r, k) => OnlySlot(r, k, "settle")
    BY Ended DEF DriveEnds
  <1>11. Release(r, k) =>
              /\ OnlySlot(r, k, "idle")
              /\ \/ SameStatus
                 \/ /\ row[run[r][k].sub].status = "running"
                    /\ OnlyStatus(run[r][k].sub, "queued")
    BY <1>1, <1>2, Freed, ReleasedStatus DEF Release, Owned
  <1>12. ReserveSettlement(r, k) =>
              \/ OnlySlot(r, k, "idle") /\ SameStatus
              \/ /\ OnlySlot(r, k, "check")
                 /\ row[run[r][k].sub].status = "running"
                 /\ OnlyStatus(run[r][k].sub, "terminalizing")
    BY <1>1, <1>2, Freed, Moved, StatusSet DEF ReserveSettlement, Owned
  <1>13. CheckSettled(r, k) =>
              \/ OnlySlot(r, k, "append") /\ settled[run[r][k].sub] = <<>>
              \/ OnlySlot(r, k, "finalize") /\ settled[run[r][k].sub] # <<>>
    BY Moved DEF CheckSettled
  <1>14. AppendSettled(r, k) => OnlySlot(r, k, "finalize")
    BY Moved DEF AppendSettled
  <1>15. FinalizeSettlement(r, k) =>
              /\ OnlySlot(r, k, "idle")
              /\ \/ SameStatus
                 \/ /\ row[run[r][k].sub].status = "terminalizing"
                    /\ OnlyStatus(run[r][k].sub, "settled")
    BY <1>1, <1>2, Freed, StatusSet DEF FinalizeSettlement
  <1>16. RunCallFails(r, k) => OnlySlot(r, k, "idle")
    BY Freed DEF RunCallFails
  <1>17. RenewLease(r, k) => OnlySlot(r, k, run[r][k].pc) /\ SameStatus
    <2>1. run' = run => OnlySlot(r, k, run[r][k].pc)
      BY DEF OnlySlot
    <2>2. run' = [run EXCEPT ![r][k].lost = TRUE] => OnlySlot(r, k, run[r][k].pc)
      BY DEF OnlySlot, RunType, Slot
    <2> QED
      BY <1>1, <1>2, <2>1, <2>2, LeaseSet DEF RenewLease
  <1> QED
    BY <1>3, <1>4, <1>5, <1>6, <1>7, <1>8, <1>9, <1>10, <1>11, <1>12, <1>13,
       <1>14, <1>15, <1>16, <1>17

(* One lemma for each kind of step of a claim loop. *)
NewSlot(r, k, p, s, n) ==
  /\ run'[r][k].pc = p /\ run'[r][k].sub = s /\ run'[r][k].count = n
  /\ \A q \in Runtimes, j \in Sessions : q # r \/ j # k => run'[q][j] = run[q][j]

Struck(r) == /\ phase' = phase
             /\ \A q \in Runtimes : todo'[q] \subseteq todo[q]

Listed(r, p) == /\ phase'[r] = p
                /\ \A q \in Runtimes : q # r => phase'[q] = phase[q] /\ todo'[q] = todo[q]

LEMMA StartEffect ==
  ASSUME LoopType, NEW r \in Runtimes, Start(r)
  PROVE  /\ Listed(r, "reconcile")
         /\ \A x \in todo'[r] : x[1] \in Subs /\ row[x[1]].status = "terminalizing"
  BY DEF Start, LoopType, Listed, Listing, Interrupted

LEMMA ListExpiredEffect ==
  ASSUME LoopType, NEW r \in Runtimes, ListExpired(r)
  PROVE  Listed(r, "reclaim")
  BY DEF ListExpired, LoopType, Listed

LEMMA ListRunnableEffect ==
  ASSUME LoopType, NEW r \in Runtimes, ListRunnable(r)
  PROVE  /\ Listed(r, "claim")
         /\ \A x \in todo'[r] : x[1] \in Subs /\ Runnable(x[1])
  BY DEF ListRunnable, LoopType, Listed, Listing

LEMMA ExitEffect ==
  ASSUME LoopType, NEW r \in Runtimes, LoopExits(r)
  PROVE  Listed(r, "done") /\ UNCHANGED <<store, up, run, drives>>
  BY DEF LoopExits, LoopType, Listed

LEMMA StrikeEffect ==
  ASSUME LoopType, NEW r \in Runtimes,
         \/ Crash(r) \/ Reconcile(r) \/ Reclaim(r) \/ ClaimSkipped(r)
         \/ ClaimRunnable(r) \/ LoopCallFails(r)
  PROVE  Struck(r)
  <1>1. CASE Crash(r)
    BY <1>1 DEF Crash, Struck, LoopType
  <1>2. CASE Reconcile(r)
    BY <1>2 DEF Reconcile, Struck, LoopType
  <1>3. CASE Reclaim(r)
    BY <1>3 DEF Reclaim, Struck, LoopType
  <1>4. CASE ClaimSkipped(r)
    BY <1>4 DEF ClaimSkipped, Struck, LoopType
  <1>5. CASE ClaimRunnable(r)
    <2>1. phase' = phase /\ \E x \in todo[r] : todo' = [todo EXCEPT ![r] = @ \ {x}]
      BY <1>5 DEF ClaimRunnable
    <2> QED
      BY <2>1 DEF Struck, LoopType
  <1>6. CASE LoopCallFails(r)
    BY <1>6 DEF LoopCallFails, Struck, LoopType
  <1> QED
    BY <1>1, <1>2, <1>3, <1>4, <1>5, <1>6

LEMMA CrashEffect ==
  ASSUME RunType, NEW r \in Runtimes, Crash(r)
  PROVE  /\ \A k \in Sessions : run'[r][k].pc = "idle"
         /\ \A q \in Runtimes : q # r => run'[q] = run[q]
  BY IdleType DEF Crash, RunType

LEMMA ReconcileEffect ==
  ASSUME LoopType, RunType, NEW r \in Runtimes, Reconcile(r)
  PROVE  \E x \in todo[r] : /\ x[1] \in Subs
                            /\ phase[r] = "reconcile"
                            /\ NewSlot(r, SessionOf[x[1]], "check", x[1], 0)
  <1>1. PICK x \in todo[r] :
          run' = [run EXCEPT ![r][SessionOf[x[1]]] =
                    NewRun("check", x[1], x[2], 0, "indeterminate")]
    BY DEF Reconcile
  <1>2. x[1] \in Subs /\ SessionOf[x[1]] \in Sessions
    BY TodoType
  <1>3. NewSlot(r, SessionOf[x[1]], "check", x[1], 0)
    BY <1>1, <1>2 DEF NewSlot, NewRun, RunType
  <1> QED
    BY <1>2, <1>3 DEF Reconcile

LEMMA ReclaimEffect ==
  ASSUME StoreType, LoopType, NEW r \in Runtimes, Reclaim(r)
  PROVE  \/ SameStatus
         \/ \E s \in Subs : row[s].status = "running" /\ OnlyStatus(s, "queued")
  <1>1. PICK x \in todo[r] : \/ row' = row
                             \/ Owned(x[1], x[2]) /\ row' = Released(x[1])
    BY DEF Reclaim
  <1>2. x[1] \in Subs
    BY TodoType
  <1> QED
    BY <1>1, <1>2, ReleasedStatus DEF SameStatus, Owned

LEMMA ClaimEffect ==
  ASSUME StoreType, LoopType, RunType, NEW r \in Runtimes, ClaimRunnable(r)
  PROVE  \E x \in todo[r] :
           /\ x[1] \in Subs
           /\ phase[r] = "claim"
           /\ row[x[1]].status = "queued"
           /\ row'[x[1]].status = "running"
           /\ row'[x[1]].count = row[x[1]].count + 1
           /\ \A t \in Subs : t # x[1] => row'[t] = row[t]
           /\ run[r][SessionOf[x[1]]].pc = "idle"
           /\ NewSlot(r, SessionOf[x[1]], "claimed", x[1], row[x[1]].count + 1)
  <1>1. PICK x \in todo[r] :
          /\ run[r][SessionOf[x[1]]].pc = "idle"
          /\ row[x[1]].status = "queued"
          /\ row' = [row EXCEPT ![x[1]] =
               [status |-> "running", attempt |-> minted[x[1]] + 1,
                count |-> @.count + 1, leased |-> TRUE]]
          /\ run' = [run EXCEPT ![r][SessionOf[x[1]]] =
               NewRun("claimed", x[1], minted[x[1]] + 1, row[x[1]].count + 1, "none")]
    BY DEF ClaimRunnable
  <1>2. x[1] \in Subs /\ SessionOf[x[1]] \in Sessions
    BY TodoType
  <1>3. NewSlot(r, SessionOf[x[1]], "claimed", x[1], row[x[1]].count + 1)
    BY <1>1, <1>2 DEF NewSlot, NewRun, RunType
  <1>4. /\ row'[x[1]].status = "running"
        /\ row'[x[1]].count = row[x[1]].count + 1
        /\ \A t \in Subs : t # x[1] => row'[t] = row[t]
    BY <1>1, <1>2 DEF StoreType
  <1> QED
    BY <1>1, <1>2, <1>3, <1>4 DEF ClaimRunnable

(* The caller, and time. *)
LEMMA TimeEffect ==
  ASSUME StoreType, NEW s \in Subs
  PROVE  /\ Dispatch(s) => row[s].status = "absent" /\ OnlyStatus(s, "queued")
         /\ LeaseExpires(s) => SameStatus
         /\ DeadlinePasses(s) => SameStatus
  BY StatusSet, LeaseSet DEF Dispatch, LeaseExpires, DeadlinePasses, SameStatus

----------------------------------------------------------------------------
(* Settled records and rows agree. *)

LEMMA RecordsInit == Init => RecordsInv
  BY DEF Init, RecordsInv, Terminal, Idle, NewRun, Settling

(* Rows move forward, goroutines that settle keep their row, and the listing
   reconciled only shrinks. *)
RowsForward ==
  \A t \in Subs :
    \/ row'[t].status = row[t].status
    \/ row[t].status \notin Terminal /\ row'[t].status # "settled"
    \/ /\ row[t].status = "terminalizing" /\ row'[t].status = "settled"
       /\ settled[t] # <<>>

SettlersKept ==
  \A q \in Runtimes, j \in Sessions : run'[q][j].pc \in Settling =>
    /\ run'[q][j].sub \in Subs
    /\ \/ run'[q][j].pc = run[q][j].pc /\ run'[q][j].sub = run[q][j].sub
       \/ /\ row[run'[q][j].sub].status \in Terminal
             \/ row'[run'[q][j].sub].status \in Terminal
          /\ run'[q][j].pc = "finalize" => settled[run'[q][j].sub] # <<>>

ReconcileKept ==
  \A q \in Runtimes : phase'[q] = "reconcile" =>
    phase[q] = "reconcile" /\ todo'[q] \subseteq todo[q]

LEMMA RecordsKept ==
  ASSUME LoopType, RunType, RecordsInv, UNCHANGED settled,
         RowsForward, SettlersKept, ReconcileKept
  PROVE  RecordsInv'
  <1>1. \A s \in Subs : /\ row'[s].status \notin Terminal => settled'[s] = <<>>
                        /\ row'[s].status = "settled" => settled'[s] # <<>>
                        /\ row[s].status \in Terminal => row'[s].status \in Terminal
    BY DEF RecordsInv, RowsForward, Terminal
  <1>2. ASSUME NEW q \in Runtimes, NEW j \in Sessions, run'[q][j].pc \in Settling
        PROVE  /\ row'[run'[q][j].sub].status \in Terminal
               /\ run'[q][j].pc = "finalize" => settled'[run'[q][j].sub] # <<>>
    <2> DEFINE s == run'[q][j].sub
    <2>1. s \in Subs
      BY <1>2 DEF SettlersKept
    <2>2. CASE run'[q][j].pc = run[q][j].pc /\ s = run[q][j].sub
      BY <1>1, <1>2, <2>1, <2>2 DEF RecordsInv
    <2>3. CASE /\ row[s].status \in Terminal \/ row'[s].status \in Terminal
               /\ run'[q][j].pc = "finalize" => settled[s] # <<>>
      BY <1>1, <2>1, <2>3
    <2> QED
      BY <1>2, <2>2, <2>3 DEF SettlersKept
  <1>3. ASSUME NEW q \in Runtimes, phase'[q] = "reconcile", NEW x \in todo'[q]
        PROVE  row'[x[1]].status \in Terminal
    <2>1. x \in todo[q] /\ phase[q] = "reconcile"
      BY <1>3 DEF ReconcileKept
    <2>2. x[1] \in Subs
      BY <2>1, TodoType
    <2> QED
      BY <1>1, <2>1, <2>2 DEF RecordsInv
  <1>4. (\A q \in Runtimes : phase[q] = "reconcile" =>
           \A x \in todo[q] : row[x[1]].status \in Terminal)'
    BY <1>3
  <1>5. (\A q \in Runtimes, j \in Sessions :
           /\ run[q][j].pc \in Settling => row[run[q][j].sub].status \in Terminal
           /\ run[q][j].pc = "finalize" => settled[run[q][j].sub] # <<>>)'
    BY <1>2 DEF Settling
  <1> QED
    BY <1>1, <1>4, <1>5 DEF RecordsInv

(* What one more settled record leaves behind. *)
LEMMA AppendEffect ==
  ASSUME StoreType, RunType, NEW r \in Runtimes, NEW k \in Sessions,
         AppendSettled(r, k)
  PROVE  LET s == run[r][k].sub IN
         /\ s \in Subs /\ run[r][k].outcome \in Outcomes
         /\ settled'[s] = Append(settled[s], run[r][k].outcome)
         /\ settled'[s] # <<>> /\ Len(settled'[s]) = Len(settled[s]) + 1
         /\ settled[s] # <<>> => Head(settled'[s]) = Head(settled[s])
         /\ settled[s] = <<>> => /\ Head(settled'[s]) = run[r][k].outcome
                                /\ Len(settled'[s]) = 1
         /\ \A t \in Subs : t # s => settled'[t] = settled[t]
         /\ UNCHANGED <<row, inputs, drives>>
         /\ OnlySlot(r, k, "finalize")
  <1> DEFINE s == run[r][k].sub
             o == run[r][k].outcome
  <1>1. s \in Subs /\ o \in Outcomes
    BY DEF AppendSettled, RunType, Settling
  <1>2. /\ settled'[s] = Append(settled[s], o)
        /\ \A t \in Subs : t # s => settled'[t] = settled[t]
        /\ UNCHANGED <<row, inputs, drives>>
    BY <1>1 DEF AppendSettled, StoreType
  <1>3. settled[s] \in Seq(Outcomes)
    BY <1>1 DEF StoreType
  <1>4. \A q \in Seq(Outcomes) : /\ Append(q, o) # <<>>
                                 /\ Len(Append(q, o)) = Len(q) + 1
                                 /\ q # <<>> => Head(Append(q, o)) = Head(q)
                                 /\ q = <<>> => /\ Head(Append(q, o)) = o
                                               /\ Len(Append(q, o)) = 1
    BY <1>1
  <1>5. OnlySlot(r, k, "finalize")
    BY RunEffect
  <1>6. /\ settled'[s] # <<>> /\ Len(settled'[s]) = Len(settled[s]) + 1
        /\ settled[s] # <<>> => Head(settled'[s]) = Head(settled[s])
        /\ settled[s] = <<>> => Head(settled'[s]) = o /\ Len(settled'[s]) = 1
    BY <1>2, <1>3, <1>4
  <1> QED
    BY <1>1, <1>2, <1>5, <1>6, Zenon

LEMMA RecordsNext == TypeOK /\ RecordsInv /\ [Next]_vars => RecordsInv'
  <1> SUFFICES ASSUME StoreType, LoopType, RunType, RecordsInv, [Next]_vars
               PROVE  RecordsInv'
    BY DEF TypeOK
  <1>0. /\ row' = row => RowsForward
        /\ SameStatus => RowsForward
        /\ run' = run => SettlersKept
        /\ phase' = phase /\ todo' = todo => ReconcileKept
    BY DEF RowsForward, SameStatus, SettlersKept, ReconcileKept, RunType, Settling
  <1>1. ASSUME NEW r \in Runtimes, Start(r) PROVE RecordsInv'
    <2>1. UNCHANGED <<row, settled, run>>
      BY <1>1 DEF Start, store
    <2> QED
      BY <1>1, <2>1, StartEffect DEF Listed, RecordsInv, Terminal
  <1>2. ASSUME NEW r \in Runtimes, Close(r) PROVE RecordsInv'
    BY <1>0, <1>2, RecordsKept DEF Close, store, loop
  <1>3. ASSUME NEW r \in Runtimes, Crash(r) PROVE RecordsInv'
    <2>1. SettlersKept /\ ReconcileKept
      BY <1>3, CrashEffect, StrikeEffect
      DEF Struck, SettlersKept, ReconcileKept, RunType, Settling
    <2> QED
      BY <1>0, <1>3, <2>1, RecordsKept DEF Crash, store
  <1>4. ASSUME NEW r \in Runtimes, Reconcile(r) PROVE RecordsInv'
    <2>1. PICK x \in todo[r] : /\ x[1] \in Subs
                               /\ phase[r] = "reconcile"
                               /\ NewSlot(r, SessionOf[x[1]], "check", x[1], 0)
      BY <1>4, ReconcileEffect
    <2>2. row[x[1]].status \in Terminal
      BY <2>1 DEF RecordsInv
    <2>3. SettlersKept
      BY <2>1, <2>2 DEF NewSlot, SettlersKept, RunType, Settling
    <2>4. ReconcileKept
      BY <1>4, StrikeEffect DEF Struck, ReconcileKept
    <2> QED
      BY <1>0, <1>4, <2>3, <2>4, RecordsKept DEF Reconcile, store
  <1>5. ASSUME NEW r \in Runtimes, ListExpired(r) PROVE RecordsInv'
    <2>1. ReconcileKept
      BY <1>5, ListExpiredEffect DEF Listed, ReconcileKept
    <2> QED
      BY <1>0, <1>5, <2>1, RecordsKept DEF ListExpired, store
  <1>6. ASSUME NEW r \in Runtimes, Reclaim(r) PROVE RecordsInv'
    <2>1. RowsForward
      BY <1>6, ReclaimEffect DEF SameStatus, OnlyStatus, RowsForward, Terminal
    <2>2. ReconcileKept
      BY <1>6, StrikeEffect DEF Struck, ReconcileKept
    <2> QED
      BY <1>0, <1>6, <2>1, <2>2, RecordsKept DEF Reclaim
  <1>7. ASSUME NEW r \in Runtimes, ListRunnable(r) PROVE RecordsInv'
    <2>1. ReconcileKept
      BY <1>7, ListRunnableEffect DEF Listed, ReconcileKept
    <2> QED
      BY <1>0, <1>7, <2>1, RecordsKept DEF ListRunnable, store
  <1>13. ASSUME NEW r \in Runtimes, LoopExits(r) PROVE RecordsInv'
    <2>1. ReconcileKept
      BY <1>13, ExitEffect DEF Listed, ReconcileKept
    <2> QED
      BY <1>0, <1>13, <2>1, RecordsKept, ExitEffect DEF store
  <1>8. ASSUME NEW r \in Runtimes, ClaimSkipped(r) \/ LoopCallFails(r) PROVE RecordsInv'
    <2>1. ReconcileKept
      BY <1>8, StrikeEffect DEF Struck, ReconcileKept
    <2> QED
      BY <1>0, <1>8, <2>1, RecordsKept DEF ClaimSkipped, LoopCallFails, store
  <1>9. ASSUME NEW r \in Runtimes, ClaimRunnable(r) PROVE RecordsInv'
    <2>1. PICK x \in todo[r] :
           /\ x[1] \in Subs
           /\ row[x[1]].status = "queued" /\ row'[x[1]].status = "running"
           /\ \A t \in Subs : t # x[1] => row'[t] = row[t]
           /\ NewSlot(r, SessionOf[x[1]], "claimed", x[1], row[x[1]].count + 1)
      BY <1>9, ClaimEffect
    <2>2. RowsForward
      BY <2>1 DEF RowsForward, Terminal
    <2>3. SettlersKept
      BY <2>1 DEF NewSlot, SettlersKept, RunType, Settling
    <2>4. ReconcileKept
      BY <1>9, StrikeEffect DEF Struck, ReconcileKept
    <2> QED
      BY <1>9, <2>2, <2>3, <2>4, RecordsKept DEF ClaimRunnable
  <1>10. ASSUME NEW r \in Runtimes, NEW k \in Sessions,
                RunStep(r, k) \/ RunCallFails(r, k) \/ RenewLease(r, k)
         PROVE  RecordsInv'
    <2>1. UNCHANGED <<phase, todo>>
      BY <1>10 DEF RunStep, StartAttempt, Begin, CheckInput, AuthorInput,
           LeaseLost, DriveInterrupted, DriveTransient, DriveEnds, Release,
           ReserveSettlement, CheckSettled, AppendSettled, FinalizeSettlement,
           RunCallFails, RenewLease, loop
    <2> DEFINE s == run[r][k].sub
    <2>2. run[r][k].pc # "idle" => s \in Subs
      BY DEF RunType
    <2>3. ASSUME NEW p \in RunPhases, OnlySlot(r, k, p), p \notin Settling
          PROVE  SettlersKept
      BY <2>3 DEF OnlySlot, SettlersKept, RunType, Settling
    <2>4. CASE UNCHANGED <<row, settled>> /\ \E p \in {"idle", "begin", "input",
                 "author", "model", "release", "settle"} : OnlySlot(r, k, p)
      <3>1. SettlersKept
        BY <2>3, <2>4 DEF RunPhases, Owning, Driving, Settling
      <3> QED
        BY <1>0, <2>1, <2>4, <3>1, RecordsKept
    <2>5. CASE Release(r, k)
      <3>1. SettlersKept
        BY <2>3, <2>5, RunEffect DEF RunPhases, Settling
      <3>2. RowsForward
        BY <2>2, <2>5, RunEffect
        DEF Release, SameStatus, OnlyStatus, RowsForward, Terminal
      <3> QED
        BY <1>0, <2>1, <2>5, <3>1, <3>2, RecordsKept DEF Release
    <2>6. CASE ReserveSettlement(r, k)
      <3>1. SettlersKept
        <4>1. CASE OnlySlot(r, k, "idle")
          BY <2>3, <4>1 DEF RunPhases, Settling
        <4>2. CASE OnlySlot(r, k, "check") /\ OnlyStatus(s, "terminalizing")
          BY <2>2, <2>6, <4>2
          DEF ReserveSettlement, OnlySlot, OnlyStatus, SettlersKept, Terminal, RunType, Settling
        <4> QED
          BY <2>6, <4>1, <4>2, RunEffect
      <3>2. RowsForward
        <4>1. \/ SameStatus
              \/ row[s].status = "running" /\ OnlyStatus(s, "terminalizing")
          BY <2>6, RunEffect, Zenon
        <4> QED
          BY <4>1 DEF SameStatus, OnlyStatus, RowsForward, Terminal
      <3> QED
        BY <1>0, <2>1, <2>6, <3>1, <3>2, RecordsKept DEF ReserveSettlement
    <2>7. CASE CheckSettled(r, k)
      <3>1. run[r][k].pc \in Settling /\ UNCHANGED <<row, settled>>
        BY <2>7 DEF CheckSettled, Settling, store
      <3>2. s \in Subs /\ row[s].status \in Terminal
        BY <2>2, <3>1 DEF RecordsInv, Settling
      <3>3. \E p \in {"append", "finalize"} :
              OnlySlot(r, k, p) /\ (p = "finalize" => settled[s] # <<>>)
        BY <2>7, RunEffect, Zenon
      <3>4. PICK p \in {"append", "finalize"} :
              OnlySlot(r, k, p) /\ (p = "finalize" => settled[s] # <<>>)
        BY <3>3
      <3>5. SettlersKept
        BY <3>2, <3>4 DEF OnlySlot, SettlersKept, RunType, Settling
      <3> QED
        BY <1>0, <2>1, <3>1, <3>5, RecordsKept
    <2>8. CASE AppendSettled(r, k)
      <3>1. row[s].status \in Terminal
        BY <2>8 DEF AppendSettled, RecordsInv, Settling
      <3>2. /\ s \in Subs /\ settled'[s] # <<>>
            /\ \A t \in Subs : t # s => settled'[t] = settled[t]
            /\ row' = row /\ OnlySlot(r, k, "finalize")
        BY <2>8, AppendEffect
      <3>3. (\A t \in Subs :
               /\ row[t].status \notin Terminal => settled[t] = <<>>
               /\ row[t].status = "settled" => settled[t] # <<>>)'
        BY <3>1, <3>2 DEF RecordsInv
      <3>4. (\A q \in Runtimes, j \in Sessions :
               /\ run[q][j].pc \in Settling => row[run[q][j].sub].status \in Terminal
               /\ run[q][j].pc = "finalize" => settled[run[q][j].sub] # <<>>)'
        <4> SUFFICES ASSUME NEW q \in Runtimes, NEW j \in Sessions
                     PROVE  /\ run'[q][j].pc \in Settling =>
                                 row[run'[q][j].sub].status \in Terminal
                            /\ run'[q][j].pc = "finalize" =>
                                 settled'[run'[q][j].sub] # <<>>
          BY <3>2
        <4>1. CASE q = r /\ j = k
          BY <3>1, <3>2, <4>1 DEF OnlySlot
        <4>2. CASE run'[q][j] = run[q][j]
          <5>1. run[q][j].pc \in Settling => run[q][j].sub \in Subs
            BY DEF RunType, Settling
          <5> QED
            BY <3>2, <4>2, <5>1 DEF RecordsInv, Settling
        <4> QED
          BY <3>2, <4>1, <4>2 DEF OnlySlot
      <3> QED
        BY <2>1, <3>2, <3>3, <3>4 DEF RecordsInv
    <2>9. CASE FinalizeSettlement(r, k)
      <3>1. s \in Subs /\ settled[s] # <<>> /\ UNCHANGED settled
        BY <2>2, <2>9 DEF FinalizeSettlement, RecordsInv
      <3>2. SettlersKept
        BY <2>3, <2>9, RunEffect DEF RunPhases, Settling
      <3>3. RowsForward
        BY <2>9, <3>1, RunEffect DEF SameStatus, OnlyStatus, RowsForward
      <3> QED
        BY <1>0, <2>1, <3>1, <3>2, <3>3, RecordsKept
    <2>10. CASE RenewLease(r, k)
      <3>1. SettlersKept
        BY <2>10, RunEffect DEF OnlySlot, SettlersKept, RunType, Settling
      <3> QED
        BY <1>0, <2>1, <2>10, <3>1, RunEffect, RecordsKept DEF RenewLease
    <2> QED
      BY <1>10, <2>4, <2>5, <2>6, <2>7, <2>8, <2>9, <2>10, RunEffect
      DEF RunStep, StartAttempt, Begin, CheckInput, AuthorInput, LeaseLost,
          DriveInterrupted, DriveTransient, DriveEnds, RunCallFails, store
  <1>11. ASSUME NEW s \in Subs, Dispatch(s) \/ LeaseExpires(s) \/ DeadlinePasses(s)
         PROVE  RecordsInv'
    <2>1. UNCHANGED <<settled, run, phase, todo>>
      BY <1>11 DEF Dispatch, LeaseExpires, DeadlinePasses, loop
    <2>2. RowsForward
      BY <1>11, TimeEffect DEF SameStatus, OnlyStatus, RowsForward, Terminal
    <2> QED
      BY <1>0, <2>1, <2>2, RecordsKept
  <1>12. CASE UNCHANGED vars
    BY <1>0, <1>12, RecordsKept DEF vars
  <1> QED
    BY <1>1, <1>2, <1>3, <1>4, <1>5, <1>6, <1>7, <1>8, <1>9, <1>10, <1>11,
       <1>12, <1>13 DEF Next, LoopStep

----------------------------------------------------------------------------
(* Head-of-line order. *)

(* The only moves a row makes, and the listing it was claimed from. *)
RowStep(t) ==
  \/ row'[t].status = row[t].status
  \/ row[t].status = "absent" /\ row'[t].status = "queued" /\ Dispatch(t)
  \/ /\ row[t].status = "queued" /\ row'[t].status = "running"
     /\ \E r \in Runtimes : phase[r] = "claim" /\ \E x \in todo[r] : x[1] = t
  \/ row[t].status = "running" /\ row'[t].status \in {"queued", "terminalizing"}
  \/ /\ row[t].status = "terminalizing" /\ row'[t].status = "settled"
     /\ settled[t] # <<>>

LEMMA RowsStep ==
  ASSUME StoreType, LoopType, RunType, RecordsInv, [Next]_vars
  PROVE  \A t \in Subs : RowStep(t)
  <1>1. ASSUME row' = row \/ SameStatus PROVE \A t \in Subs : RowStep(t)
    BY <1>1 DEF SameStatus, RowStep
  <1>2. ASSUME NEW r \in Runtimes,
               \/ Start(r) \/ Close(r) \/ Crash(r) \/ Reconcile(r) \/ ListExpired(r)
               \/ ListRunnable(r) \/ ClaimSkipped(r) \/ LoopExits(r)
               \/ LoopCallFails(r)
        PROVE  row' = row
    BY <1>2 DEF Start, Close, Crash, Reconcile, ListExpired, ListRunnable,
                ClaimSkipped, LoopExits, LoopCallFails, store
  <1>3. ASSUME NEW r \in Runtimes, Reclaim(r) PROVE \A t \in Subs : RowStep(t)
    BY <1>1, <1>3, ReclaimEffect DEF OnlyStatus, RowStep
  <1>4. ASSUME NEW r \in Runtimes, ClaimRunnable(r) PROVE \A t \in Subs : RowStep(t)
    BY <1>4, ClaimEffect DEF RowStep
  <1>5. ASSUME NEW r \in Runtimes, NEW k \in Sessions,
               RunStep(r, k) \/ RunCallFails(r, k) \/ RenewLease(r, k)
        PROVE  \A t \in Subs : RowStep(t)
    <2> DEFINE s == run[r][k].sub
    <2>1. CASE StartAttempt(r, k) \/ Begin(r, k) \/ CheckInput(r, k)
               \/ AuthorInput(r, k) \/ LeaseLost(r, k) \/ DriveInterrupted(r, k)
               \/ DriveTransient(r, k) \/ DriveEnds(r, k) \/ CheckSettled(r, k)
               \/ AppendSettled(r, k) \/ RunCallFails(r, k)
      BY <1>1, <2>1 DEF StartAttempt, Begin, CheckInput, AuthorInput, LeaseLost,
         DriveInterrupted, DriveTransient, DriveEnds, CheckSettled,
         AppendSettled, RunCallFails, store
    <2>2. CASE Release(r, k)
      <3>1. s \in Subs
        BY <2>2 DEF Release, RunType
      <3> QED
        BY <1>1, <2>2, <3>1, RunEffect DEF OnlyStatus, RowStep
    <2>3. CASE ReserveSettlement(r, k)
      <3>1. s \in Subs
        BY <2>3 DEF ReserveSettlement, RunType
      <3> QED
        BY <1>1, <2>3, <3>1, RunEffect DEF OnlyStatus, RowStep
    <2>4. CASE FinalizeSettlement(r, k)
      <3>1. s \in Subs /\ settled[s] # <<>>
        BY <2>4 DEF FinalizeSettlement, RunType, RecordsInv
      <3> QED
        BY <1>1, <2>4, <3>1, RunEffect DEF OnlyStatus, RowStep
    <2>5. CASE RenewLease(r, k)
      BY <1>1, <2>5, RunEffect
    <2> QED
      BY <1>5, <2>1, <2>2, <2>3, <2>4, <2>5 DEF RunStep
  <1>6. ASSUME NEW s \in Subs, Dispatch(s) \/ LeaseExpires(s) \/ DeadlinePasses(s)
        PROVE  \A t \in Subs : RowStep(t)
    BY <1>1, <1>6, TimeEffect DEF OnlyStatus, RowStep
  <1> QED
    BY <1>1, <1>2, <1>3, <1>4, <1>5, <1>6 DEF Next, LoopStep, vars

(* A claim listing holds what it held, or heads of their sessions. *)
LEMMA ClaimListing ==
  ASSUME LoopType, [Next]_vars, NEW q \in Runtimes, phase'[q] = "claim",
         NEW x \in todo'[q]
  PROVE  \/ phase[q] = "claim" /\ x \in todo[q]
         \/ x[1] \in Subs /\ Runnable(x[1])
  <1>1. ASSUME NEW r \in Runtimes, Start(r)
        PROVE  phase[q] = "claim" /\ x \in todo[q]
    BY <1>1, StartEffect DEF Listed
  <1>2. ASSUME NEW r \in Runtimes, ListExpired(r)
        PROVE  phase[q] = "claim" /\ x \in todo[q]
    BY <1>2, ListExpiredEffect DEF Listed
  <1>7. ASSUME NEW r \in Runtimes, LoopExits(r)
        PROVE  phase[q] = "claim" /\ x \in todo[q]
    BY <1>7, ExitEffect DEF Listed
  <1>3. ASSUME NEW r \in Runtimes, ListRunnable(r)
        PROVE  \/ phase[q] = "claim" /\ x \in todo[q]
               \/ x[1] \in Subs /\ Runnable(x[1])
    BY <1>3, ListRunnableEffect DEF Listed
  <1>4. ASSUME NEW r \in Runtimes,
               \/ Crash(r) \/ Reconcile(r) \/ Reclaim(r) \/ ClaimSkipped(r)
               \/ ClaimRunnable(r) \/ LoopCallFails(r)
        PROVE  phase[q] = "claim" /\ x \in todo[q]
    BY <1>4, StrikeEffect DEF Struck
  <1>5. ASSUME NEW r \in Runtimes, NEW k \in Sessions,
               RunStep(r, k) \/ RunCallFails(r, k) \/ RenewLease(r, k)
        PROVE  UNCHANGED loop
    BY <1>5 DEF RunStep, StartAttempt, Begin, CheckInput, AuthorInput,
       LeaseLost, DriveInterrupted, DriveTransient, DriveEnds, Release,
       ReserveSettlement, CheckSettled, AppendSettled, FinalizeSettlement,
       RunCallFails, RenewLease
  <1>6. ASSUME \/ \E r \in Runtimes : Close(r)
               \/ \E s \in Subs : Dispatch(s) \/ LeaseExpires(s) \/ DeadlinePasses(s)
               \/ UNCHANGED vars
        PROVE  UNCHANGED loop
    BY <1>6 DEF Close, Dispatch, LeaseExpires, DeadlinePasses, vars, loop
  <1> QED
    BY <1>1, <1>2, <1>3, <1>4, <1>5, <1>6, <1>7 DEF Next, LoopStep, loop

LEMMA OrderInit == Init => OrderInv
  BY DEF Init, OrderInv, Terminal

LEMMA OrderNext ==
  TypeOK /\ RecordsInv /\ OrderInv /\ [Next]_vars => OrderInv'
  <1> SUFFICES ASSUME StoreType, LoopType, RunType, RecordsInv, OrderInv, [Next]_vars
               PROVE  OrderInv'
    BY DEF TypeOK
  <1>1. \A t \in Subs : row[t].status = "settled" => row'[t].status = "settled"
    BY RowsStep DEF RowStep
  <1>2. \A s \in Subs : EarlierSettled(s) => EarlierSettled(s)'
    BY <1>1 DEF EarlierSettled, Earlier
  <1>3. ASSUME NEW s \in Subs, row'[s].status \in {"running"} \cup Terminal
        PROVE  EarlierSettled(s)'
    <2>1. CASE row[s].status \in {"running"} \cup Terminal
      BY <1>2, <2>1 DEF OrderInv
    <2>2. CASE row[s].status \notin {"running"} \cup Terminal
      <3>1. PICK r \in Runtimes : phase[r] = "claim" /\ \E x \in todo[r] : x[1] = s
        BY <1>3, <2>2, RowsStep DEF RowStep, Terminal
      <3> QED
        BY <1>2, <3>1 DEF OrderInv
    <2> QED
      BY <2>1, <2>2
  <1>4. ASSUME NEW q \in Runtimes, phase'[q] = "claim", NEW x \in todo'[q]
        PROVE  EarlierSettled(x[1])'
    <2>1. CASE phase[q] = "claim" /\ x \in todo[q]
      BY <1>2, <2>1, TodoType DEF OrderInv
    <2>2. CASE x[1] \in Subs /\ Runnable(x[1])
      BY <1>2, <2>2 DEF Runnable, EarlierSettled
    <2> QED
      BY <1>4, <2>1, <2>2, ClaimListing
  <1>5. (\A s \in Subs : row[s].status \in {"running"} \cup Terminal =>
                           EarlierSettled(s))'
    BY <1>3
  <1>6. (\A q \in Runtimes : phase[q] = "claim" =>
           \A x \in todo[q] : EarlierSettled(x[1]))'
    BY <1>4
  <1> QED
    BY <1>5, <1>6 DEF OrderInv

----------------------------------------------------------------------------
(* One goroutine per submission, when runtimes do not overlap. *)

CountsKept == \A t \in Subs : row'[t].count = row[t].count

(* A step of a run goroutine moves its own slot and no other. *)
LEMMA RunStepEffect ==
  ASSUME StoreType, RunType, NEW r \in Runtimes, NEW k \in Sessions,
         RunStep(r, k) \/ RunCallFails(r, k) \/ RenewLease(r, k)
  PROVE  /\ run[r][k].pc # "idle" /\ run[r][k].sub \in Subs
         /\ UNCHANGED <<up, phase>> /\ CountsKept
         /\ \E p \in RunPhases : OnlySlot(r, k, p)
  <1> USE DEF RunPhases, Owning, Driving, Settling, CountsKept
  <1>1. /\ run[r][k].pc # "idle"
        /\ UNCHANGED <<up, phase>>
    BY DEF RunStep, StartAttempt, Begin, CheckInput, AuthorInput,
       LeaseLost, DriveInterrupted, DriveTransient, DriveEnds, Release,
       ReserveSettlement, CheckSettled, AppendSettled, FinalizeSettlement,
       RunCallFails, RenewLease, loop
  <1>2. run[r][k].pc \in RunPhases /\ run[r][k].sub \in Subs
    BY <1>1 DEF RunType, Slot
  <1>3. \E p \in RunPhases : OnlySlot(r, k, p)
    BY <1>2, RunEffect DEF RunStep
  <1>4. CASE row' = row
    BY <1>1, <1>2, <1>3, <1>4
  <1>5. CASE Release(r, k) \/ ReserveSettlement(r, k) \/ FinalizeSettlement(r, k)
             \/ RenewLease(r, k)
    BY <1>1, <1>2, <1>3, <1>5, RunEffect DEF SameStatus, OnlyStatus
  <1> QED
    BY <1>4, <1>5 DEF RunStep, StartAttempt, Begin, CheckInput, AuthorInput,
       LeaseLost, DriveInterrupted, DriveTransient, DriveEnds, CheckSettled,
       AppendSettled, RunCallFails, store

(* Every other step but a claim and a reconciliation leaves the goroutines
   and what they count alone, or ends some of them. *)
Quiet ==
  /\ UNCHANGED <<inputs, settled, drives>>
  /\ CountsKept
  /\ \A q \in Runtimes, j \in Sessions :
       run'[q][j].pc # "idle" => run'[q][j] = run[q][j]

LEMMA QuietOrNot ==
  ASSUME StoreType, LoopType, RunType, [Next]_vars
  PROVE  \/ Quiet
         \/ \E r \in Runtimes : Reconcile(r) \/ ClaimRunnable(r)
         \/ \E r \in Runtimes, k \in Sessions :
              RunStep(r, k) \/ RunCallFails(r, k) \/ RenewLease(r, k)
  <1>1. ASSUME NEW r \in Runtimes,
               \/ Start(r) \/ Close(r) \/ ListExpired(r) \/ ListRunnable(r)
               \/ ClaimSkipped(r) \/ LoopExits(r) \/ LoopCallFails(r)
        PROVE  Quiet
    BY <1>1 DEF Start, Close, ListExpired, ListRunnable, ClaimSkipped,
                LoopExits, LoopCallFails, store, Quiet, CountsKept
  <1>2. ASSUME NEW r \in Runtimes, Crash(r) PROVE Quiet
    BY <1>2, CrashEffect DEF Crash, store, Quiet, CountsKept
  <1>3. ASSUME NEW r \in Runtimes, Reclaim(r) PROVE Quiet
    <2>1. CountsKept
      BY <1>3, ReclaimEffect DEF SameStatus, OnlyStatus, CountsKept
    <2> QED
      BY <1>3, <2>1 DEF Reclaim, Quiet
  <1>4. ASSUME NEW s \in Subs, Dispatch(s) \/ LeaseExpires(s) \/ DeadlinePasses(s)
        PROVE  Quiet
    <2>1. CountsKept
      BY <1>4, TimeEffect DEF SameStatus, OnlyStatus, CountsKept
    <2> QED
      BY <1>4, <2>1 DEF Dispatch, LeaseExpires, DeadlinePasses, Quiet
  <1>5. CASE UNCHANGED vars
    BY <1>5 DEF vars, Quiet, CountsKept
  <1> QED
    BY <1>1, <1>2, <1>3, <1>4, <1>5 DEF Next, LoopStep

(* The session guard leaves no two goroutines on one submission. *)
LEMMA SoleWorker ==
  ASSUME SessionGuard, NEW q \in Runtimes, NEW r \in Runtimes,
         NEW j \in Sessions, NEW k \in Sessions,
         run[q][j].pc # "idle", run[r][k].pc # "idle",
         run[q][j].sub = run[r][k].sub
  PROVE  q = r /\ j = k
  BY DEF SessionGuard, Stopped, Busy

LEMMA GuardInit == Init => SessionGuard
  BY IdleType DEF Init, SessionGuard, Busy, Stopped

LEMMA GuardNext ==
  TypeOK /\ SessionGuard /\ ~Overlap /\ [Next]_vars => SessionGuard'
  <1> SUFFICES ASSUME StoreType, LoopType, RunType, SessionGuard, ~Overlap, [Next]_vars
               PROVE  SessionGuard'
    BY DEF TypeOK
  <1>1. ASSUME NEW r \in Runtimes, Start(r) PROVE SessionGuard'
    <2>1. /\ up'[r] = "up" /\ run' = run
          /\ \A q \in Runtimes : q # r => up'[q] = up[q] /\ phase'[q] = phase[q]
          /\ \A q \in Runtimes : Stopped(q)
      BY <1>1 DEF Start, LoopType
    <2>2. \A q \in Runtimes : q # r => Stopped(q)'
      BY <2>1 DEF Stopped, Busy
    <2>3. \A q \in Runtimes : up'[q] \in {"new", "down"} => ~Busy(q)'
      BY <2>1 DEF SessionGuard, Busy
    <2> QED
      BY <2>1, <2>2, <2>3 DEF SessionGuard
  <1>2. ASSUME NEW r \in Runtimes, Close(r) PROVE SessionGuard'
    BY <1>2 DEF Close, SessionGuard, Stopped, Busy, LoopType, loop
  <1>3. ASSUME NEW r \in Runtimes, Crash(r) PROVE SessionGuard'
    <2>1. /\ up' = [up EXCEPT ![r] = "down"] /\ phase' = phase
          /\ \A k \in Sessions : run'[r][k].pc = "idle"
          /\ \A q \in Runtimes : q # r => run'[q] = run[q]
      BY <1>3, CrashEffect DEF Crash
    <2>2. up'[r] = "down" /\ \A q \in Runtimes : q # r => up'[q] = up[q]
      BY <2>1 DEF LoopType
    <2>3. \A q \in Runtimes : Stopped(q) => Stopped(q)'
      BY <2>1, <2>2 DEF Stopped, Busy
    <2>4. \A q \in Runtimes : up'[q] \in {"new", "down"} => ~Busy(q)'
      BY <2>1, <2>2 DEF SessionGuard, Busy
    <2>5. \A q \in Runtimes, k \in Sessions :
            run'[q][k].pc # "idle" => SessionOf[run'[q][k].sub] = k
      BY <2>1 DEF SessionGuard
    <2> QED
      BY <2>3, <2>4, <2>5 DEF SessionGuard
  <1>4. ASSUME NEW r \in Runtimes, UNCHANGED <<up, phase>>,
               up[r] \in {"up", "closing"}, ~Stopped(r),
               \A q \in Runtimes, j \in Sessions : q # r => run'[q][j] = run[q][j],
               \A j \in Sessions : run'[r][j].pc # "idle" => SessionOf[run'[r][j].sub] = j
        PROVE  SessionGuard'
    <2>1. \A q \in Runtimes : q # r => Stopped(q)
      BY <1>4 DEF SessionGuard
    <2>2. \A q \in Runtimes : q # r => (Busy(q)' <=> Busy(q))
      BY <1>4 DEF Busy
    <2>3. \A q \in Runtimes : q # r => Stopped(q)'
      BY <1>4, <2>1, <2>2 DEF Stopped
    <2>4. \A q \in Runtimes : up'[q] \in {"new", "down"} => ~Busy(q)'
      BY <1>4, <2>2 DEF SessionGuard
    <2>5. \A q \in Runtimes, j \in Sessions :
            run'[q][j].pc # "idle" => SessionOf[run'[q][j].sub] = j
      BY <1>4 DEF SessionGuard
    <2> QED
      BY <2>3, <2>4, <2>5 DEF SessionGuard
  <1>5. ASSUME NEW r \in Runtimes, Reconcile(r) \/ ClaimRunnable(r)
        PROVE  SessionGuard'
    <2>1. PICK s \in Subs, p \in RunPhases, n \in Nat : NewSlot(r, SessionOf[s], p, s, n)
      <3>1. CASE Reconcile(r)
        BY <3>1, ReconcileEffect DEF RunPhases, Settling
      <3>2. CASE ClaimRunnable(r)
        BY <3>2, ClaimEffect DEF RunPhases, Owning, StoreType, Row
      <3> QED
        BY <1>5, <3>1, <3>2
    <2>2. SessionOf[s] \in Sessions
      BY DEF Subs
    <2>3. UNCHANGED <<up, phase>> /\ up[r] \in {"up", "closing"} /\ ~Stopped(r)
      BY <1>5 DEF Reconcile, ClaimRunnable, LoopFree, Stopped
    <2> QED
      BY <1>4, <2>1, <2>2, <2>3 DEF NewSlot, SessionGuard
  <1>6. ASSUME NEW r \in Runtimes, NEW k \in Sessions,
               RunStep(r, k) \/ RunCallFails(r, k) \/ RenewLease(r, k)
        PROVE  SessionGuard'
    <2>1. run[r][k].pc # "idle" /\ UNCHANGED <<up, phase>>
      BY <1>6, RunStepEffect
    <2>2. PICK p \in RunPhases : OnlySlot(r, k, p)
      BY <1>6, RunStepEffect
    <2>3. up[r] \in {"up", "closing"} /\ ~Stopped(r)
      BY <2>1 DEF SessionGuard, Busy, Stopped, LoopType
    <2> QED
      BY <1>4, <2>1, <2>2, <2>3 DEF OnlySlot, SessionGuard
  <1>7. ASSUME UNCHANGED <<up, phase, run>> PROVE SessionGuard'
    BY <1>7 DEF SessionGuard, Stopped, Busy
  <1>8. ASSUME NEW r \in Runtimes, UNCHANGED <<up, run>>, phase[r] # "done",
               \A q \in Runtimes : q # r => phase'[q] = phase[q]
        PROVE  SessionGuard'
    <2>1. \A q \in Runtimes : Busy(q)' <=> Busy(q)
      BY <1>8 DEF Busy
    <2>2. \A q \in Runtimes : Stopped(q) => Stopped(q)'
      BY <1>8, <2>1 DEF Stopped
    <2> QED
      BY <1>8, <2>1, <2>2 DEF SessionGuard
  <1>9. ASSUME NEW r \in Runtimes, ListExpired(r) \/ ListRunnable(r) \/ LoopExits(r)
        PROVE  SessionGuard'
    BY <1>8, <1>9 DEF ListExpired, ListRunnable, LoopExits, LoopType
  <1> QED
    BY <1>1, <1>2, <1>3, <1>5, <1>6, <1>7, <1>9
    DEF Next, LoopStep, Reclaim, ClaimSkipped,
        LoopCallFails, Dispatch, LeaseExpires, DeadlinePasses, loop, vars

----------------------------------------------------------------------------
(* Check-then-append, and the attempt budget. *)

LEMMA OnceInit == Init => OnceInv
  BY IdleType DEF Init, OnceInv

LEMMA OnceNext ==
  TypeOK /\ SessionGuard /\ OnceInv /\ [Next]_vars => OnceInv'
  <1> SUFFICES ASSUME StoreType, LoopType, RunType, SessionGuard, OnceInv, [Next]_vars
               PROVE  OnceInv'
    BY DEF TypeOK
  <1>1. CASE Quiet
    BY <1>1 DEF Quiet, OnceInv
  <1>2. ASSUME NEW r \in Runtimes, Reconcile(r) PROVE OnceInv'
    <2>1. UNCHANGED <<inputs, settled>>
      BY <1>2 DEF Reconcile, store
    <2> QED
      BY <1>2, <2>1, ReconcileEffect DEF NewSlot, OnceInv
  <1>3. ASSUME NEW r \in Runtimes, ClaimRunnable(r) PROVE OnceInv'
    <2>1. UNCHANGED <<inputs, settled>>
      BY <1>3 DEF ClaimRunnable
    <2> QED
      BY <1>3, <2>1, ClaimEffect DEF NewSlot, OnceInv
  <1>4. ASSUME NEW r \in Runtimes, NEW k \in Sessions,
               RunStep(r, k) \/ RunCallFails(r, k) \/ RenewLease(r, k)
        PROVE  OnceInv'
    <2> DEFINE s == run[r][k].sub
    <2>1. run[r][k].pc # "idle" /\ s \in Subs
      BY <1>4, RunStepEffect
    <2>2. ASSUME NEW q \in Runtimes, NEW j \in Sessions, q # r \/ j # k,
                 run[q][j].pc # "idle"
          PROVE  run[q][j].sub # s
      BY <2>1, <2>2, SoleWorker
    <2>3. ASSUME NEW p \in RunPhases, OnlySlot(r, k, p), UNCHANGED <<inputs, settled>>,
                 p = "append" => settled[s] = <<>>,
                 p = "author" => inputs[s] = 0
          PROVE  OnceInv'
      BY <2>3 DEF OnlySlot, OnceInv
    <2>4. CASE AuthorInput(r, k)
      <3>1. /\ inputs'[s] = inputs[s] + 1 /\ inputs[s] = 0
            /\ \A t \in Subs : t # s => inputs'[t] = inputs[t]
            /\ UNCHANGED settled
        BY <2>1, <2>4 DEF AuthorInput, StoreType, OnceInv
      <3>2. OnlySlot(r, k, "model")
        BY <2>4, RunEffect
      <3>3. \A t \in Subs : Len(settled'[t]) <= 1 /\ inputs'[t] <= 1
        BY <3>1 DEF OnceInv
      <3>4. ASSUME NEW q \in Runtimes, NEW j \in Sessions
            PROVE  /\ run'[q][j].pc = "append" => settled'[run'[q][j].sub] = <<>>
                   /\ run'[q][j].pc = "author" => inputs'[run'[q][j].sub] = 0
        <4>1. CASE q = r /\ j = k
          BY <3>2, <4>1 DEF OnlySlot
        <4>2. CASE q # r \/ j # k
          BY <2>2, <3>1, <3>2, <4>2 DEF OnlySlot, OnceInv, RunType
        <4> QED
          BY <4>1, <4>2
      <3> QED
        BY <3>3, <3>4 DEF OnceInv
    <2>5. CASE AppendSettled(r, k)
      <3>1. settled[s] = <<>>
        BY <2>5 DEF AppendSettled, OnceInv
      <3>2. /\ Len(settled'[s]) = 1
            /\ \A t \in Subs : t # s => settled'[t] = settled[t]
            /\ UNCHANGED inputs /\ OnlySlot(r, k, "finalize")
        BY <2>5, <3>1, AppendEffect
      <3>3. ASSUME NEW t \in Subs PROVE Len(settled'[t]) <= 1 /\ inputs'[t] <= 1
        <4>1. CASE t = s
          <5>1. Len(settled'[t]) = 1 /\ inputs'[t] <= 1
            BY <3>2, <4>1 DEF OnceInv
          <5> QED
            BY <5>1
        <4>2. CASE t # s
          BY <3>2, <4>2 DEF OnceInv
        <4> QED
          BY <4>1, <4>2
      <3>4. ASSUME NEW q \in Runtimes, NEW j \in Sessions
            PROVE  /\ run'[q][j].pc = "append" => settled'[run'[q][j].sub] = <<>>
                   /\ run'[q][j].pc = "author" => inputs'[run'[q][j].sub] = 0
        <4>1. CASE q = r /\ j = k
          BY <3>2, <4>1 DEF OnlySlot
        <4>2. CASE q # r \/ j # k
          BY <2>2, <3>2, <4>2 DEF OnlySlot, OnceInv, RunType
        <4> QED
          BY <4>1, <4>2
      <3> QED
        BY <3>3, <3>4 DEF OnceInv
    <2>6. CASE ~AuthorInput(r, k) /\ ~AppendSettled(r, k)
      <3>1. UNCHANGED <<inputs, settled>>
        BY <1>4, <2>6 DEF RunStep, StartAttempt, Begin, CheckInput,
           LeaseLost, DriveInterrupted, DriveTransient, DriveEnds, Release,
           ReserveSettlement, CheckSettled, FinalizeSettlement,
           RunCallFails, RenewLease, store
      <3>2. PICK p \in RunPhases :
              /\ OnlySlot(r, k, p)
              /\ p = "append" => settled[s] = <<>>
              /\ p = "author" => inputs[s] = 0
        <4>1. CASE RenewLease(r, k)
          BY <4>1, RunEffect DEF RunType, Slot, OnceInv
        <4> QED
          BY <1>4, <2>6, <4>1, RunEffect
          DEF RunStep, RunPhases, Owning, Driving, Settling
      <3> QED
        BY <2>3, <3>1, <3>2
    <2> QED
      BY <2>4, <2>5, <2>6
  <1> QED
    BY <1>1, <1>2, <1>3, <1>4, QuietOrNot

LEMMA BudgetInit == Init => BudgetInv
  BY IdleType DEF Init, BudgetInv

LEMMA BudgetNext ==
  TypeOK /\ SessionGuard /\ BudgetInv /\ [Next]_vars => BudgetInv'
  <1> SUFFICES ASSUME StoreType, LoopType, RunType, HistoryType,
                      SessionGuard, BudgetInv, [Next]_vars
               PROVE  BudgetInv'
    BY DEF TypeOK
  <1>1. CASE Quiet
    BY <1>1 DEF Quiet, CountsKept, BudgetInv, RunType
  <1>2. ASSUME NEW r \in Runtimes, Reconcile(r) PROVE BudgetInv'
    <2>1. UNCHANGED <<row, drives>>
      BY <1>2 DEF Reconcile, store
    <2> QED
      BY <1>2, <2>1, ReconcileEffect DEF NewSlot, BudgetInv
  <1>3. ASSUME NEW r \in Runtimes, ClaimRunnable(r) PROVE BudgetInv'
    <2>1. UNCHANGED drives /\ ~Stopped(r)
      BY <1>3 DEF ClaimRunnable, LoopFree, Stopped
    <2>2. PICK x \in todo[r] :
            /\ x[1] \in Subs
            /\ row'[x[1]].count = row[x[1]].count + 1
            /\ \A t \in Subs : t # x[1] => row'[t] = row[t]
            /\ run[r][SessionOf[x[1]]].pc = "idle"
            /\ NewSlot(r, SessionOf[x[1]], "claimed", x[1], row[x[1]].count + 1)
      BY <1>3, ClaimEffect
    <2> DEFINE s == x[1]
               k == SessionOf[s]
    <2>3. k \in Sessions
      BY <2>2 DEF Subs
    <2>4. row[s].count \in Nat /\ drives[s] \in Nat /\ drives[s] <= row[s].count
      BY <2>2 DEF StoreType, Row, HistoryType, BudgetInv
    <2>5. ASSUME NEW q \in Runtimes, NEW j \in Sessions, run[q][j].pc # "idle"
          PROVE  run[q][j].sub # s
      <3>1. q = r
        BY <2>1, <2>5 DEF SessionGuard, Stopped, Busy
      <3> QED
        BY <2>2, <2>5, <3>1 DEF SessionGuard
    <2>6. \A t \in Subs : drives[t] <= row'[t].count /\ drives[t] <= MaxAttempts
      BY <2>2, <2>4 DEF BudgetInv
    <2>7. ASSUME NEW q \in Runtimes, NEW j \in Sessions,
                 run'[q][j].pc \in {"claimed", "begin"}
          PROVE  /\ run'[q][j].count = row'[run'[q][j].sub].count
                 /\ drives[run'[q][j].sub] < run'[q][j].count
      <3>1. CASE q = r /\ j = k
        BY <2>2, <2>4, <3>1 DEF NewSlot
      <3>2. CASE run'[q][j] = run[q][j]
        BY <2>2, <2>5, <2>7, <3>2 DEF BudgetInv, RunType
      <3> QED
        BY <2>2, <3>1, <3>2 DEF NewSlot
    <2> QED
      BY <2>1, <2>6, <2>7 DEF BudgetInv
  <1>4. ASSUME NEW r \in Runtimes, NEW k \in Sessions,
               RunStep(r, k) \/ RunCallFails(r, k) \/ RenewLease(r, k)
        PROVE  BudgetInv'
    <2> DEFINE s == run[r][k].sub
    <2>1. run[r][k].pc # "idle" /\ s \in Subs /\ CountsKept
      BY <1>4, RunStepEffect
    <2>2. ASSUME NEW q \in Runtimes, NEW j \in Sessions, q # r \/ j # k,
                 run[q][j].pc # "idle"
          PROVE  run[q][j].sub # s
      BY <2>1, <2>2, SoleWorker
    <2>3. ASSUME NEW p \in RunPhases, OnlySlot(r, k, p), UNCHANGED drives,
                 p \in {"claimed", "begin"} => run[r][k].pc \in {"claimed", "begin"}
          PROVE  BudgetInv'
      BY <2>1, <2>3 DEF OnlySlot, CountsKept, BudgetInv, RunType
    <2>4. CASE /\ Begin(r, k) /\ OnlySlot(r, k, "input")
               /\ BudgetLeft(run[r][k].count)
               /\ drives' = [drives EXCEPT ![s] = @ + 1]
      <3>1. /\ drives'[s] = drives[s] + 1 /\ drives[s] \in Nat
            /\ \A t \in Subs : t # s => drives'[t] = drives[t]
        BY <2>1, <2>4 DEF HistoryType
      <3>2. /\ drives[s] < run[r][k].count /\ run[r][k].count = row[s].count
            /\ run[r][k].count <= MaxAttempts /\ run[r][k].count \in Nat
        BY <2>4 DEF Begin, BudgetInv, BudgetLeft, RunType, Slot
      <3>3. drives'[s] <= row[s].count /\ drives'[s] <= MaxAttempts
        BY <3>1, <3>2
      <3>4. \A t \in Subs : drives'[t] <= row'[t].count /\ drives'[t] <= MaxAttempts
        BY <2>1, <3>1, <3>3 DEF CountsKept, BudgetInv
      <3>5. ASSUME NEW q \in Runtimes, NEW j \in Sessions,
                   run'[q][j].pc \in {"claimed", "begin"}
            PROVE  /\ run'[q][j].count = row'[run'[q][j].sub].count
                   /\ drives'[run'[q][j].sub] < run'[q][j].count
        <4>1. ~(q = r /\ j = k) /\ run'[q][j] = run[q][j]
          BY <2>4, <3>5 DEF OnlySlot
        <4>2. run[q][j].sub # s /\ run[q][j].sub \in Subs
          BY <2>2, <3>5, <4>1 DEF RunType
        <4> QED
          BY <2>1, <3>1, <3>5, <4>1, <4>2 DEF CountsKept, BudgetInv
      <3> QED
        BY <3>4, <3>5 DEF BudgetInv
    <2>5. CASE UNCHANGED drives
      <3>1. PICK p \in RunPhases :
              /\ OnlySlot(r, k, p)
              /\ p \in {"claimed", "begin"} => run[r][k].pc \in {"claimed", "begin"}
        <4>1. CASE RenewLease(r, k)
          BY <4>1, RunEffect DEF RunType, Slot
        <4>2. CASE StartAttempt(r, k)
          BY <4>2, RunEffect DEF StartAttempt, RunPhases, Owning
        <4> QED
          BY <1>4, <4>1, <4>2, RunEffect
          DEF RunStep, RunPhases, Owning, Driving, Settling
      <3> QED
        BY <2>3, <2>5, <3>1
    <2>6. \/ UNCHANGED drives
          \/ /\ Begin(r, k) /\ OnlySlot(r, k, "input")
             /\ BudgetLeft(run[r][k].count)
             /\ drives' = [drives EXCEPT ![s] = @ + 1]
      <3>1. CASE Begin(r, k)
        BY <3>1, RunEffect
      <3> QED
        BY <1>4, <3>1 DEF RunStep, StartAttempt, CheckInput, AuthorInput,
           LeaseLost, DriveInterrupted, DriveTransient, DriveEnds, Release,
           ReserveSettlement, CheckSettled, AppendSettled, FinalizeSettlement,
           RunCallFails, RenewLease
    <2> QED
      BY <2>4, <2>5, <2>6
  <1> QED
    BY <1>1, <1>2, <1>3, <1>4, QuietOrNot

----------------------------------------------------------------------------
(* The theorems. *)

(* The inductive invariant holds in every reachable state: whatever the
   submissions, the sessions, the restarts and the failing calls. *)
THEOREM InvariantHolds == Spec => []Invariant
  <1>1. Init => Invariant
    BY TypeInit, RecordsInit, OrderInit, GuardInit, OnceInit, BudgetInit
    DEF Invariant
  <1>2. Invariant /\ [Next]_vars => Invariant'
    BY TypeNext, RecordsNext, OrderNext, GuardNext, OnceNext, BudgetNext
    DEF Invariant
  <1> QED
    BY <1>1, <1>2, PTL DEF Spec

(* When runtimes do not overlap, two-phase settlement leaves no submission
   with two settled records, and no settled row without its record. *)
THEOREM OneSettledRecordHolds ==
  ASSUME ~Overlap
  PROVE  Spec => []OneSettledRecord
  <1>1. Invariant => OneSettledRecord
    <2> SUFFICES ASSUME Invariant, NEW s \in Subs
                 PROVE  /\ Len(settled[s]) <= 1
                        /\ row[s].status = "settled" => Len(settled[s]) = 1
      BY DEF OneSettledRecord
    <2>1. /\ settled[s] \in Seq(Outcomes) /\ Len(settled[s]) <= 1
          /\ row[s].status = "settled" => settled[s] # <<>>
      BY DEF Invariant, TypeOK, StoreType, RecordsInv, OnceInv
    <2>2. \A q \in Seq(Outcomes) : Len(q) \in Nat /\ (q # <<>> => Len(q) # 0)
      OBVIOUS
    <2> DEFINE n == Len(settled[s])
    <2>3. n \in Nat /\ n <= 1 /\ (row[s].status = "settled" => n # 0)
      BY <2>1, <2>2
    <2> HIDE DEF n
    <2>4. n <= 1 /\ (row[s].status = "settled" => n = 1)
      BY <2>3
    <2> QED
      BY <2>4 DEF n
  <1> QED
    BY <1>1, InvariantHolds, PTL

(* When runtimes do not overlap, however many attempts a submission takes,
   its input is authored at most once. *)
THEOREM InputAuthoredOnceHolds ==
  ASSUME ~Overlap
  PROVE  Spec => []InputAuthoredOnce
  <1>1. Invariant => InputAuthoredOnce
    BY DEF Invariant, OnceInv, InputAuthoredOnce
  <1> QED
    BY <1>1, InvariantHolds, PTL

(* When runtimes do not overlap, no sequence of crashes, shutdowns and
   transient errors drives the agent more often than the budget allows. *)
THEOREM BudgetRespectedHolds ==
  ASSUME ~Overlap
  PROVE  Spec => []BudgetRespected
  <1>1. Invariant => BudgetRespected
    BY DEF Invariant, BudgetInv, BudgetRespected
  <1> QED
    BY <1>1, InvariantHolds, PTL

(* Overlapping or not, work starts only at the head of its session. *)
THEOREM HeadOfLineHolds == Spec => []HeadOfLine
  <1>1. Invariant => HeadOfLine
    BY DEF Invariant, OrderInv, EarlierSettled, HeadOfLine, Terminal
  <1> QED
    BY <1>1, InvariantHolds, PTL

(* The settled records of a submission change by an append, or not at all. *)
LEMMA SettledStep ==
  ASSUME [Next]_vars
  PROVE  \/ UNCHANGED settled
         \/ \E r \in Runtimes, k \in Sessions : AppendSettled(r, k)
  <1>1. ASSUME NEW r \in Runtimes,
               Start(r) \/ Close(r) \/ Crash(r) \/ LoopStep(r) \/ LoopCallFails(r)
        PROVE  UNCHANGED settled
    BY <1>1 DEF LoopStep, Start, Close, Crash, Reconcile, ListExpired, Reclaim,
       ListRunnable, ClaimSkipped, ClaimRunnable, LoopExits, LoopCallFails, store
  <1>2. ASSUME NEW r \in Runtimes, NEW k \in Sessions, ~AppendSettled(r, k),
               RunStep(r, k) \/ RunCallFails(r, k) \/ RenewLease(r, k)
        PROVE  UNCHANGED settled
    BY <1>2 DEF RunStep, StartAttempt, Begin, CheckInput, AuthorInput,
       LeaseLost, DriveInterrupted, DriveTransient, DriveEnds, Release,
       ReserveSettlement, CheckSettled, FinalizeSettlement,
       RunCallFails, RenewLease, store
  <1>3. ASSUME \/ \E s \in Subs : Dispatch(s) \/ LeaseExpires(s) \/ DeadlinePasses(s)
               \/ UNCHANGED vars
        PROVE  UNCHANGED settled
    BY <1>3 DEF Dispatch, LeaseExpires, DeadlinePasses, vars
  <1> QED
    BY <1>1, <1>2, <1>3 DEF Next

(* Overlapping or not, a settled row stays settled and the first settled
   record of a submission is never displaced. *)
THEOREM SettledIsFinalHolds == Spec => SettledIsFinal
  <1> DEFINE Final == \A s \in Subs :
               /\ row[s].status = "settled" => row'[s].status = "settled"
               /\ settled[s] # <<>> =>
                    settled'[s] # <<>> /\ Head(settled'[s]) = Head(settled[s])
  <1>1. Invariant /\ [Next]_vars => Final
    <2> SUFFICES ASSUME Invariant, [Next]_vars, NEW s \in Subs
                 PROVE  /\ row[s].status = "settled" => row'[s].status = "settled"
                        /\ settled[s] # <<>> =>
                             settled'[s] # <<>> /\ Head(settled'[s]) = Head(settled[s])
      OBVIOUS
    <2>1. StoreType /\ LoopType /\ RunType /\ RecordsInv
      BY DEF Invariant, TypeOK
    <2>2. row[s].status = "settled" => row'[s].status = "settled"
      BY <2>1, RowsStep DEF RowStep
    <2>3. settled[s] # <<>> => settled'[s] # <<>> /\ Head(settled'[s]) = Head(settled[s])
      <3>1. CASE UNCHANGED settled
        BY <3>1
      <3>2. ASSUME NEW r \in Runtimes, NEW k \in Sessions, AppendSettled(r, k)
            PROVE  settled[s] # <<>> =>
                     settled'[s] # <<>> /\ Head(settled'[s]) = Head(settled[s])
        BY <2>1, <3>2, AppendEffect
      <3> QED
        BY <3>1, <3>2, SettledStep
    <2> QED
      BY <2>2, <2>3
  <1>2. Invariant /\ [Next]_vars => [Final]_vars
    BY <1>1
  <1>3. SettledIsFinal <=> [][Final]_vars
    BY DEF SettledIsFinal
  <1> HIDE DEF Final
  <1> QED
    BY <1>2, <1>3, InvariantHolds, PTL DEF Spec

(* Overlapping or not, a goroutine that outlived its claim moves no row. *)
THEOREM FencedTransitionsHolds == Spec => FencedTransitions
  <1> DEFINE Holder(s) == \E r \in Runtimes :
         \/ /\ row'[s].status = "queued"
            /\ phase[r] = "reclaim"
            /\ <<s, row[s].attempt>> \in todo[r] \ todo'[r]
         \/ \E k \in Sessions :
              /\ run[r][k].sub = s /\ run[r][k].attempt = row[s].attempt
              /\ run[r][k].pc =
                   (IF row'[s].status = "queued" THEN "release" ELSE "settle")
              /\ run'[r][k] # run[r][k]
             Fenced == \A s \in Subs :
               row[s].status = "running" /\ row'[s].status # "running" => Holder(s)
  <1>1. TypeOK /\ RecordsInv /\ [Next]_vars => Fenced
    <2> SUFFICES ASSUME StoreType, LoopType, RunType, RecordsInv, [Next]_vars,
                        NEW s \in Subs,
                        row[s].status = "running", row'[s].status # "running"
                 PROVE  Holder(s)
      BY DEF TypeOK
    <2>1. ASSUME NEW r \in Runtimes, Reclaim(r) PROVE Holder(s)
      <3>1. PICK x \in todo[r] :
              /\ todo' = [todo EXCEPT ![r] = @ \ {x}]
              /\ row' = row \/ (Owned(x[1], x[2]) /\ row' = Released(x[1]))
        BY <2>1 DEF Reclaim
      <3>2. x = <<x[1], x[2]>> /\ x[1] \in Subs /\ x \notin todo'[r]
        <4>1. x \in Subs \X Nat
          BY <3>1 DEF LoopType
        <4> QED
          BY <3>1, <4>1 DEF LoopType
      <3>3. row' = Released(x[1]) /\ row[x[1]].attempt = x[2]
        BY <3>1 DEF Owned
      <3>4. x[1] = s /\ row'[s].status = "queued"
        BY <3>2, <3>3, ReleasedStatus DEF OnlyStatus
      <3> QED
        BY <2>1, <3>2, <3>3, <3>4 DEF Reclaim
    <2>2. ASSUME NEW r \in Runtimes, NEW k \in Sessions,
                 Release(r, k) \/ ReserveSettlement(r, k)
          PROVE  Holder(s)
      <3> DEFINE u == run[r][k].sub
      <3>1. run[r][k].pc \in {"release", "settle"} /\ u \in Subs
        BY <2>2 DEF Release, ReserveSettlement, RunType
      <3>2. Owned(u, run[r][k].attempt)
        BY <2>2 DEF Release, ReserveSettlement
      <3>3. /\ run'[r][k] # run[r][k]
            /\ \/ run[r][k].pc = "release" /\ OnlyStatus(u, "queued")
               \/ run[r][k].pc = "settle" /\ OnlyStatus(u, "terminalizing")
        BY <2>2, <3>1, RunEffect
        DEF Release, ReserveSettlement, SameStatus, OnlySlot
      <3>4. /\ u = s
            /\ run[r][k].pc = (IF row'[s].status = "queued" THEN "release" ELSE "settle")
        BY <3>3 DEF OnlyStatus
      <3> QED
        BY <3>2, <3>3, <3>4 DEF Owned
    <2>3. ASSUME NEW r \in Runtimes,
                 \/ Start(r) \/ Close(r) \/ Crash(r) \/ Reconcile(r) \/ ListExpired(r)
                 \/ ListRunnable(r) \/ ClaimSkipped(r) \/ LoopExits(r)
                 \/ LoopCallFails(r)
          PROVE  FALSE
      BY <2>3 DEF Start, Close, Crash, Reconcile, ListExpired, ListRunnable,
                  ClaimSkipped, LoopExits, LoopCallFails, store
    <2>4. ASSUME NEW r \in Runtimes, ClaimRunnable(r) PROVE FALSE
      BY <2>4, ClaimEffect
    <2>5. ASSUME NEW r \in Runtimes, NEW k \in Sessions,
                 RunStep(r, k) \/ RunCallFails(r, k) \/ RenewLease(r, k)
          PROVE  Release(r, k) \/ ReserveSettlement(r, k)
      <3>1. CASE FinalizeSettlement(r, k)
        <4>1. run[r][k].sub \in Subs
          BY <3>1 DEF FinalizeSettlement, RunType
        <4> QED
          BY <3>1, <4>1, RunEffect DEF SameStatus, OnlyStatus
      <3>2. CASE RenewLease(r, k)
        BY <3>2, RunEffect DEF SameStatus
      <3> QED
        BY <2>5, <3>1, <3>2 DEF RunStep, StartAttempt, Begin, CheckInput,
           AuthorInput, LeaseLost, DriveInterrupted, DriveTransient, DriveEnds,
           CheckSettled, AppendSettled, RunCallFails, store
    <2>6. ASSUME NEW t \in Subs, Dispatch(t) \/ LeaseExpires(t) \/ DeadlinePasses(t)
          PROVE  FALSE
      BY <2>6, TimeEffect DEF SameStatus, OnlyStatus
    <2> HIDE DEF Holder
    <2> QED
      BY <2>1, <2>2, <2>3, <2>4, <2>5, <2>6 DEF Next, LoopStep, vars
  <1>2. Invariant /\ [Next]_vars => [Fenced]_vars
    BY <1>1 DEF Invariant
  <1>3. FencedTransitions <=> [][Fenced]_vars
    BY DEF FencedTransitions
  <1> HIDE DEF Fenced
  <1> QED
    BY <1>2, <1>3, InvariantHolds, PTL DEF Spec

----------------------------------------------------------------------------
(* Coordinator implements SubmissionLifecycle. *)

admittedBar == {s \in Subs : row[s].status # "absent"}

LEMMA ImplementsInit == Init => Lifecycle!Init
  BY DEF Init, Lifecycle!Init, Lifecycle!Subs, Subs, decision

LEMMA ImplementsNext ==
  Invariant /\ [Next]_vars => [Lifecycle!Next]_(Lifecycle!vars)
  <1> SUFFICES ASSUME Invariant, [Next]_vars
               PROVE  Lifecycle!Next \/ UNCHANGED <<admittedBar, decision>>
    BY DEF Lifecycle!vars, admittedBar
  <1>1. StoreType /\ LoopType /\ RunType /\ RecordsInv /\ OrderInv
    BY DEF Invariant, TypeOK
  <1>2. Lifecycle!Subs = Subs
    BY DEF Lifecycle!Subs, Subs
  <1>3. CASE \E s \in Subs : Dispatch(s)
    <2>1. PICK s \in Subs : Dispatch(s)
      BY <1>3
    <2>2. /\ s \notin admittedBar
          /\ \A t \in Subs : t < s => t \in admittedBar
          /\ decision' = decision
      BY <2>1 DEF Dispatch, admittedBar, decision
    <2>3. admittedBar' = admittedBar \cup {s}
      BY <1>1, <2>1, TimeEffect DEF OnlyStatus, admittedBar
    <2> QED
      BY <1>2, <2>2, <2>3 DEF Lifecycle!Next, Lifecycle!Admit, admittedBar
  <1>4. CASE ~\E s \in Subs : Dispatch(s)
    <2>1. UNCHANGED admittedBar
      BY <1>1, <1>4, RowsStep DEF RowStep, admittedBar
    <2>2. CASE UNCHANGED settled
      BY <2>1, <2>2 DEF decision
    <2>3. ASSUME NEW r \in Runtimes, NEW k \in Sessions, AppendSettled(r, k)
          PROVE  Lifecycle!Next \/ UNCHANGED <<admittedBar, decision>>
      <3> DEFINE s == run[r][k].sub
                 o == run[r][k].outcome
      <3>1. /\ s \in Subs /\ o \in Outcomes
            /\ settled'[s] # <<>>
            /\ settled[s] # <<>> => Head(settled'[s]) = Head(settled[s])
            /\ settled[s] = <<>> => Head(settled'[s]) = o
            /\ \A t \in Subs : t # s => settled'[t] = settled[t]
        BY <1>1, <2>3, AppendEffect
      <3>2. CASE settled[s] # <<>>
        BY <2>1, <3>1, <3>2 DEF decision
      <3>3. CASE settled[s] = <<>>
        <4>1. decision[s] = "undecided" /\ decision' = [decision EXCEPT ![s] = o]
          BY <3>1, <3>3 DEF decision
        <4>2. row[s].status \in Terminal
          BY <1>1, <2>3 DEF AppendSettled, RecordsInv, Settling
        <4>3. s \in admittedBar
          BY <3>1, <4>2 DEF admittedBar, Terminal
        <4>4. ASSUME NEW t \in Subs, t < s, SessionOf[t] = SessionOf[s]
              PROVE  decision[t] # "undecided"
          <5>1. row[t].status = "settled"
            BY <1>1, <3>1, <4>2, <4>4 DEF OrderInv, EarlierSettled, Earlier
          <5>2. settled[t] # <<>> /\ settled[t] \in Seq(Outcomes)
            BY <1>1, <5>1 DEF RecordsInv, StoreType
          <5>3. \A q \in Seq(Outcomes) : q # <<>> => Head(q) \in Outcomes
            OBVIOUS
          <5>4. Head(settled[t]) \in Outcomes
            BY <5>2, <5>3
          <5> QED
            BY <5>2, <5>4 DEF decision, Outcomes
        <4> QED
          BY <1>2, <2>1, <3>1, <4>1, <4>3, <4>4
          DEF Lifecycle!Next, Lifecycle!Decide, Lifecycle!SessionHead, admittedBar
      <3> QED
        BY <3>2, <3>3
    <2> QED
      BY <2>1, <2>2, <2>3, SettledStep
  <1> QED
    BY <1>3, <1>4

(* Overlapping or not, the engine keeps the promise of SubmissionLifecycle:
   each submission is decided once, in its session's order. *)
THEOREM Implementation == Spec => ImplementsLifecycle
  BY ImplementsInit, ImplementsNext, InvariantHolds, PTL
  DEF Spec, ImplementsLifecycle, Lifecycle!Spec

=============================================================================
