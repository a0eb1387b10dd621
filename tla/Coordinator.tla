---------------------------- MODULE Coordinator ----------------------------
(***************************************************************************)
(* The durable submission engine (engine.go) over its store: the claim     *)
(* loop, one run goroutine per claimed submission, the heartbeat, two-     *)
(* phase settlement, lease reclaim and startup reconciliation, for         *)
(* submissions that spawn no children (Subagents adds those).              *)
(*                                                                         *)
(* A store call is one atomic step.  Everything a goroutine carries from   *)
(* one store call to the next (a listing, the claimed row, whether a       *)
(* settled record was found) is state, so that other goroutines run in     *)
(* between.  A runtime is one Runtime value over the shared store; they    *)
(* start one after another and only the last is spared a Close or a crash. *)
(*                                                                         *)
(* Bounds: NumSubs submissions, NumRuntimes starts, MaxStoreFails failing  *)
(* store calls.  Nothing else is bounded: the attempt budget bounds the    *)
(* attempts.                                                               *)
(***************************************************************************)
EXTENDS Naturals, Sequences

CONSTANTS NumSubs,        \* submissions are numbered in admission order
          Sessions,       \* session keys
          SessionOf,      \* the session each submission is addressed to
          NumRuntimes,    \* how many times a Runtime is started over the store
          MaxAttempts,    \* the agent's failure-attempt budget
          Deadlined,      \* submissions whose durability timeout may pass
          MaxStoreFails,  \* store calls that may fail
          Overlap         \* may a Runtime start before the one before it ended?

Subs     == 1 .. NumSubs
Runtimes == 1 .. NumRuntimes

ASSUME ConstantsAssumption ==
  /\ NumSubs \in Nat
  /\ NumRuntimes \in Nat
  /\ MaxAttempts \in Nat \ {0}
  /\ MaxStoreFails \in Nat
  /\ SessionOf \in [Subs -> Sessions]
  /\ Deadlined \subseteq Subs
  /\ Overlap \in BOOLEAN

VARIABLES
  (* the store *)
  row,       \* submission rows
  markers,   \* attempt markers, by submission
  inputs,    \* how many input records each submission has in the log
  settled,   \* the submission_settled records of each submission, in log order
  late,      \* submissions past their durability deadline
  (* the runtimes *)
  up,        \* life cycle of each Runtime
  phase,     \* what its claim loop is at
  todo,      \* and what is left of the listing it works through
  run,       \* its run goroutines: one slot per session (coordinator.active)
  (* history and bounds *)
  minted,    \* attempt ids minted for each submission so far
  drives,    \* attempts that went on to drive the agent
  wounded,   \* submissions a failed store call left terminalizing
  fails      \* store calls that failed

store == <<row, markers, inputs, settled, late>>
loop  == <<phase, todo>>
vars  == <<row, markers, inputs, settled, late, up, phase, todo, run,
           minted, drives, wounded, fails>>

Statuses == {"absent", "queued", "running", "terminalizing", "settled"}
Outcomes == {"succeeded", "failed", "attempt_budget", "timeout", "indeterminate"}

(* Phases of a run goroutine, each named for the step it takes next. *)
Driving    == {"input", "author", "model"}
Owning     == {"claimed", "begin", "release", "settle"} \cup Driving
Settling   == {"check", "append", "finalize"}
RunPhases  == {"idle"} \cup Owning \cup Settling
LoopPhases == {"reconcile", "reclaim", "claim", "done"}

Row  == [status : Statuses, attempt : Nat, count : Nat, leased : BOOLEAN]
Slot == [pc : RunPhases, sub : Nat, attempt : Nat, count : Nat,
         outcome : Outcomes \cup {"none"}, lost : BOOLEAN]
NewRun(pc, s, a, n, o) == [pc |-> pc, sub |-> s, attempt |-> a, count |-> n,
                           outcome |-> o, lost |-> FALSE]
Idle == NewRun("idle", 0, 0, 0, "none")

Init ==
  /\ row     = [s \in Subs |-> [status |-> "absent", attempt |-> 0,
                                count |-> 0, leased |-> FALSE]]
  /\ markers = [s \in Subs |-> {}]
  /\ inputs  = [s \in Subs |-> 0]
  /\ settled = [s \in Subs |-> <<>>]
  /\ late    = {}
  /\ up      = [r \in Runtimes |-> "new"]
  /\ phase   = [r \in Runtimes |-> "reconcile"]
  /\ todo    = [r \in Runtimes |-> {}]
  /\ run     = [r \in Runtimes |-> [k \in Sessions |-> Idle]]
  /\ minted  = [s \in Subs |-> 0]
  /\ drives  = [s \in Subs |-> 0]
  /\ wounded = {}
  /\ fails   = 0

----------------------------------------------------------------------------
(* The store's compare-and-swap conditions. *)

Earlier(s) == {t \in Subs : t < s /\ SessionOf[t] = SessionOf[s]}

(* Mistakes: the oldest queued one, or a head that may be terminalizing. *)
OldestQueued(s) == /\ row[s].status = "queued"
                   /\ \A t \in Earlier(s) : row[t].status # "queued"
NotRunningHead(s) ==
  /\ row[s].status = "queued"
  /\ \A t \in Earlier(s) : row[t].status \in {"terminalizing", "settled"}

(* ListRunnable's head: the oldest unsettled submission of its session. *)
Runnable(s) == /\ row[s].status = "queued"
               /\ \A t \in Earlier(s) : row[t].status = "settled"

(* Mistakes: a compare-and-swap on half of its condition. *)
OwnedAnyAttempt(s, a) == row[s].status = "running"
OwnedAnyStatus(s, a)  == row[s].attempt = a

(* The row is running, and this attempt is the one that claimed it. *)
Owned(s, a) == row[s].status = "running" /\ row[s].attempt = a

Released(s) == [row EXCEPT ![s].status = "queued", ![s].attempt = 0,
                           ![s].leased = FALSE]

(* ListExpiredLeases. *)
Expired(s) == row[s].status = "running" /\ ~row[s].leased

(* A listing: the rows in Set with the attempt id each carried. *)
Listing(Set) == {<<s, row[s].attempt>> : s \in Set}

----------------------------------------------------------------------------
(* Life of a Runtime. *)

Busy(r) == \E k \in Sessions : run[r][k].pc # "idle"

(* Mistake: Close returns without waiting for the runs. *)
StoppedWhenClosed(r) == up[r] # "up"

Stopped(r) == \/ up[r] \in {"new", "down"}
              \/ up[r] = "closing" /\ phase[r] = "done" /\ ~Busy(r)

(* Mistake: leave alone the rows whose settled record landed. *)
InterruptedUndecided ==
  {s \in Subs : row[s].status = "terminalizing" /\ settled[s] = <<>>}

Interrupted == {s \in Subs : row[s].status = "terminalizing"}

(* Start, and the listing its loop opens with: the rows a dead process left
   between the two phases of settlement. *)
Start(r) ==
  /\ up[r] = "new"
  /\ \A q \in Runtimes : q < r => up[q] # "new"
  /\ Overlap \/ \A q \in Runtimes : Stopped(q)
  /\ up' = [up EXCEPT ![r] = "up"]
  /\ phase' = [phase EXCEPT ![r] = "reconcile"]
  /\ todo' = [todo EXCEPT ![r] = Listing(Interrupted)]
  /\ UNCHANGED <<store, run, minted, drives, wounded, fails>>

(* Close cancels the context and waits: the loop leaves at the end of a pass,
   the runs wind down. *)
Close(r) ==
  /\ up[r] = "up" /\ r < NumRuntimes
  /\ up' = [up EXCEPT ![r] = "closing"]
  /\ UNCHANGED <<store, loop, run, minted, drives, wounded, fails>>

(* The process dies; only the store survives. *)
Crash(r) ==
  /\ up[r] \in {"up", "closing"} /\ r < NumRuntimes
  /\ up' = [up EXCEPT ![r] = "down"]
  /\ todo' = [todo EXCEPT ![r] = {}]
  /\ run' = [run EXCEPT ![r] = [k \in Sessions |-> Idle]]
  /\ UNCHANGED <<store, phase, minted, drives, wounded, fails>>

----------------------------------------------------------------------------
(* The claim loop, one goroutine per Runtime. *)

(* Nothing keeps the loop goroutine inside a claim, or inside reconcile. *)
LoopFree(r) ==
  /\ up[r] \in {"up", "closing"}
  /\ \A k \in Sessions : run[r][k].pc # "claimed"
  /\ phase[r] = "reconcile" => ~Busy(r)

(* finalizeInterrupted: completes the settlement of one listed row, with the
   steps a settling run takes; the loop waits for it. *)
Reconcile(r) ==
  /\ phase[r] = "reconcile" /\ LoopFree(r)
  /\ \E x \in todo[r] :
       /\ todo' = [todo EXCEPT ![r] = @ \ {x}]
       /\ run' = [run EXCEPT ![r][SessionOf[x[1]]] =
            NewRun("check", x[1], x[2], 0, "indeterminate")]
  /\ UNCHANGED <<store, up, phase, minted, drives, wounded, fails>>

(* A pass of the loop: list the expired leases and release each... *)
ListExpired(r) ==
  /\ \/ phase[r] = "reconcile"
     \/ phase[r] = "claim" /\ up[r] = "up"
  /\ todo[r] = {} /\ LoopFree(r)
  /\ phase' = [phase EXCEPT ![r] = "reclaim"]
  /\ todo' = [todo EXCEPT ![r] = Listing({s \in Subs : Expired(s)})]
  /\ UNCHANGED <<store, up, run, minted, drives, wounded, fails>>

(* ...unless this process itself runs the session, or the row moved on. *)
Reclaim(r) ==
  /\ phase[r] = "reclaim" /\ LoopFree(r)
  /\ \E x \in todo[r] :
       /\ todo' = [todo EXCEPT ![r] = @ \ {x}]
       /\ row' = IF run[r][SessionOf[x[1]]].pc = "idle" /\ Owned(x[1], x[2])
                 THEN Released(x[1]) ELSE row
  /\ UNCHANGED <<markers, inputs, settled, late, up, phase, run, minted, drives,
                 wounded, fails>>

(* ...then list the runnable heads and claim each. *)
ListRunnable(r) ==
  /\ phase[r] = "reclaim" /\ todo[r] = {} /\ LoopFree(r)
  /\ phase' = [phase EXCEPT ![r] = "claim"]
  /\ todo' = [todo EXCEPT ![r] = Listing({s \in Subs : Runnable(s)})]
  /\ UNCHANGED <<store, up, run, minted, drives, wounded, fails>>

(* The session is already active here, or another claim got there first. *)
ClaimSkipped(r) ==
  /\ phase[r] = "claim" /\ LoopFree(r)
  /\ \E x \in todo[r] :
       /\ \/ run[r][SessionOf[x[1]]].pc # "idle"
          \/ row[x[1]].status # "queued"
       /\ todo' = [todo EXCEPT ![r] = @ \ {x}]
  /\ UNCHANGED <<store, up, phase, run, minted, drives, wounded, fails>>

ClaimRunnable(r) ==
  /\ phase[r] = "claim" /\ LoopFree(r)
  /\ \E x \in todo[r] : LET s == x[1] k == SessionOf[s] a == minted[s] + 1 IN
       /\ run[r][k].pc = "idle"
       /\ row[s].status = "queued"
       /\ todo' = [todo EXCEPT ![r] = @ \ {x}]
       /\ minted' = [minted EXCEPT ![s] = a]
       /\ row' = [row EXCEPT ![s] = [status |-> "running", attempt |-> a,
                                     count |-> @.count + 1, leased |-> TRUE]]
       /\ run' = [run EXCEPT ![r][k] =
            NewRun("claimed", s, a, row[s].count + 1, "none")]
  /\ UNCHANGED <<markers, inputs, settled, late, up, phase, drives, wounded, fails>>

(* The attempt marker lands before any work; then the run goroutine starts. *)
StartAttempt(r, k) ==
  /\ run[r][k].pc = "claimed"
  /\ markers' = [markers EXCEPT ![run[r][k].sub] = @ \cup {run[r][k].attempt}]
  /\ run' = [run EXCEPT ![r][k].pc = "begin"]
  /\ UNCHANGED <<row, inputs, settled, late, up, loop, minted, drives,
                 wounded, fails>>

(* The select that ends a pass sees the context ended.  (With a nudge ready as
   well it may pick that first: one more pass like the last, left out here.) *)
LoopExits(r) ==
  /\ up[r] = "closing"
  /\ phase[r] = "claim" /\ todo[r] = {} /\ LoopFree(r)
  /\ phase' = [phase EXCEPT ![r] = "done"]
  /\ UNCHANGED <<store, up, todo, run, minted, drives, wounded, fails>>

(* A store call of the loop fails: the row is skipped until the next pass.
   Under an ended context that takes no fault of the store. *)
LoopCallFails(r) ==
  /\ phase[r] \in {"reclaim", "claim"} /\ LoopFree(r)
  /\ fails < MaxStoreFails \/ up[r] = "closing"
  /\ fails' = IF up[r] = "closing" THEN fails ELSE fails + 1
  /\ \E x \in todo[r] : todo' = [todo EXCEPT ![r] = @ \ {x}]
  /\ UNCHANGED <<store, up, phase, run, minted, drives, wounded>>

----------------------------------------------------------------------------
(* The run goroutine of session k (runSubmission). *)

(* Mistake: the outcome is not carried into settlement. *)
EndsBlank(r, k, o) == run' = [run EXCEPT ![r][k].pc = "settle"]

(* The run ends with outcome o, and turns to settling it. *)
Ends(r, k, o) ==
  run' = [run EXCEPT ![r][k].pc = "settle", ![r][k].outcome = o]

(* Mistake: one attempt too many. *)
BudgetLeftInclusive(n) == n <= MaxAttempts + 1

BudgetLeft(n) == n <= MaxAttempts

(* Agent configuration and the durable budgets, before any work. *)
Begin(r, k) ==
  /\ run[r][k].pc = "begin"
  /\ \/ /\ Ends(r, k, "failed")                      \* Initialize or validate
        /\ UNCHANGED drives
     \/ /\ ~BudgetLeft(run[r][k].count)
        /\ Ends(r, k, "attempt_budget")
        /\ UNCHANGED drives
     \/ /\ BudgetLeft(run[r][k].count)
        /\ run[r][k].sub \in late
        /\ Ends(r, k, "timeout")
        /\ UNCHANGED drives
     \/ /\ BudgetLeft(run[r][k].count)
        /\ run[r][k].sub \notin late
        /\ run' = [run EXCEPT ![r][k].pc = "input"]
        /\ drives' = [drives EXCEPT ![run[r][k].sub] = @ + 1]
  /\ UNCHANGED <<store, up, loop, minted, wounded, fails>>

(* Mistake: every attempt authors the input. *)
CheckNoInput(r, k) ==
  /\ run[r][k].pc = "input"
  /\ run' = [run EXCEPT ![r][k].pc = "author"]
  /\ UNCHANGED <<store, up, loop, minted, drives, wounded, fails>>

(* appendInputRecord reads the log; an earlier attempt may have authored it. *)
CheckInput(r, k) ==
  /\ run[r][k].pc = "input"
  /\ run' = [run EXCEPT ![r][k].pc =
               IF inputs[run[r][k].sub] = 0 THEN "author" ELSE "model"]
  /\ UNCHANGED <<store, up, loop, minted, drives, wounded, fails>>

AuthorInput(r, k) ==
  /\ run[r][k].pc = "author"
  /\ inputs' = [inputs EXCEPT ![run[r][k].sub] = @ + 1]
  /\ run' = [run EXCEPT ![r][k].pc = "model"]
  /\ UNCHANGED <<row, markers, settled, late, up, loop, minted, drives,
                 wounded, fails>>

(* The drive returns, and runSubmission's switch picks what follows.  The
   arms in the code's order: lease lost, shutdown, deadline, transient,
   other error, success. *)
LeaseLost(r, k) ==
  /\ run[r][k].pc \in Driving /\ run[r][k].lost
  /\ run' = [run EXCEPT ![r][k] = Idle]
  /\ UNCHANGED <<store, up, loop, minted, drives, wounded, fails>>

DriveInterrupted(r, k) ==
  /\ run[r][k].pc \in Driving /\ ~run[r][k].lost
  /\ up[r] = "closing"
  /\ run' = [run EXCEPT ![r][k].pc = "release"]
  /\ UNCHANGED <<store, up, loop, minted, drives, wounded, fails>>

DriveTransient(r, k) ==
  /\ run[r][k].pc = "model" /\ ~run[r][k].lost
  /\ up[r] = "up"
  /\ run' = [run EXCEPT ![r][k].pc = "release"]
  /\ UNCHANGED <<store, up, loop, minted, drives, wounded, fails>>

DriveEnds(r, k) ==
  /\ run[r][k].pc \in Driving /\ ~run[r][k].lost
  /\ \/ /\ up[r] = "up" /\ run[r][k].pc = "model" /\ run[r][k].sub \in late
        /\ Ends(r, k, "timeout")
     \/ up[r] = "up" /\ Ends(r, k, "failed")
     \/ run[r][k].pc = "model" /\ Ends(r, k, "succeeded")
  /\ UNCHANGED <<store, up, loop, minted, drives, wounded, fails>>

(* Hand the claim back for a fresh attempt, if it is still this attempt's. *)
Release(r, k) ==
  /\ run[r][k].pc = "release"
  /\ row' = IF Owned(run[r][k].sub, run[r][k].attempt)
            THEN Released(run[r][k].sub) ELSE row
  /\ run' = [run EXCEPT ![r][k] = Idle]
  /\ UNCHANGED <<markers, inputs, settled, late, up, loop, minted, drives,
                 wounded, fails>>

(* Two-phase settlement: reserve... *)
ReserveSettlement(r, k) ==
  /\ run[r][k].pc = "settle"
  /\ IF Owned(run[r][k].sub, run[r][k].attempt)
     THEN /\ row' = [row EXCEPT ![run[r][k].sub].status = "terminalizing"]
          /\ run' = [run EXCEPT ![r][k].pc = "check"]
     ELSE /\ run' = [run EXCEPT ![r][k] = Idle]
          /\ UNCHANGED row
  /\ UNCHANGED <<markers, inputs, settled, late, up, loop, minted, drives,
                 wounded, fails>>

(* Mistake: append without looking. *)
CheckNothing(r, k) ==
  /\ run[r][k].pc = "check"
  /\ run' = [run EXCEPT ![r][k].pc = "append"]
  /\ UNCHANGED <<store, up, loop, minted, drives, wounded, fails>>

(* ...look for a settled record, which wins over this outcome... *)
CheckSettled(r, k) ==
  /\ run[r][k].pc = "check"
  /\ run' = [run EXCEPT ![r][k].pc =
               IF settled[run[r][k].sub] = <<>> THEN "append" ELSE "finalize"]
  /\ UNCHANGED <<store, up, loop, minted, drives, wounded, fails>>

(* ...else append this one... *)
AppendSettled(r, k) ==
  /\ run[r][k].pc = "append"
  /\ settled' = [settled EXCEPT ![run[r][k].sub] = Append(@, run[r][k].outcome)]
  /\ run' = [run EXCEPT ![r][k].pc = "finalize"]
  /\ UNCHANGED <<row, markers, inputs, late, up, loop, minted, drives,
                 wounded, fails>>

(* ...and finalize. *)
FinalizeSettlement(r, k) ==
  /\ run[r][k].pc = "finalize"
  /\ row' = IF row[run[r][k].sub].status = "terminalizing"
            THEN [row EXCEPT ![run[r][k].sub].status = "settled"] ELSE row
  /\ run' = [run EXCEPT ![r][k] = Idle]
  /\ UNCHANGED <<markers, inputs, settled, late, up, loop, minted, drives,
                 wounded, fails>>

(* A store call of the run fails: it logs and gives up its slot.  A Close
   cancels the context of the call, which costs no failing store. *)
RunCallFails(r, k) ==
  /\ run[r][k].pc \in {"claimed", "release", "settle"} \cup Settling
  /\ fails < MaxStoreFails \/ up[r] = "closing"
  /\ fails' = IF up[r] = "closing" THEN fails ELSE fails + 1
  /\ wounded' = IF run[r][k].pc \in Settling THEN wounded \cup {run[r][k].sub}
                                             ELSE wounded
  /\ run' = [run EXCEPT ![r][k] = Idle]
  /\ UNCHANGED <<store, up, loop, minted, drives>>

(* The heartbeat: renew the lease, or learn that it is lost.  It runs for
   the length of the drive, and dies with the context. *)
RenewLease(r, k) ==
  /\ up[r] = "up"
  /\ run[r][k].pc \in Driving /\ ~run[r][k].lost
  /\ IF Owned(run[r][k].sub, run[r][k].attempt)
     THEN row' = [row EXCEPT ![run[r][k].sub].leased = TRUE] /\ UNCHANGED run
     ELSE run' = [run EXCEPT ![r][k].lost = TRUE] /\ UNCHANGED row
  /\ UNCHANGED <<markers, inputs, settled, late, up, loop, minted, drives,
                 wounded, fails>>

----------------------------------------------------------------------------
(* The caller, and time. *)

Dispatch(s) ==
  /\ row[s].status = "absent"
  /\ \A t \in Subs : t < s => row[t].status # "absent"
  /\ row' = [row EXCEPT ![s].status = "queued"]
  /\ UNCHANGED <<markers, inputs, settled, late, up, loop, run, minted, drives,
                 wounded, fails>>

LeaseExpires(s) ==
  /\ row[s].status = "running" /\ row[s].leased
  /\ row' = [row EXCEPT ![s].leased = FALSE]
  /\ UNCHANGED <<markers, inputs, settled, late, up, loop, run, minted, drives,
                 wounded, fails>>

DeadlinePasses(s) ==
  /\ s \in Deadlined \ late
  /\ row[s].status \notin {"absent", "settled"}
  /\ late' = late \cup {s}
  /\ UNCHANGED <<row, markers, inputs, settled, up, loop, run, minted, drives,
                 wounded, fails>>

----------------------------------------------------------------------------

LoopStep(r) == \/ Reconcile(r) \/ ListExpired(r) \/ Reclaim(r)
               \/ ListRunnable(r) \/ ClaimSkipped(r) \/ ClaimRunnable(r)
               \/ LoopExits(r)

RunStep(r, k) ==
  \/ StartAttempt(r, k) \/ Begin(r, k) \/ CheckInput(r, k) \/ AuthorInput(r, k)
  \/ LeaseLost(r, k) \/ DriveInterrupted(r, k) \/ DriveTransient(r, k)
  \/ DriveEnds(r, k) \/ Release(r, k) \/ ReserveSettlement(r, k)
  \/ CheckSettled(r, k) \/ AppendSettled(r, k) \/ FinalizeSettlement(r, k)

Next ==
  \/ \E r \in Runtimes : \/ Start(r) \/ Close(r) \/ Crash(r)
                         \/ LoopStep(r) \/ LoopCallFails(r)
                         \/ \E k \in Sessions : \/ RunStep(r, k)
                                                \/ RunCallFails(r, k)
                                                \/ RenewLease(r, k)
  \/ \E s \in Subs : Dispatch(s) \/ LeaseExpires(s) \/ DeadlinePasses(s)

Spec == Init /\ [][Next]_vars

(* The process is restarted when it ends, the loop ticks, goroutines are
   scheduled, agents answer, and an unrenewed lease runs out.  No fault is
   fair, and neither is the heartbeat. *)
Fairness ==
  /\ \A r \in Runtimes : /\ WF_vars(Start(r))
                         /\ WF_vars(LoopStep(r))
                         /\ \A k \in Sessions : WF_vars(RunStep(r, k))
  /\ \A s \in Subs : WF_vars(LeaseExpires(s))

FairSpec == Spec /\ Fairness

----------------------------------------------------------------------------
(* Properties.  The ones marked (v1) are for runtimes that do not overlap,
   the scope of ADR-0010. *)

StoreType ==
  /\ row \in [Subs -> Row]
  /\ markers \in [Subs -> SUBSET Nat]
  /\ inputs \in [Subs -> Nat]
  /\ settled \in [Subs -> Seq(Outcomes)]
  /\ late \subseteq Subs

LoopType ==
  /\ up \in [Runtimes -> {"new", "up", "closing", "down"}]
  /\ phase \in [Runtimes -> LoopPhases]
  /\ todo \in [Runtimes -> SUBSET (Subs \X Nat)]

RunType ==
  /\ run \in [Runtimes -> [Sessions -> Slot]]
  /\ \A r \in Runtimes, k \in Sessions :
       /\ run[r][k].pc # "idle" => run[r][k].sub \in Subs
       /\ run[r][k].pc \in Settling \cup {"settle"} => run[r][k].outcome \in Outcomes

HistoryType ==
  /\ minted \in [Subs -> Nat]
  /\ drives \in [Subs -> Nat]
  /\ wounded \subseteq Subs
  /\ fails \in Nat

TypeOK == StoreType /\ LoopType /\ RunType /\ HistoryType

(* (v1) Two-phase settlement leaves exactly one submission_settled record:
   never a second one, whatever crashes, restarts and failing calls separate
   the phases, and a settled row always has its record. *)
OneSettledRecord ==
  \A s \in Subs : /\ Len(settled[s]) <= 1
                  /\ row[s].status = "settled" => Len(settled[s]) = 1

(* (v1) However many attempts a submission takes, one of them authors its
   input record: appendInputRecord's check and append are two store calls,
   kept together only by the session guard. *)
InputAuthoredOnce == \A s \in Subs : inputs[s] <= 1

(* Head-of-line serialization: work on a submission starts only when every
   earlier one of its session is settled, although the loop claims from a
   listing that other goroutines have outrun. *)
HeadOfLine ==
  \A s \in Subs : row[s].status \in {"running", "terminalizing", "settled"} =>
    \A t \in Earlier(s) : row[t].status = "settled"

(* The budget is evaluated from the durable count, so no sequence of crashes,
   shutdowns and transient errors drives the agent more than MaxAttempts
   times. *)
BudgetRespected == \A s \in Subs : drives[s] <= MaxAttempts

(* A settled submission stays settled, and the first record that landed, the
   outcome its readers saw, is never displaced. *)
SettledIsFinal ==
  [][\A s \in Subs :
       /\ row[s].status = "settled" => row'[s].status = "settled"
       /\ settled[s] # <<>> =>
            settled'[s] # <<>> /\ Head(settled'[s]) = Head(settled[s])]_vars

(* A row leaves running only for the attempt that holds it: that attempt's
   own goroutine settles or releases it, or a loop that listed this very
   attempt's lease as expired hands it back.  A goroutine that outlived its
   claim moves nothing. *)
FencedTransitions ==
  [][\A s \in Subs : row[s].status = "running" /\ row'[s].status # "running" =>
       \E r \in Runtimes :
         \/ /\ row'[s].status = "queued"
            /\ phase[r] = "reclaim"
            /\ <<s, row[s].attempt>> \in todo[r] \ todo'[r]
         \/ \E k \in Sessions :
              /\ run[r][k].sub = s /\ run[r][k].attempt = row[s].attempt
              /\ run[r][k].pc =
                   (IF row'[s].status = "queued" THEN "release" ELSE "settle")
              /\ run'[r][k] # run[r][k]]_vars

(* The engine keeps the promise of SubmissionLifecycle: a submission is
   decided by its first submission_settled record. *)
decision == [s \in Subs |-> IF settled[s] = <<>> THEN "undecided" ELSE Head(settled[s])]

Lifecycle == INSTANCE SubmissionLifecycle
  WITH admitted <- {s \in Subs : row[s].status # "absent"},
       Undecided <- "undecided"

ImplementsLifecycle == Lifecycle!Spec

(* (v1) Every admitted submission settles, through crashes and restarts.  The
   one exception is the code's own: a store call that fails between the two
   phases leaves the row terminalizing, and its session behind it, until a
   restart reconciles it. *)
Blocked(s) == \E t \in Earlier(s) \cup {s} :
                t \in wounded /\ row[t].status = "terminalizing"

EverySubmissionSettles ==
  <>[] \A s \in Subs : row[s].status \in {"absent", "settled"} \/ Blocked(s)
=============================================================================
