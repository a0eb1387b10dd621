----------------------------- MODULE Subagents -----------------------------
(***************************************************************************)
(* Durable sub-agents (subagent.go, wake.go and the wait scans of          *)
(* engine.go): a parent submission whose agent spawns children by task     *)
(* calls, parks until they settle, and is resumed by the last of them.     *)
(*                                                                         *)
(* The threads are the run goroutine of the parent with the goroutine that *)
(* consumes its agent's events, one run goroutine per child, and the claim *)
(* loop.  They meet only in the store, one atomic call at a time, and each *)
(* keeps what it read in its job.  Attempt ids are left out: Coordinator   *)
(* shows that in one process a row that is not released has one goroutine. *)
(* Each child has a session of its own, so all queued rows are runnable.   *)
(*                                                                         *)
(* Bounds: one task call for each of Kids, and MaxCrashes crashes.  The    *)
(* attempt budget of the code bounds the attempts.                         *)
(***************************************************************************)
EXTENDS Naturals, Sequences, FiniteSets

CONSTANTS P,              \* the parent
          Kids,           \* the children it may spawn
          Loop,           \* the claim loop
          MaxChildren,    \* SubagentLimits.MaxChildrenPerRun
          BoundedWait,    \* is SubagentLimits.MaxWait set?
          MaxAttempts,    \* the failure-attempt budget
          MaxCrashes,     \* how often the process dies and restarts
          Lossy           \* may the agent's event channel drop events?

Subs    == {P} \cup Kids
Threads == Subs \cup {Loop}

ASSUME SubagentsAssumption ==
  /\ IsFiniteSet(Kids) /\ P \notin Kids /\ Loop \notin Subs
  /\ MaxChildren \in Nat \ {0}
  /\ MaxAttempts \in Nat \ {0}
  /\ MaxCrashes \in Nat
  /\ BoundedWait \in BOOLEAN
  /\ Lossy \in BOOLEAN

VARIABLES
  (* the store *)
  row,        \* submission rows
  log,        \* what the parent's conversation says of each child's call
  settled,    \* the submission_settled records of each submission
  lapsed,     \* the parent's WaitUntil has passed
  (* the process *)
  job,        \* what each thread is at
  events,     \* the agent's events the consumer has not seen yet
  author,     \* children whose spawn record the consumer found missing
  suspended,  \* a task call of the current turn suspended
  nudge,      \* Runtime.wake holds a token
  (* history and bounds *)
  called,     \* children whose task call has been made
  parkedLate, \* every child had settled when the parent parked
  crashes

store == <<row, log, settled, lapsed>>
turn  == <<events, author, suspended, called, parkedLate>>
vars  == <<row, log, settled, lapsed, job, events, author, suspended, nudge,
           called, parkedLate, crashes>>

Statuses == {"absent", "queued", "running", "waiting", "terminalizing", "settled"}
Ends     == {"done", "cancelled", "indeterminate"}
Answers  == Ends \cup {"expired", "dangling", "rejected"}
Records  == {"call", "spawn"} \cup Answers

RunPcs  == {"idle", "register", "recheck", "drive", "scan", "exempt",
            "synthesize", "open", "tools", "dispatch", "drain", "repair",
            "park", "back off", "settle", "orphans", "cascade"}
(* Steps every thread may take: settlement, the wake, a cancel. *)
DutyPcs == {"check", "append", "finalize", "wake", "spawned?", "author",
            "answered?", "answer", "siblings", "resume", "interrupt"}
LoopPcs == {"boot", "reconcile", "expire", "cancel", "pending",
            "recheck", "expired", "requeue", "waiting", "backlist",
            "backpending", "backstop", "reclaim", "release", "cancelled",
            "claiming"}
Stages  == {"none", "prompt", "resume", "reserved", "final", "direct",
            "backstop", "park"}

Row == [status : Statuses, flag : BOOLEAN, resume : BOOLEAN, leased : BOOLEAN,
        count : Nat]
Job == [pc : RunPcs \cup DutyPcs \cup LoopPcs, sub : Subs,
        outcome : Ends \cup {"none"}, stage : Stages, cut : BOOLEAN,
        todo : SUBSET Subs, pend : SUBSET Subs]

NewRow(status) == [status |-> status, flag |-> FALSE, resume |-> FALSE,
                   leased |-> FALSE, count |-> 0]
NewJob(s, pc, stage, outcome) ==
  [pc |-> pc, sub |-> s, outcome |-> outcome, stage |-> stage, cut |-> FALSE,
   todo |-> {}, pend |-> {}]
Idle(t) == NewJob(IF t = Loop THEN P ELSE t,
                  IF t = Loop THEN "boot" ELSE "idle", "none", "none")

Init ==
  /\ row = [s \in Subs |-> NewRow(IF s = P THEN "queued" ELSE "absent")]
  /\ log = [k \in Kids |-> <<>>]
  /\ settled = [s \in Subs |-> <<>>]
  /\ lapsed = FALSE
  /\ job = [t \in Threads |-> Idle(t)]
  /\ events = <<>> /\ author = {} /\ suspended = FALSE /\ nudge = FALSE
  /\ called = {} /\ parkedLate = FALSE /\ crashes = 0

----------------------------------------------------------------------------
(* What a store call answers. *)

Logged(k, Kinds) == \E i \in 1 .. Len(log[k]) : log[k][i] \in Kinds
Spawned(k)  == Logged(k, {"spawn"})
Answered(k) == Logged(k, Answers)

(* pendingSpawnedCalls *)
PendingCalls == {k \in Kids : Spawned(k) /\ ~Answered(k)}

(* ListChildSubmissions, and those of them that are not settled. *)
Children == {k \in Kids : row[k].status # "absent"}
Live     == {k \in Children : row[k].status # "settled"}

Terminal(s) == row[s].status \in {"terminalizing", "settled"}

Put(k, rec) == log' = [log EXCEPT ![k] = Append(@, rec)]

SetStatus(s, status) == row' = [row EXCEPT ![s].status = status]

Goto(t, pc) == job' = [job EXCEPT ![t].pc = pc]

(* The step thread t takes next. *)
At(t, pc) == job[t].pc = pc

----------------------------------------------------------------------------
(* Settlement of job[t].sub, by its own run or by the loop. *)

(* Where a duty returns to: a run goroutine ends with its last wake. *)
Return(t) ==
  IF job[t].stage = "final" /\ t # Loop THEN Idle(t)
  ELSE [job[t] EXCEPT
         !.pc = CASE job[t].stage = "reserved" -> "finalize"
                  [] job[t].stage = "final"    -> "reconcile"
                  [] job[t].stage = "direct"   ->
                       (IF t = Loop THEN "release" ELSE "cascade")
                  [] job[t].stage = "backstop" -> "backstop"
                  [] job[t].stage = "park"     -> "repair",
         !.stage   = IF @ = "reserved" THEN @ ELSE "none",
         !.sub     = IF job[t].stage = "reserved" THEN @ ELSE P,
         !.outcome = IF job[t].stage = "reserved" THEN @ ELSE "none"]

(* Only a child has a parent to wake. *)
Landed(t) == IF job[t].sub = P THEN "finalize" ELSE "wake"

ReserveSettlement(t) ==
  /\ t # Loop /\ At(t, "settle")
  /\ IF row[t].status = "running"
     THEN /\ SetStatus(t, "terminalizing")
          /\ job' = [job EXCEPT ![t].pc = "check", ![t].stage = "reserved"]
     ELSE job' = [job EXCEPT ![t] = Idle(t)] /\ UNCHANGED row
  /\ UNCHANGED <<log, settled, lapsed, turn, nudge, crashes>>

(* Mistakes: append without looking, or keep one's own outcome. *)
CheckNothing(t) ==
  /\ At(t, "check")
  /\ Goto(t, "append")
  /\ UNCHANGED <<store, turn, nudge, crashes>>
CheckKeepsOwn(t) ==
  /\ At(t, "check")
  /\ Goto(t, IF settled[job[t].sub] # <<>> THEN Landed(t) ELSE "append")
  /\ UNCHANGED <<store, turn, nudge, crashes>>

(* appendSettledRecordOnce: an outcome already in the log is the effective
   one, for the wake as well. *)
CheckSettled(t) ==
  /\ At(t, "check")
  /\ job' = IF settled[job[t].sub] # <<>>
            THEN [job EXCEPT ![t].outcome = Head(settled[job[t].sub]),
                             ![t].pc = Landed(t)]
            ELSE [job EXCEPT ![t].pc = "append"]
  /\ UNCHANGED <<store, turn, nudge, crashes>>

AppendSettled(t) ==
  /\ At(t, "append")
  /\ settled' = [settled EXCEPT ![job[t].sub] = Append(@, job[t].outcome)]
  /\ Goto(t, Landed(t))
  /\ UNCHANGED <<row, log, lapsed, turn, nudge, crashes>>

(* Mistake: the wake inside the reservation is the only one. *)
FinalizeOnly(t) ==
  /\ At(t, "finalize")
  /\ IF row[job[t].sub].status = "terminalizing"
     THEN SetStatus(job[t].sub, "settled") ELSE UNCHANGED row
  /\ job' = IF job[t].sub # P /\ t # Loop THEN [job EXCEPT ![t] = Idle(t)]
            ELSE [job EXCEPT ![t] = NewJob(P, IF t = Loop THEN "reconcile" ELSE "orphans",
                                           "none", "none"),
                             ![t].todo = job[t].todo]
  /\ UNCHANGED <<log, settled, lapsed, turn, nudge, crashes>>

(* After it a child wakes its parent once more, and a parent turns to its
   orphans (settleAndNotify); the loop only goes on to the next row. *)
FinalizeSettlement(t) ==
  /\ At(t, "finalize")
  /\ IF row[job[t].sub].status = "terminalizing"
     THEN SetStatus(job[t].sub, "settled") ELSE UNCHANGED row
  /\ job' = IF job[t].sub # P
            THEN [job EXCEPT ![t].pc = "wake", ![t].stage = "final"]
            ELSE [job EXCEPT ![t] = NewJob(P, IF t = Loop THEN "reconcile" ELSE "orphans",
                                           "none", "none"),
                             ![t].todo = job[t].todo]
  /\ UNCHANGED <<log, settled, lapsed, turn, nudge, crashes>>

----------------------------------------------------------------------------
(* wakeParent, for the child job[t].sub with the outcome job[t].outcome. *)

LoadParent(t) ==
  /\ At(t, "wake")
  /\ IF Terminal(P) THEN job' = [job EXCEPT ![t] = Return(t)]
                    ELSE Goto(t, "spawned?")
  /\ UNCHANGED <<store, turn, nudge, crashes>>

(* Mistake: only the consumer and park time author spawn records. *)
NoRepairOnWake(t) ==
  /\ At(t, "spawned?")
  /\ IF job[t].stage # "park" THEN Goto(t, "answered?")
     ELSE IF Spawned(job[t].sub) THEN job' = [job EXCEPT ![t] = Return(t)]
     ELSE Goto(t, "author")
  /\ UNCHANGED <<store, turn, nudge, crashes>>

(* spawnRecordRepair, here and at park time: look, then author. *)
CheckSpawnRecord(t) ==
  /\ At(t, "spawned?")
  /\ IF ~Spawned(job[t].sub) THEN Goto(t, "author")
     ELSE IF job[t].stage = "park" THEN job' = [job EXCEPT ![t] = Return(t)]
     ELSE Goto(t, "answered?")
  /\ UNCHANGED <<store, turn, nudge, crashes>>

RepairSpawnRecord(t) ==
  /\ At(t, "author")
  /\ Put(job[t].sub, "spawn")
  /\ IF job[t].stage = "park" THEN job' = [job EXCEPT ![t] = Return(t)]
     ELSE Goto(t, "answered?")
  /\ UNCHANGED <<row, settled, lapsed, turn, nudge, crashes>>

(* Mistake: requeue first. *)
RequeueUnanswered(t) ==
  /\ At(t, "answered?")
  /\ Goto(t, "siblings")
  /\ UNCHANGED <<store, turn, nudge, crashes>>

(* An answer that is there already wins. *)
CheckAnswered(t) ==
  /\ At(t, "answered?")
  /\ Goto(t, IF Answered(job[t].sub) THEN "siblings" ELSE "answer")
  /\ UNCHANGED <<store, turn, nudge, crashes>>

AppendAnswer(t) ==
  /\ At(t, "answer")
  /\ Put(job[t].sub, job[t].outcome)
  /\ Goto(t, "siblings")
  /\ UNCHANGED <<row, settled, lapsed, turn, nudge, crashes>>

(* The child itself counts as settled. *)
ListSiblings(t) ==
  /\ At(t, "siblings")
  /\ IF Live \subseteq {job[t].sub} THEN Goto(t, "resume")
     ELSE job' = [job EXCEPT ![t] = Return(t)]
  /\ UNCHANGED <<store, turn, nudge, crashes>>

(* ResumeSubmission; one that comes second loses. *)
Requeue ==
  IF row[P].status = "waiting"
  THEN SetStatus(P, "queued") /\ lapsed' = FALSE /\ nudge' = TRUE
  ELSE UNCHANGED <<row, lapsed, nudge>>

ResumeParent(t) ==
  /\ At(t, "resume")
  /\ Requeue
  /\ job' = [job EXCEPT ![t] = Return(t)]
  /\ UNCHANGED <<log, settled, turn, crashes>>

----------------------------------------------------------------------------
(* Cancelling children: the orphan cascade of the parent's goroutine, and
   the loop when a wait has expired. *)

Registered(k) == job[k].pc \in {"recheck", "drive"}

(* CancelSubmission settles a queued row outright and flags a running one.
   The cascade then lands the settled record of the first... *)
CancelChild(t) ==
  /\ At(t, "cascade") \/ At(t, "cancel")
  /\ \E k \in job[t].todo :
       LET rest == [job[t] EXCEPT !.todo = @ \ {k}]
       IN \/ /\ row[k].status = "queued"
             /\ SetStatus(k, "settled")
             /\ job' = [job EXCEPT ![t] =
                  IF t = Loop THEN rest
                  ELSE [rest EXCEPT !.pc = "check", !.sub = k,
                                    !.stage = "direct", !.outcome = "cancelled"]]
          \/ /\ row[k].status = "running"
             /\ row' = [row EXCEPT ![k].flag = TRUE]
             /\ job' = [job EXCEPT ![t] = [rest EXCEPT !.pc = "interrupt", !.sub = k]]
          \/ /\ Terminal(k)
             /\ job' = [job EXCEPT ![t] = rest]
             /\ UNCHANGED row
  /\ UNCHANGED <<log, settled, lapsed, turn, nudge, crashes>>

(* ...and cancelLiveRun interrupts the run of the second, if it is there. *)
CancelLiveRun(t) ==
  /\ At(t, "interrupt")
  /\ LET k == job[t].sub IN
       job' = [job EXCEPT ![t].pc = IF t = Loop THEN "cancel" ELSE "cascade",
                          ![t].sub = P,
                          ![k].cut = @ \/ Registered(k)]
  /\ UNCHANGED <<store, turn, nudge, crashes>>

----------------------------------------------------------------------------
(* The run goroutine of a child. *)

(* Mistake: the run fails to say how. *)
RegisterBlank(k) ==
  /\ At(k, "register")
  /\ Goto(k, "recheck") \/ Goto(k, "settle")
  /\ UNCHANGED <<store, turn, nudge, crashes>>

(* The run's cancel is registered, and the row read again: a flag set since
   the claim is honoured before any work. *)
Register(k) ==
  /\ At(k, "register")
  /\ \/ Goto(k, "recheck")
     \/ job' = [job EXCEPT ![k].pc = "settle", ![k].outcome = "done"]
  /\ UNCHANGED <<store, turn, nudge, crashes>>

(* Mistake: registered is good enough. *)
NoRecheck(k) ==
  /\ At(k, "recheck")
  /\ Goto(k, "drive")
  /\ UNCHANGED <<store, turn, nudge, crashes>>

Recheck(k) ==
  /\ At(k, "recheck")
  /\ job' = IF row[k].flag
            THEN [job EXCEPT ![k].pc = "settle", ![k].outcome = "cancelled"]
            ELSE [job EXCEPT ![k].pc = "drive"]
  /\ UNCHANGED <<store, turn, nudge, crashes>>

(* The switch of runSubmission: a cancel that reached the run wins over
   whatever the drive returned; a transient error backs off. *)
DriveEnds(k) ==
  /\ k \in Kids /\ At(k, "drive")
  /\ \/ /\ job[k].cut
        /\ job' = [job EXCEPT ![k].pc = "settle", ![k].outcome = "cancelled"]
     \/ /\ ~job[k].cut
        /\ \/ job' = [job EXCEPT ![k].pc = "settle", ![k].outcome = "done"]
           \/ Goto(k, "back off")
  /\ UNCHANGED <<store, turn, nudge, crashes>>

(* ReleaseSubmission leaves the flag where it is. *)
Released(s) == [row EXCEPT ![s].status = "queued", ![s].leased = FALSE]

BackOff(s) ==
  /\ s \in Subs /\ At(s, "back off")
  /\ row' = IF row[s].status = "running" THEN Released(s) ELSE row
  /\ job' = [job EXCEPT ![s] = Idle(s)]
  /\ UNCHANGED <<log, settled, lapsed, turn, nudge, crashes>>

----------------------------------------------------------------------------
(* The run goroutine of the parent. *)

(* reconcileDanglingToolCalls: which calls of the log lack an outcome... *)
ScanDanglingCalls ==
  /\ At(P, "scan")
  /\ LET open == {k \in Kids : Logged(k, {"call"}) /\ ~Answered(k)}
     IN job' = [job EXCEPT ![P].pc = "exempt", ![P].pend = open,
                           ![P].todo = {k \in open : Spawned(k)}]
  /\ UNCHANGED <<store, turn, nudge, crashes>>

(* Mistake: no exemption for a child at work. *)
ExemptNobody ==
  /\ At(P, "exempt")
  /\ \E k \in job[P].todo : job' = [job EXCEPT ![P].todo = @ \ {k}]
  /\ UNCHANGED <<store, turn, nudge, crashes>>

(* ...less the spawned ones whose child is still at work... *)
ExemptLiveChild ==
  /\ At(P, "exempt")
  /\ \E k \in job[P].todo :
       job' = [job EXCEPT ![P].todo = @ \ {k},
                          ![P].pend = IF k \in Live THEN @ \ {k} ELSE @]
  /\ UNCHANGED <<store, turn, nudge, crashes>>

(* ...get an error outcome. *)
SynthesizeOutcomes ==
  /\ At(P, "exempt") /\ job[P].todo = {}
  /\ log' = [k \in Kids |-> IF k \in job[P].pend THEN Append(log[k], "dangling")
                                                 ELSE log[k]]
  /\ job' = [job EXCEPT ![P].pc = "open", ![P].pend = {}]
  /\ UNCHANGED <<row, settled, lapsed, turn, nudge, crashes>>

(* The agent starts from the transcript: by a prompt, or by a resume, which
   fails when the transcript does not end in a tool result. *)
OpenTurn ==
  /\ At(P, "open")
  /\ \/ job' = [job EXCEPT ![P].pc = "drive", ![P].stage = "none"]
     \/ /\ job[P].stage = "resume"
        /\ \E k \in Children : ~Answered(k)
        /\ job' = [job EXCEPT ![P].pc = "settle", ![P].outcome = "done"]
  /\ UNCHANGED <<store, turn, nudge, crashes>>

(* The event channel drops events under backpressure: all of one or two. *)
Kept(evs)  == {evs} \cup IF Lossy THEN {<<>>} \cup {<<evs[i]>> : i \in 1 .. Len(evs)}
                                 ELSE {}
Emit(evs) == \E kept \in Kept(evs) : events' = events \o kept

Drained == events = <<>> /\ author = {}

(* A turn makes a batch of task calls... *)
CallTasks ==
  /\ At(P, "drive") /\ Drained
  /\ \E k \in Kids \ called :
       \E batch \in SUBSET (Kids \ called) :
         /\ k \in batch
         /\ called' = called \cup batch
         /\ job' = [job EXCEPT ![P].pc = "tools", ![P].todo = batch]
  /\ suspended' = FALSE
  /\ UNCHANGED <<store, events, author, parkedLate, nudge, crashes>>

(* The stream ends with the last call if one suspended; else the turn goes on. *)
AfterCall(rest, suspends) ==
  IF rest # {} THEN "tools" ELSE IF suspends THEN "drain" ELSE "drive"

(* ...and each is announced and then executed, one at a time (taskTool.mu):
   over the bound on live children it is refused... *)
ExecuteTask ==
  /\ At(P, "tools")
  /\ \E k \in job[P].todo :
       IF Cardinality(Live) >= MaxChildren
       THEN /\ Emit(<< <<"call", k>>, <<"rejected", k>> >>)
            /\ job' = [job EXCEPT ![P].todo = @ \ {k},
                                  ![P].pc = AfterCall(job[P].todo \ {k}, suspended)]
       ELSE /\ Emit(<< <<"call", k>> >>)
            /\ job' = [job EXCEPT ![P].todo = @ \ {k}, ![P].pc = "dispatch",
                                  ![P].sub = k]
  /\ UNCHANGED <<store, author, suspended, called, parkedLate, nudge, crashes>>

(* ...else Dispatch admits the child, with its parent link, and the call
   suspends. *)
DispatchChild ==
  /\ At(P, "dispatch")
  /\ row' = [row EXCEPT ![job[P].sub] = NewRow("queued")]
  /\ Emit(<< <<"spawn", job[P].sub>> >>)
  /\ suspended' = TRUE /\ nudge' = TRUE
  /\ job' = [job EXCEPT ![P].pc = AfterCall(job[P].todo, TRUE), ![P].sub = P]
  /\ UNCHANGED <<log, settled, lapsed, author, called, parkedLate, crashes>>

(* The consumer authors records from the events; a spawn record only when
   it finds none for the call. *)
ConsumeEvent ==
  /\ events # <<>> /\ author = {}
  /\ LET kind == Head(events)[1]
         k    == Head(events)[2]
     IN IF kind = "spawn"
        THEN /\ author' = {j \in {k} : ~Spawned(j)}
             /\ UNCHANGED log
        ELSE Put(k, kind) /\ UNCHANGED author
  /\ events' = Tail(events)
  /\ UNCHANGED <<row, settled, lapsed, job, suspended, called, parkedLate, nudge,
                 crashes>>

ConsumerAuthors ==
  /\ \E k \in author : Put(k, "spawn")
  /\ author' = {}
  /\ UNCHANGED <<row, settled, lapsed, job, events, suspended, called, parkedLate,
                 nudge, crashes>>

(* reconcileSpawnRecords, once the stream is drained: the children that
   exist decide whether to park. *)
ListSpawned ==
  /\ At(P, "drain") /\ Drained
  /\ job' = [job EXCEPT ![P].pc = "repair", ![P].todo = Children]
  /\ UNCHANGED <<store, turn, nudge, crashes>>

RepairNext ==
  /\ At(P, "repair")
  /\ \E k \in job[P].todo :
       job' = [job EXCEPT ![P].pc = "spawned?", ![P].sub = k,
                          ![P].stage = "park", ![P].todo = @ \ {k}]
  /\ UNCHANGED <<store, turn, nudge, crashes>>

(* WaitSubmission: the run gives up its lease and its goroutine. *)
WaitSubmission ==
  /\ At(P, "repair") /\ job[P].todo = {}
  /\ row' = IF row[P].status = "running"
            THEN [row EXCEPT ![P].status = "waiting", ![P].resume = TRUE,
                             ![P].leased = FALSE]
            ELSE row
  /\ job' = [job EXCEPT ![P] = Idle(P)]
  /\ suspended' = FALSE /\ parkedLate' = (Live = {})
  /\ UNCHANGED <<log, settled, lapsed, events, author, called, nudge, crashes>>

(* The drive returns without a suspension, or never begins because the agent
   does not initialize: settle, or back off. *)
ParentEnds ==
  /\ Drained
  /\ \/ /\ At(P, "drive") \/ At(P, "scan")
        /\ job' = [job EXCEPT ![P].pc = "settle", ![P].outcome = "done"]
     \/ At(P, "drive") /\ Goto(P, "back off")
  /\ UNCHANGED <<store, turn, nudge, crashes>>

(* Mistake: a child that is claimed is left to finish. *)
ListQueuedOrphans ==
  /\ At(P, "orphans")
  /\ job' = [job EXCEPT ![P].pc = "cascade",
                        ![P].todo = {k \in Live : row[k].status = "queued"}]
  /\ UNCHANGED <<store, turn, nudge, crashes>>

(* cancelChildren, after the settlement. *)
ListOrphans ==
  /\ At(P, "orphans")
  /\ job' = [job EXCEPT ![P].pc = "cascade", ![P].todo = Live]
  /\ UNCHANGED <<store, turn, nudge, crashes>>

CascadeEnds ==
  /\ At(P, "cascade") /\ job[P].todo = {}
  /\ job' = [job EXCEPT ![P] = Idle(P)]
  /\ UNCHANGED <<store, turn, nudge, crashes>>

----------------------------------------------------------------------------
(* The claim loop.  At startup it reconciles and scans the waits, and then
   passes over leases and runnable rows; a tick scans the waits again. *)

LoopGoes(pc, todo, pend) ==
  job' = [job EXCEPT ![Loop].pc = pc, ![Loop].todo = todo, ![Loop].pend = pend]

ListTerminalizing ==
  /\ At(Loop, "boot")
  /\ LoopGoes("reconcile", {s \in Subs : row[s].status = "terminalizing"}, {})
  /\ UNCHANGED <<store, turn, nudge, crashes>>

(* finalizeInterrupted *)
Reconcile ==
  /\ At(Loop, "reconcile")
  /\ \E s \in job[Loop].todo :
       job' = [job EXCEPT ![Loop] =
                 [job[Loop] EXCEPT !.pc = "check", !.sub = s, !.stage = "reserved",
                                   !.outcome = "indeterminate", !.todo = @ \ {s}]]
  /\ UNCHANGED <<store, turn, nudge, crashes>>

(* A pass after a tick, and the first of all, begins with the waits.
   expireWait: cancel the live children... *)
ListExpiredWaits ==
  /\ At(Loop, "reconcile") \/ At(Loop, "claiming")
  /\ job[Loop].todo = {}
  /\ Goto(Loop, IF row[P].status = "waiting" /\ lapsed THEN "expire" ELSE "waiting")
  /\ UNCHANGED <<store, turn, nudge, crashes>>

ListChildrenToCancel ==
  /\ At(Loop, "expire")
  /\ LoopGoes("cancel", Live, {})
  /\ UNCHANGED <<store, turn, nudge, crashes>>

(* ...look twice which calls are unanswered... *)
ReadPending ==
  /\ At(Loop, "cancel") /\ job[Loop].todo = {}
  /\ LoopGoes(IF PendingCalls = {} THEN "requeue" ELSE "recheck", {}, PendingCalls)
  /\ UNCHANGED <<store, turn, nudge, crashes>>

RecheckPending ==
  /\ At(Loop, "recheck")
  /\ LET open == job[Loop].pend \cap PendingCalls
     IN LoopGoes(IF open = {} THEN "requeue" ELSE "expired", {}, open)
  /\ UNCHANGED <<store, turn, nudge, crashes>>

(* ...answer those, and requeue the parent. *)
AppendExpired ==
  /\ At(Loop, "expired")
  /\ log' = [k \in Kids |-> IF k \in job[Loop].pend THEN Append(log[k], "expired")
                                                    ELSE log[k]]
  /\ LoopGoes("requeue", {}, {})
  /\ UNCHANGED <<row, settled, lapsed, turn, nudge, crashes>>

RequeueExpired ==
  /\ At(Loop, "requeue")
  /\ Requeue
  /\ Goto(Loop, "waiting")
  /\ UNCHANGED <<log, settled, turn, crashes>>

(* Mistake: the scan looks only at waits that expire. *)
NoBackstop ==
  /\ At(Loop, "waiting")
  /\ Goto(Loop, "reclaim")
  /\ UNCHANGED <<store, turn, nudge, crashes>>

(* backstopWake: wake again for every child once all are settled... *)
ListWaiting ==
  /\ At(Loop, "waiting")
  /\ Goto(Loop, IF row[P].status = "waiting" THEN "backlist" ELSE "reclaim")
  /\ UNCHANGED <<store, turn, nudge, crashes>>

ListSettledChildren ==
  /\ At(Loop, "backlist")
  /\ IF Children = {} \/ Live # {} THEN Goto(Loop, "reclaim")
     ELSE LoopGoes("backpending", Children, {})
  /\ UNCHANGED <<store, turn, nudge, crashes>>

ReadBackstopPending ==
  /\ At(Loop, "backpending")
  /\ LoopGoes("backstop", job[Loop].todo, PendingCalls)
  /\ UNCHANGED <<store, turn, nudge, crashes>>

(* ...with the settled record as payload where an answer is missing; if a
   child has none, the scan of this parent gives up. *)
BackstopWake ==
  /\ At(Loop, "backstop")
  /\ \/ /\ job[Loop].todo = {}
        /\ LoopGoes("reclaim", {}, {})
     \/ \E k \in job[Loop].todo :
          IF k \notin job[Loop].pend
          THEN job' = [job EXCEPT ![Loop] =
                         [job[Loop] EXCEPT !.pc = "wake", !.sub = k,
                                           !.stage = "backstop", !.todo = @ \ {k}]]
          ELSE IF settled[k] = <<>> THEN LoopGoes("reclaim", {}, {})
          ELSE job' = [job EXCEPT ![Loop] =
                         [job[Loop] EXCEPT !.pc = "wake", !.sub = k,
                                           !.stage = "backstop",
                                           !.outcome = Head(settled[k]),
                                           !.todo = @ \ {k}]]
  /\ UNCHANGED <<store, turn, nudge, crashes>>

(* reclaimExpired: a listed row carries the flag it had.  A pass after a
   nudge begins here. *)
ListExpiredLeases ==
  /\ \/ At(Loop, "reclaim") /\ UNCHANGED nudge
     \/ At(Loop, "claiming") /\ job[Loop].todo = {} /\ nudge /\ nudge' = FALSE
  /\ LET expired == {s \in Subs : row[s].status = "running" /\ ~row[s].leased}
     IN LoopGoes("release", expired, {s \in expired : row[s].flag})
  /\ UNCHANGED <<store, turn, crashes>>

ReleaseExpired ==
  /\ At(Loop, "release")
  /\ \E s \in job[Loop].todo :
       LET rest == [job[Loop] EXCEPT !.todo = @ \ {s}]
       IN IF job[s].pc # "idle" \/ row[s].status # "running"
          THEN job' = [job EXCEPT ![Loop] = rest] /\ UNCHANGED row
          ELSE /\ row' = Released(s)
               /\ job' = [job EXCEPT ![Loop] =
                    IF s \in rest.pend THEN [rest EXCEPT !.pc = "cancelled", !.sub = s]
                                       ELSE rest]
  /\ UNCHANGED <<log, settled, lapsed, turn, nudge, crashes>>

(* A flagged row is settled instead of queued. *)
CancelReleased ==
  /\ At(Loop, "cancelled")
  /\ LET k == job[Loop].sub IN
       IF row[k].status = "queued"
       THEN /\ SetStatus(k, "settled")
            /\ job' = [job EXCEPT ![Loop].pc = "check", ![Loop].stage = "direct",
                                  ![Loop].outcome = "cancelled"]
       ELSE /\ job' = [job EXCEPT ![Loop].pc = "release", ![Loop].sub = P]
            /\ UNCHANGED row
  /\ UNCHANGED <<log, settled, lapsed, turn, nudge, crashes>>

(* claimRunnable *)
ListRunnable ==
  /\ At(Loop, "release") /\ job[Loop].todo = {}
  /\ LoopGoes("claiming", {s \in Subs : row[s].status = "queued"}, {})
  /\ UNCHANGED <<store, turn, nudge, crashes>>

(* A resume costs no attempt, and the claim consumes it: only this attempt
   resumes. *)
Claimed(s) == [row[s] EXCEPT !.status = "running", !.leased = TRUE,
                             !.resume = FALSE,
                             !.count = IF row[s].resume THEN @ ELSE @ + 1]

(* Where runSubmission begins: the flag, the budget, then the work. *)
Begun(s) ==
  CASE row[s].flag -> NewJob(s, "settle", "none", "cancelled")
    [] ~row[s].flag /\ Claimed(s).count > MaxAttempts ->
         NewJob(s, "settle", "none", "done")
    [] OTHER -> NewJob(s, IF s = P THEN "scan" ELSE "register",
                       IF row[s].resume THEN "resume" ELSE "prompt", "none")

ClaimSubmission ==
  /\ At(Loop, "claiming")
  /\ \E s \in job[Loop].todo :
       IF job[s].pc # "idle" \/ row[s].status # "queued"
       THEN job' = [job EXCEPT ![Loop].todo = @ \ {s}] /\ UNCHANGED row
       ELSE /\ row' = [row EXCEPT ![s] = Claimed(s)]
            /\ job' = [job EXCEPT ![Loop].todo = @ \ {s}, ![s] = Begun(s)]
  /\ UNCHANGED <<log, settled, lapsed, turn, nudge, crashes>>

----------------------------------------------------------------------------
(* Time and failure. *)

(* Nobody renews the lease of a run that is gone. *)
LeaseExpires(s) ==
  /\ row[s].status = "running" /\ row[s].leased /\ job[s].pc = "idle"
  /\ row' = [row EXCEPT ![s].leased = FALSE]
  /\ UNCHANGED <<log, settled, lapsed, job, turn, nudge, crashes>>

WaitLapses ==
  /\ BoundedWait /\ row[P].status = "waiting" /\ ~lapsed
  /\ lapsed' = TRUE
  /\ UNCHANGED <<row, log, settled, job, turn, nudge, crashes>>

(* The process dies, and the next one starts over the same store. *)
Crash ==
  /\ crashes < MaxCrashes
  /\ crashes' = crashes + 1
  /\ job' = [t \in Threads |-> Idle(t)]
  /\ events' = <<>> /\ author' = {} /\ suspended' = FALSE /\ nudge' = FALSE
  /\ UNCHANGED <<store, called, parkedLate>>

----------------------------------------------------------------------------

Duty(t) ==
  \/ CheckSettled(t) \/ AppendSettled(t) \/ FinalizeSettlement(t)
  \/ LoadParent(t) \/ CheckSpawnRecord(t) \/ RepairSpawnRecord(t)
  \/ CheckAnswered(t) \/ AppendAnswer(t) \/ ListSiblings(t) \/ ResumeParent(t)
  \/ CancelChild(t) \/ CancelLiveRun(t)

ChildStep(k) == \/ Duty(k) \/ ReserveSettlement(k) \/ BackOff(k)
                \/ Register(k) \/ Recheck(k) \/ DriveEnds(k)

ParentStep ==
  \/ Duty(P) \/ ReserveSettlement(P) \/ BackOff(P)
  \/ ScanDanglingCalls \/ ExemptLiveChild \/ SynthesizeOutcomes \/ OpenTurn
  \/ CallTasks \/ ExecuteTask \/ DispatchChild
  \/ ListSpawned \/ RepairNext \/ WaitSubmission \/ ParentEnds
  \/ ListOrphans \/ CascadeEnds

Consumer == ConsumeEvent \/ ConsumerAuthors

LoopStep ==
  \/ Duty(Loop) \/ ListTerminalizing \/ Reconcile
  \/ ListExpiredWaits \/ ListChildrenToCancel \/ ReadPending \/ RecheckPending
  \/ AppendExpired \/ RequeueExpired
  \/ ListWaiting \/ ListSettledChildren \/ ReadBackstopPending \/ BackstopWake
  \/ ListExpiredLeases \/ ReleaseExpired \/ CancelReleased
  \/ ListRunnable \/ ClaimSubmission

Next ==
  \/ \E k \in Kids : ChildStep(k)
  \/ ParentStep \/ Consumer \/ LoopStep
  \/ \E s \in Subs : LeaseExpires(s)
  \/ WaitLapses \/ Crash

Spec == Init /\ [][Next]_vars

(* Goroutines are scheduled, agents answer, the ticker ticks, and the lease
   of a dead process runs out.  Crashes and the passing of WaitUntil are not
   fair. *)
Fairness ==
  /\ \A k \in Kids : WF_vars(ChildStep(k))
  /\ WF_vars(ParentStep) /\ WF_vars(Consumer) /\ WF_vars(LoopStep)
  /\ \A s \in Subs : WF_vars(LeaseExpires(s))

FairSpec == Spec /\ Fairness

----------------------------------------------------------------------------
(* Properties. *)

TypeOK ==
  /\ row \in [Subs -> Row]
  /\ log \in [Kids -> Seq(Records)]
  /\ settled \in [Subs -> Seq(Ends)]
  /\ lapsed \in BOOLEAN
  /\ job \in [Threads -> Job]
  /\ events \in Seq({"call", "spawn", "rejected"} \X Kids)
  /\ author \subseteq Kids
  /\ suspended \in BOOLEAN /\ nudge \in BOOLEAN
  /\ called \subseteq Kids /\ parkedLate \in BOOLEAN
  /\ crashes \in Nat

(* A resumed agent finds every call it made answered: the wake lands the
   outcome before it requeues the parent. *)
ResumeFindsAnswers ==
  At(P, "open") /\ job[P].stage = "resume" => \A k \in Children : Answered(k)

(* A run whose row was flagged before or while it drives is interrupted: the
   cancel finds it registered, or it finds the flag. *)
CancelReachesRun ==
  \A k \in Kids : At(k, "drive") /\ row[k].flag =>
    \/ job[k].cut
    \/ \E t \in {P, Loop} : At(t, "interrupt") /\ job[t].sub = k

(* However a submission ends - by its own run, by a reclaim that finds it
   flagged, by its parent's cascade or by recovery - its log holds at most one
   settled record; and the parent is told what that of its child says, whoever
   wakes it and however often. *)
AnswerIsOutcome ==
  /\ \A s \in Subs : Len(settled[s]) <= 1
  /\ \A k \in Kids : \A e \in Ends :
       Logged(k, {e}) => settled[k] # <<>> /\ Head(settled[k]) = e

(* A child with a spawn record is not reported lost while it is at work. *)
NoFabricatedError ==
  \A k \in Kids : \A i, j \in 1 .. Len(log[k]) :
    i < j /\ log[k][i] = "spawn" /\ log[k][j] = "dangling" =>
      row[k].status = "settled" \/ settled[k] # <<>>

(* The wake leaves the log in the order call, spawn, outcome: its own
   outcome never comes before the spawn record. *)
WakeOrder ==
  \A k \in Kids : \A j \in 1 .. Len(log[k]) :
    log[k][j] \in Ends => \E i \in 1 .. j : log[k][i] = "spawn"

(* A parent that was waiting when its last child finalized is woken by its
   children, without the back-stop: siblings that settle at the same time
   may each see the other still terminalizing, but whichever finalizes last
   wakes again. *)
Waking(k) == job[k].pc \in DutyPcs

WokenByChildren ==
  row[P].status = "waiting" /\ Children # {} /\ Live = {} =>
    \/ parkedLate \/ crashes > 0 \/ lapsed
    \/ \E k \in Kids : Waking(k)

(* A parent that settles with live children cascades cancellation to them.
   When the cascade is over every child has settled, is about to, or is
   flagged, and if it drives, interrupted: none slips through between the
   listing and its own cancel, although children are claimed and released
   meanwhile.  A crash cuts the cascade short, and no recovery repeats it. *)
OrphansCancelled ==
  [][At(P, "cascade") /\ job'[P].pc = "idle" /\ crashes' = crashes =>
       \A k \in Live : \/ Terminal(k)
                       \/ row[k].flag /\ (At(k, "drive") => job[k].cut)]_vars

(* What the code does not keep. *)

(* A settled submission has its submission_settled record, or somebody is
   about to append it. *)
SettledHasRecord ==
  \A s \in Subs : row[s].status = "settled" /\ At(Loop, "claiming") =>
    \/ settled[s] # <<>>
    \/ \E t \in Threads : job[t].sub = s /\ job[t].pc \in {"check", "append"}


(* Every submission settles: a parent that parked is woken, by its children,
   by the back-stop scan or by the expiry of its wait.  No row leaves settled,
   so this says it of all at once. *)
SubmissionsSettle ==
  <>[] \A s \in Subs : row[s].status \in {"absent", "settled"}
=============================================================================
