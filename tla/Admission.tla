------------------------------ MODULE Admission ------------------------------
(***************************************************************************)
(* How work gets in and its end gets out: Runtime.Dispatch (runtime.go),   *)
(* the locked section of a task call that dispatches a child (taskTool     *)
(* .admit, subagent.go), and Runtime.Wait.  Goroutines interleave at every *)
(* store call; a store call may fail, having taken effect or not; the      *)
(* process may crash, and callers then ask again.                          *)
(*                                                                         *)
(* All task calls are of one drive of one parent, whose tool they share: a *)
(* call is executed again when the model repeats it or a later drive does. *)
(* Of the engine's work on an admitted submission only the end is here:    *)
(* the row is settled, and this is announced.                              *)
(***************************************************************************)
EXTENDS Naturals, Sequences, FiniteSets

CONSTANTS Requests,     \* what callers ask: [id, key, input, task]
          Callers,      \* goroutines that dispatch
          Waiters,      \* goroutines that wait
          Awaited,      \* the submissions they wait for
          MaxChildren,  \* SubagentLimits.MaxChildrenPerRun
          MaxCalls,     \* bound: calls of the callers
          MaxFaults     \* bound: crashes and failing store calls

ASSUME FanOut == MaxChildren \in Nat \ {0}
ASSUME FreeMutex == "free" \notin Callers

Ids    == {r.id : r \in Requests}
Keys   == {r.key : r \in Requests}
Inputs == {r.input : r \in Requests}

TaskCalls == {r \in Requests : r.task}

(* A child is a submission that task calls name. *)
Children == {r.id : r \in TaskCalls}

(* A child's id and the session of its conversation are both derived from the
   parent's submission and the call (execute, admit in subagent.go): the
   session names the call, and no caller outside picks the id of a child. *)
ASSUME TaskNames ==
  /\ IsFiniteSet(Children)
  /\ \A q \in Requests : q.task \in BOOLEAN
  /\ \A q, r \in TaskCalls : q.key = r.key => q.id = r.id
  /\ \A q \in Requests : q.id \in Children => q.task

VARIABLES conv,     \* session keys that have a conversation
          opened,   \* per key: the ParentRefs of its conversation_created records
          row,      \* the submissions
          mu,       \* the caller that holds the task tool's mutex, or "free"
          caller,   \* per caller: where it is in its call
          waiter,   \* per waiter: where it is in Wait
          owed,     \* settled submissions whose goroutine still has to announce it
          torn,     \* history: keys whose created record names a task call that was then not admitted
          calls, minted, faults

vars == <<conv, opened, row, mu, caller, waiter, owed, torn, calls, minted, faults>>

store == <<conv, opened, row>>

Statuses == {"absent", "live", "settled"}

Row == [status : Statuses, key : Keys \cup {"none"}, input : Inputs \cup {"none"}]

NoRow == [status |-> "absent", key |-> "none", input |-> "none"]

(* created: the conversation was made by this task call; spawn: the spawn record id minted, 0
   outside of task calls.  At "answered" the caller has its receipt: the key
   of the conversation it names, and spawn. *)
NoRequest == [id |-> "none", key |-> "none", input |-> "none", task |-> FALSE]
IdleCaller == [pc |-> "idle", req |-> NoRequest, replay |-> FALSE, created |-> FALSE, spawn |-> 0,
               named |-> "none"]
CallerState ==
  [pc : {"idle", "lock", "replay", "count", "ensure", "open", "admit", "recover", "answered"},
   req : Requests \cup {NoRequest}, replay : BOOLEAN, created : BOOLEAN, spawn : Nat,
   named : Keys \cup {"none"}]

(* closed: the settleSub channel taken has been closed. *)
IdleWaiter == [pc |-> "idle", id |-> "none", closed |-> FALSE]

Init ==
  /\ conv = {} /\ opened = [k \in Keys |-> <<>>]
  /\ row = [i \in Ids |-> NoRow]
  /\ mu = "free"
  /\ caller = [c \in Callers |-> IdleCaller]
  /\ waiter = [w \in Waiters |-> IdleWaiter]
  /\ owed = {} /\ torn = {}
  /\ calls = 0 /\ minted = 0 /\ faults = 0

----------------------------------------------------------------------------
At(c, pc) == caller[c].pc = pc
Goto(c, pc) == caller' = [caller EXCEPT ![c].pc = pc]
Leave(c) == caller' = [caller EXCEPT ![c] = IdleCaller]
Unlock(c) == mu' = IF mu = c THEN "free" ELSE mu

(* Stopped between its created record and its admission, a task call leaves
   the conversation torn. *)
Abandoned(cs) ==
  {caller[c].req.key : c \in {d \in cs : caller[d].created /\ At(d, "admit")}}

Call(c, r) ==
  /\ At(c, "idle") \/ At(c, "answered")
  /\ calls < MaxCalls /\ calls' = calls + 1
  /\ caller' = [caller EXCEPT ![c] = [IdleCaller EXCEPT !.req = r,
                                                        !.pc = IF r.task THEN "lock" ELSE "ensure"]]
  /\ UNCHANGED <<conv, opened, row, mu, waiter, owed, torn, minted, faults>>

(* Mutant: the check and the count are made before the lock is taken. *)
LockAtDispatch(c) ==
  /\ At(c, "lock")
  /\ Goto(c, "replay")
  /\ UNCHANGED <<conv, opened, row, mu, waiter, owed, torn, calls, minted, faults>>

(* taskTool.admit. *)
Lock(c) ==
  /\ At(c, "lock") /\ mu = "free"
  /\ mu' = c
  /\ Goto(c, "replay")
  /\ UNCHANGED <<conv, opened, row, waiter, owed, torn, calls, minted, faults>>

CheckReplay(c) ==
  /\ At(c, "replay")
  /\ LET replay == row[caller[c].req.id].status # "absent"
     IN caller' = [caller EXCEPT ![c].replay = replay, ![c].pc = IF replay THEN "ensure" ELSE "count"]
  /\ UNCHANGED <<conv, opened, row, mu, waiter, owed, torn, calls, minted, faults>>

Live == {i \in Children : row[i].status = "live"}

CountChildren(c) ==
  /\ At(c, "count")
  /\ IF Cardinality(Live) >= MaxChildren
     THEN Leave(c) /\ Unlock(c)
     ELSE Goto(c, "ensure") /\ UNCHANGED mu
  /\ UNCHANGED <<conv, opened, row, waiter, owed, torn, calls, minted, faults>>

(* Mutant: every dispatch takes the conversation for its own. *)
EnsureAlwaysCreated(c) ==
  /\ At(c, "ensure")
  /\ LET r == caller[c].req
         spawn == IF r.task THEN minted + 1 ELSE 0
     IN /\ conv' = conv \cup {r.key}
        /\ minted' = IF r.task THEN minted + 1 ELSE minted
        /\ caller' = [caller EXCEPT ![c].created = r.task, ![c].spawn = spawn, ![c].pc = "open"]
  /\ UNCHANGED <<opened, row, mu, waiter, owed, torn, calls, faults>>

(* Runtime.Dispatch; a task call has minted its spawn record id before. *)
EnsureConversation(c) ==
  /\ At(c, "ensure")
  /\ LET r == caller[c].req
         spawn == IF r.task THEN minted + 1 ELSE 0
     IN /\ conv' = conv \cup {r.key}
        /\ minted' = IF r.task THEN minted + 1 ELSE minted
        /\ caller' = [caller EXCEPT ![c].created = r.task /\ r.key \notin conv, ![c].spawn = spawn,
                                    ![c].pc = IF r.key \in conv THEN "admit" ELSE "open"]
  /\ UNCHANGED <<opened, row, mu, waiter, owed, torn, calls, faults>>

AppendCreated(c) ==
  /\ At(c, "open")
  /\ opened' = [opened EXCEPT ![caller[c].req.key] = Append(@, caller[c].spawn)]
  /\ Goto(c, "admit")
  /\ UNCHANGED <<conv, row, mu, waiter, owed, torn, calls, minted, faults>>

(* What AdmitSubmission stores: a row that is there stays. *)
Stored(r) ==
  IF row[r.id].status = "absent" THEN [status |-> "live", key |-> r.key, input |-> r.input]
  ELSE row[r.id]

(* A receipt names the stored row's conversation, whatever key was asked. *)
Receipt(r) == Stored(r).key

Answer(c, named, spawn) ==
  /\ caller' = [caller EXCEPT ![c] = [IdleCaller EXCEPT !.pc = "answered", !.req = caller[c].req,
                                                        !.named = named, !.spawn = spawn]]
  /\ Unlock(c)

AdmitSubmission(c) ==
  /\ At(c, "admit")
  /\ LET r == caller[c].req
     IN /\ row' = [row EXCEPT ![r.id] = Stored(r)]
        /\ CASE Stored(r).input # r.input ->
                  Leave(c) /\ Unlock(c) /\ torn' = torn \cup Abandoned({c})
             [] Stored(r).input = r.input /\ caller[c].replay ->
                  Goto(c, "recover") /\ UNCHANGED <<mu, torn>>
             [] OTHER -> Answer(c, Receipt(r), caller[c].spawn) /\ UNCHANGED torn
  /\ UNCHANGED <<conv, opened, waiter, owed, calls, minted, faults>>

(* Mutant: a replayed task call keeps the id it minted. *)
KeepMintedID(c) ==
  /\ At(c, "recover")
  /\ Answer(c, Receipt(caller[c].req), caller[c].spawn)
  /\ UNCHANGED <<conv, opened, row, waiter, owed, torn, calls, minted, faults>>

(* childSpawnRecordID: a replayed task call takes the spawn record id that the
   child conversation was created with, if it has one. *)
RecoverSpawnRecordID(c) ==
  /\ At(c, "recover")
  /\ LET r == caller[c].req
         refs == opened[Receipt(r)]
     IN Answer(c, Receipt(r), IF refs # <<>> /\ Head(refs) # 0 THEN Head(refs) ELSE caller[c].spawn)
  /\ UNCHANGED <<conv, opened, row, waiter, owed, torn, calls, minted, faults>>

(* A store call fails and the dispatch returns its error; on sqlite a write
   may have landed, when it is the read back that fails. *)
CallFails(c) ==
  /\ faults < MaxFaults /\ faults' = faults + 1
  /\ caller[c].pc \in {"replay", "count", "ensure", "open", "admit", "recover"}
  /\ LET r == caller[c].req
     IN \/ /\ UNCHANGED <<conv, row>>
           /\ torn' = torn \cup Abandoned({c})
        \/ /\ At(c, "ensure")
           /\ conv' = conv \cup {r.key} /\ UNCHANGED <<row, torn>>
        \/ /\ At(c, "admit")
           /\ row' = [row EXCEPT ![r.id] = Stored(r)] /\ UNCHANGED <<conv, torn>>
  /\ Leave(c) /\ Unlock(c)
  /\ UNCHANGED <<opened, waiter, owed, calls, minted>>

----------------------------------------------------------------------------
(* FinalizeSettlement, or CancelSubmission of a queued or parked child. *)
Settle(i) ==
  /\ row[i].status = "live"
  /\ row' = [row EXCEPT ![i].status = "settled"]
  /\ owed' = owed \cup {i}
  /\ UNCHANGED <<conv, opened, mu, caller, waiter, torn, calls, minted, faults>>

(* notifySettled closes the channel and puts a new one in its place. *)
NotifySettled(i) ==
  /\ i \in owed
  /\ owed' = owed \ {i}
  /\ waiter' = [w \in Waiters |->
                  IF waiter[w].pc = "select" THEN [waiter[w] EXCEPT !.closed = TRUE] ELSE waiter[w]]
  /\ UNCHANGED <<store, mu, caller, torn, calls, minted, faults>>

----------------------------------------------------------------------------
(* Runtime.Wait. *)
waitRest == <<conv, opened, row, mu, caller, owed, torn, calls, minted, faults>>

Wait(w, i) ==
  /\ waiter[w].pc = "idle"
  /\ waiter' = [waiter EXCEPT ![w] = [IdleWaiter EXCEPT !.pc = "get", !.id = i]]
  /\ UNCHANGED waitRest

(* Wait returns the error of a missing row; and of a settled one the payload
   of its settled record, or an error if the log has none. *)
GetSubmission(w) ==
  /\ waiter[w].pc = "get"
  /\ LET status == row[waiter[w].id].status
     IN waiter' = [waiter EXCEPT ![w] =
          IF status = "live" THEN [@ EXCEPT !.pc = "subscribe"] ELSE IdleWaiter]
  /\ UNCHANGED waitRest

TakeSettleSub(w) ==
  /\ waiter[w].pc = "subscribe"
  /\ waiter' = [waiter EXCEPT ![w].pc = "select"]
  /\ UNCHANGED waitRest

(* Mutant: no timer. *)
SelectSignal(w) ==
  /\ waiter[w].pc = "select"
  /\ waiter[w].closed
  /\ waiter' = [waiter EXCEPT ![w].pc = "get", ![w].closed = FALSE]
  /\ UNCHANGED waitRest

(* The channel taken is closed, or a quarter of a second has passed. *)
Select(w) ==
  /\ waiter[w].pc = "select"
  /\ waiter' = [waiter EXCEPT ![w].pc = "get", ![w].closed = FALSE]
  /\ UNCHANGED waitRest

----------------------------------------------------------------------------
Crash ==
  /\ faults < MaxFaults /\ faults' = faults + 1
  /\ mu' = "free"
  /\ caller' = [c \in Callers |-> IdleCaller]
  /\ waiter' = [w \in Waiters |-> IdleWaiter]
  /\ owed' = {}
  /\ torn' = torn \cup Abandoned(Callers)
  /\ UNCHANGED <<store, calls, minted>>

CallerStep(c) ==
  \/ \E r \in Requests : Call(c, r)
  \/ Lock(c) \/ CheckReplay(c) \/ CountChildren(c)
  \/ EnsureConversation(c) \/ AppendCreated(c) \/ AdmitSubmission(c) \/ RecoverSpawnRecordID(c)
  \/ CallFails(c)

InWait(w) == GetSubmission(w) \/ TakeSettleSub(w) \/ Select(w)

Next ==
  \/ \E c \in Callers : CallerStep(c)
  \/ \E i \in Ids : Settle(i) \/ NotifySettled(i)
  \/ \E w \in Waiters : InWait(w) \/ \E i \in Awaited : Wait(w, i)
  \/ Crash

Spec == Init /\ [][Next]_vars

(* A goroutine in Wait is scheduled, and its timer fires. *)
FairSpec == Spec /\ \A w \in Waiters : WF_vars(InWait(w))

----------------------------------------------------------------------------
(* Types; and a conversation is opened by at most one record, however many
   dispatches meet on its session key. *)
TypeOK ==
  /\ conv \subseteq Keys /\ owed \subseteq Ids /\ torn \subseteq Keys
  /\ opened \in [Keys -> Seq(Nat)] /\ \A k \in Keys : Len(opened[k]) <= 1
  /\ row \in [Ids -> Row]
  /\ mu \in Callers \cup {"free"}
  /\ caller \in [Callers -> CallerState]
  /\ waiter \in [Waiters -> [pc : {"idle", "get", "subscribe", "select"},
                             id : Awaited \cup {"none"}, closed : BOOLEAN]]
  /\ calls \in Nat /\ minted \in Nat /\ faults \in Nat

(* Dispatching under one id is idempotent: every receipt, of the first caller
   and of those that repeat or race it, names the one conversation of the one
   row and is for the input the row has; and if the child conversation points
   back to a spawn record, it is the one that a task call's receipt names,
   whichever execution of the call this is, unless the one that created the
   conversation was stopped before its admission. *)
ReceiptsAgree ==
  \A c \in Callers : At(c, "answered") =>
    LET r == caller[c].req
        key == caller[c].named
        refs == opened[key]
    IN /\ row[r.id].key = key /\ row[r.id].input = r.input
       /\ r.task /\ key \notin torn /\ refs # <<>> => Head(refs) \in {0, caller[c].spawn}

(* The task calls of a turn run at once, and each looks for room before it
   admits: together they never admit more live children than the limit. *)
FanOutBounded == Cardinality(Live) <= MaxChildren

(* A Wait for a settled submission returns, although it may have read the row
   before the settlement and taken the channel after its announcement. *)
WaitReturns ==
  \A w \in Waiters :
    (waiter[w].pc # "idle" /\ row[waiter[w].id].status = "settled") ~> waiter[w].pc = "idle"
=============================================================================
