------------------------------- MODULE Drive -------------------------------
(***************************************************************************)
(* The inside of an attempt: submissionRun.drive of engine.go, from the    *)
(* dangling calls it repairs to the result it validates, over all the      *)
(* submissions of one session, since what one leaves in the log the next   *)
(* one prompts with.                                                       *)
(*                                                                         *)
(* The agent is a library.  It may make a tool call at any time, stream    *)
(* deltas, complete messages, and end the stream in any way consumeStream  *)
(* tells apart; its event channel may drop any event.  A lagging consumer  *)
(* of a process that dies is a crash after events that were dropped, so    *)
(* one event is one step.  A call is a plain tool, a tool that suspends    *)
(* without spawn data, or a task call that admits a child; what a child    *)
(* and its wake do in detail is Subagents, how rows are claimed and        *)
(* settled Coordinator, what a compaction does to the path                 *)
(* ConversationTree.  A store call may fail at any time.                   *)
(*                                                                         *)
(* Bounds: each of Calls is made once (providers mint unique ids), and the *)
(* budgets are those of the code.                                          *)
(***************************************************************************)
EXTENDS Naturals, Sequences, FiniteSets

CONSTANTS NumSubs,         \* submissions of the session, in order
          Calls,           \* ids of tool calls
          Schema,          \* the submissions that request a result
          MaxAttempts,     \* the failure-attempt budget
          ResultRetries,   \* corrective turns per attempt
          OverflowRetries  \* overflowCompactRetries

Subs == 1 .. NumSubs

ASSUME DriveAssumption ==
  /\ NumSubs \in Nat \ {0} /\ Schema \subseteq Subs
  /\ MaxAttempts \in Nat \ {0}
  /\ ResultRetries \in Nat /\ OverflowRetries \in Nat

VARIABLES row,    \* the rows of the submissions
          log,    \* the records that matter for the next prompt
          child,  \* the children that task calls have admitted
          run,    \* the submissionRun in flight, with the agent it drives
          made    \* history: the calls that have been made

vars == <<row, log, child, run, made>>

Statuses == {"queued", "running", "waiting", "settled"}
Tools    == {"plain", "bare", "task"}
Kinds    == {"input", "corrective", "call", "spawn", "outcome", "synthesized"}
Pcs      == {"idle", "reconcile", "synthesize", "input", "prompt", "stream",
             "compact", "park", "validate", "correct"}

Row  == [status : Statuses, resume : BOOLEAN, count : 0 .. MaxAttempts + 1]
Rec  == [kind : Kinds, sub : Subs, call : Calls \cup {"none"}]
Kid  == [status : {"none", "live", "settled"}, parent : Subs]
Run  == [sub : Subs, pc : Pcs, stage : {"first", "retry", "corrective"},
         pend : SUBSET Calls,            \* calls found without outcome
         open : SUBSET (Calls \X Tools), \* calls being executed
         buf : BOOLEAN,                  \* deltas are batched
         valid : BOOLEAN,                \* lastAssistantText validates
         suspend : BOOLEAN,              \* a call of this stream suspended
         suspended : BOOLEAN, spawned : BOOLEAN, \* r.suspended, pendingSpawns
         stopped : BOOLEAN,              \* agent.Stop was called
         compactions : 0 .. OverflowRetries, retries : 0 .. ResultRetries]

NewRun(s, pc) ==
  [sub |-> s, pc |-> pc, stage |-> "first", pend |-> {}, open |-> {},
   buf |-> FALSE, valid |-> FALSE, suspend |-> FALSE, suspended |-> FALSE,
   spawned |-> FALSE, stopped |-> FALSE, compactions |-> 0, retries |-> 0]

Idle == NewRun(1, "idle")

Init ==
  /\ row = [s \in Subs |-> [status |-> "queued", resume |-> FALSE, count |-> 0]]
  /\ log = <<>>
  /\ child = [c \in Calls |-> [status |-> "none", parent |-> 1]]
  /\ run = Idle
  /\ made = {}

----------------------------------------------------------------------------
(* What the log and the rows say. *)

Logged(c, Which) == \E i \in 1 .. Len(log) : log[i].call = c /\ log[i].kind \in Which
Called(c)   == Logged(c, {"call"})
Spawned(c)  == Logged(c, {"spawn"})
Answered(c) == Logged(c, {"outcome", "synthesized"})
Bare(c)     == Called(c) /\ ~Answered(c)

HasInput(s) == \E i \in 1 .. Len(log) : log[i].kind = "input" /\ log[i].sub = s

Children(s) == {c \in Calls : child[c].status # "none" /\ child[c].parent = s}
AllSettled(s) == \A c \in Children(s) : child[c].status = "settled"

Record(kind, s, c) == <<[kind |-> kind, sub |-> s, call |-> c]>>

(* The run goes on at pc. *)
Goto(pc) == run' = [run EXCEPT !.pc = pc]

(* The settlement of the run's submission, and any other way its row leaves
   the running state; the goroutine ends. *)
Leave(status, resume) ==
  /\ row' = [row EXCEPT ![run.sub].status = status, ![run.sub].resume = resume]
  /\ run' = Idle

Settle == Leave("settled", FALSE) /\ UNCHANGED <<log, child, made>>

(* The submission's own records carry its id (submissionRun.record). *)
Write(kind, c) == log' = log \o Record(kind, run.sub, c)

----------------------------------------------------------------------------
(* From the claim to the prompt. *)

(* claimRunnable: the oldest unsettled submission of the session.  A resume
   costs no attempt.  An attempt over the budget settles, and so may one whose
   agent does not initialize or whose deadline has passed. *)
Begin(s) ==
  /\ run.pc = "idle" /\ row[s].status = "queued"
  /\ \A t \in 1 .. s - 1 : row[t].status = "settled"
  /\ LET count == row[s].count + (IF row[s].resume THEN 0 ELSE 1)
     IN \/ /\ row' = [row EXCEPT ![s] = [status |-> "settled", resume |-> FALSE,
                                         count |-> count]]
           /\ run' = Idle
        \/ /\ count <= MaxAttempts
           /\ row' = [row EXCEPT ![s] = [status |-> "running", resume |-> FALSE,
                                         count |-> count]]
           /\ run' = NewRun(s, "reconcile")
  /\ UNCHANGED <<log, child, made>>

(* Mistake: only an attempt after the first has something to reconcile. *)
ReconcileRetriesOnly ==
  /\ run.pc = "reconcile"
  /\ run' = [run EXCEPT !.pc = "synthesize",
                        !.pend = {c \in Calls : Bare(c) /\ row[run.sub].count > 1}]
  /\ UNCHANGED <<row, log, child, made>>

(* reconcileDanglingToolCalls reads the log... *)
ReadDangling ==
  /\ run.pc = "reconcile"
  /\ run' = [run EXCEPT !.pc = "synthesize", !.pend = {c \in Calls : Bare(c)}]
  /\ UNCHANGED <<row, log, child, made>>

(* ...exempts the calls whose spawn record names a child at work, and answers
   the others, in the order they were made, by one append. *)
Exempt(c) == Spawned(c) /\ child[c].status = "live"

(* The positions of a set, from the first to the last. *)
Ascending(I) ==
  {f \in [1 .. Cardinality(I) -> I] :
     /\ \A i \in I : \E n \in DOMAIN f : f[n] = i
     /\ \A m, n \in DOMAIN f : m < n => f[m] < f[n]}

CallsOf(C) == {i \in 1 .. Len(log) : log[i].kind = "call" /\ log[i].call \in C}

AppendSynthesized(C) ==
  \E f \in Ascending(CallsOf(C)) :
    log' = log \o [n \in DOMAIN f |->
                     [kind |-> "synthesized", sub |-> run.sub, call |-> log[f[n]].call]]

(* Mistake: the input comes first. *)
InputFirst ==
  /\ run.pc = "synthesize"
  /\ \E f \in Ascending(CallsOf({c \in run.pend : ~Exempt(c)})) :
       log' = log \o (IF HasInput(run.sub) THEN <<>> ELSE Record("input", run.sub, "none"))
                  \o [n \in DOMAIN f |->
                        [kind |-> "synthesized", sub |-> run.sub, call |-> log[f[n]].call]]
  /\ run' = [run EXCEPT !.pc = "input", !.pend = {}]
  /\ UNCHANGED <<row, child, made>>

Synthesize ==
  /\ run.pc = "synthesize"
  /\ AppendSynthesized({c \in run.pend : ~Exempt(c)})
  /\ run' = [run EXCEPT !.pc = "input", !.pend = {}]
  /\ UNCHANGED <<row, child, made>>

(* appendInputRecord *)
AppendInput ==
  /\ run.pc = "input"
  /\ IF HasInput(run.sub) THEN UNCHANGED log ELSE Write("input", "none")
  /\ Goto("prompt")
  /\ UNCHANGED <<row, child, made>>

(* A store call before the prompt, at park time or for a corrective message
   fails, and the drive with it: run_failed. *)
DriveFails ==
  /\ run.pc \in {"reconcile", "synthesize", "input", "park", "correct"}
  /\ Settle

----------------------------------------------------------------------------
(* One stream: the agent emits an event, and consumeEvent handles it. *)

(* agent.Prompt or agent.Resume loads the transcript from the log. *)
StartStream ==
  /\ run.pc = "prompt"
  /\ run' = [run EXCEPT !.pc = "stream", !.suspend = FALSE, !.stopped = FALSE]
  /\ UNCHANGED <<row, log, child, made>>

(* Mistake: the batch is left for the next message boundary. *)
AuthorAhead(kind, c, next) ==
  Write(kind, c) /\ run' = next

(* The event is handled: the batch is flushed and the record appended... *)
Author(kind, c, next) ==
  Write(kind, c) /\ run' = [next EXCEPT !.buf = FALSE]

(* ...or it was dropped on the way, or the flush or the append fails: the
   batch is gone, nothing is authored, and the agent is told to stop. *)
Miss(next) ==
  /\ run' \in {next, [next EXCEPT !.buf = FALSE, !.stopped = TRUE]}
  /\ UNCHANGED log

Streaming == run.pc = "stream" /\ ~run.suspend /\ ~run.stopped

(* bufferDelta; a flush by size or age empties the batch again. *)
Delta ==
  /\ Streaming
  /\ \/ run' = [run EXCEPT !.buf = TRUE]
     \/ run' = [run EXCEPT !.buf = FALSE]
     \/ run' = [run EXCEPT !.buf = FALSE, !.stopped = TRUE]
  /\ UNCHANGED <<row, log, child, made>>

(* MessageEndEvent: a completed message is the candidate answer, even when
   its own append fails.  One without text changes nothing. *)
MessageEnd ==
  /\ Streaming
  /\ \E valid \in {run.sub \in Schema, FALSE}, stopped \in BOOLEAN :
       run' = [run EXCEPT !.valid = valid, !.buf = FALSE, !.stopped = stopped]
  /\ UNCHANGED <<row, log, child, made>>

(* ToolCallStartEvent *)
ToolCallStart ==
  /\ Streaming
  /\ \E c \in Calls \ made, tool \in Tools :
       LET next == [run EXCEPT !.open = @ \cup {<<c, tool>>}]
       IN /\ Author("call", c, next) \/ Miss(next)
          /\ made' = made \cup {c}
  /\ UNCHANGED <<row, child>>

(* ToolCallEndEvent of a tool, and of one that suspends without spawn data:
   the outcome is authored either way. *)
ToolCallEnd ==
  /\ run.pc = "stream"
  /\ \E c \in Calls, tool \in {"plain", "bare"} :
       /\ <<c, tool>> \in run.open
       /\ LET next == [run EXCEPT !.open = @ \ {<<c, tool>>},
                                  !.suspend = @ \/ tool = "bare"]
          IN Author("outcome", c, next) \/ Miss(next)
  /\ UNCHANGED <<row, child, made>>

(* That of a task call: the child is admitted before the event is emitted,
   and the consumer authors the spawn record. *)
TaskCallEnd ==
  /\ run.pc = "stream"
  /\ \E c \in Calls :
       /\ <<c, "task">> \in run.open
       /\ child' = [child EXCEPT ![c] = [status |-> "live", parent |-> run.sub]]
       /\ LET next == [run EXCEPT !.open = @ \ {<<c, "task">>}, !.suspend = TRUE]
          IN \/ Author("spawn", c, [next EXCEPT !.spawned = TRUE])
             \/ Miss(next)
  /\ UNCHANGED <<row, made>>

(* The end of a stream: what is left of the batch is flushed, and the
   terminal result decides. *)
Ended == [run EXCEPT !.buf = FALSE]
StreamOver == run.pc = "stream" /\ run.open = {}

(* Where the drive goes when a prompt returns without an error. *)
AfterPrompt ==
  IF run.stage = "corrective" THEN "validate"
  ELSE IF run.suspended \/ run.suspend THEN "park" ELSE "validate"

StreamDone ==
  /\ StreamOver
  /\ run' = [Ended EXCEPT !.pc = AfterPrompt, !.suspended = @ \/ run.suspend]
  /\ UNCHANGED <<row, log, child, made>>

(* Mistake: compactions are not counted. *)
OverflowsForever ==
  /\ StreamOver /\ run.stage # "corrective"
  /\ run' = [Ended EXCEPT !.pc = "compact"]
  /\ UNCHANGED <<row, log, child, made>>

(* Mistake: one more than the budget. *)
OverflowsInclusive ==
  /\ StreamOver /\ run.stage # "corrective" /\ run.compactions <= OverflowRetries
  /\ run' = [Ended EXCEPT !.pc = "compact", !.compactions = @ + 1]
  /\ UNCHANGED <<row, log, child, made>>

(* Context overflow: compact and try again, a few times; but a corrective
   turn is not recovered. *)
StreamOverflows ==
  /\ StreamOver /\ run.stage # "corrective" /\ run.compactions < OverflowRetries
  /\ run' = [Ended EXCEPT !.pc = "compact", !.compactions = @ + 1]
  /\ UNCHANGED <<row, log, child, made>>

(* A compaction that fails ends the drive. *)
Compact ==
  /\ run.pc = "compact"
  /\ \/ /\ run' = [run EXCEPT !.pc = "prompt", !.stage = "retry"]
        /\ UNCHANGED <<row, log, child, made>>
     \/ Settle

(* A transient error: a fresh attempt, after a pause; in a corrective turn it
   is an error like any other. *)
StreamTransient ==
  /\ StreamOver /\ run.stage # "corrective"
  /\ Leave("queued", FALSE)
  /\ UNCHANGED <<log, child, made>>

(* A fatal error, a persistent overflow, the deadline. *)
StreamFails == StreamOver /\ Settle

----------------------------------------------------------------------------
(* After the prompt. *)

(* reconcileSpawnRecords: author the spawn records that are missing, and park
   if there is a child. *)
Unrecorded(s) == {c \in Children(s) : ~Spawned(c)}

RepairSpawn ==
  /\ run.pc = "park"
  /\ \E c \in Unrecorded(run.sub) : Write("spawn", c)
  /\ UNCHANGED <<row, child, run, made>>

(* Mistake: a suspension always parks. *)
ParkSuspended ==
  /\ run.pc = "park" /\ Unrecorded(run.sub) = {}
  /\ Leave("waiting", TRUE)
  /\ UNCHANGED <<log, child, made>>

Park ==
  /\ run.pc = "park" /\ Unrecorded(run.sub) = {}
  /\ IF Children(run.sub) # {} \/ run.spawned
     THEN Leave("waiting", TRUE)
     ELSE run' = [run EXCEPT !.pc = "validate", !.suspended = FALSE] /\ UNCHANGED row
  /\ UNCHANGED <<log, child, made>>

(* A drive that is over settles; but a suspension that is still noted, by a
   corrective turn, sends the row to waiting. *)
Finish ==
  IF run.suspended THEN Leave("waiting", TRUE) ELSE Leave("settled", FALSE)

(* validateStructuredResult; without a schema any answer will do. *)
Conforms == run.sub \in Schema => run.valid

(* validateResultLoop *)
Validate ==
  /\ run.pc = "validate"
  /\ \/ Conforms /\ Finish
     \/ /\ ~Conforms /\ run.retries >= ResultRetries
        /\ Leave("settled", FALSE)
     \/ /\ ~Conforms /\ run.retries < ResultRetries
        /\ Goto("correct") /\ UNCHANGED row
  /\ UNCHANGED <<log, child, made>>

AppendCorrective ==
  /\ run.pc = "correct"
  /\ Write("corrective", "none")
  /\ run' = [run EXCEPT !.pc = "prompt", !.stage = "corrective", !.retries = @ + 1]
  /\ UNCHANGED <<row, child, made>>

----------------------------------------------------------------------------
(* Around the run. *)

(* A child settles, and its wake lands what is missing in the log of a parent
   that is not terminal, and requeues it if it was the last. *)
ChildSettles(c) ==
  LET p == child[c].parent
  IN /\ child[c].status = "live"
     /\ child' = [child EXCEPT ![c].status = "settled"]
     /\ IF row[p].status = "settled" THEN UNCHANGED <<row, log>>
        ELSE /\ log' = log \o (IF Spawned(c) THEN <<>> ELSE Record("spawn", p, c))
                           \o (IF Answered(c) THEN <<>> ELSE Record("outcome", p, c))
             /\ row' = IF /\ row[p].status = "waiting"
                          /\ Children(p) \ {c} \subseteq
                               {d \in Calls : child[d].status = "settled"}
                       THEN [row EXCEPT ![p].status = "queued"] ELSE row
     /\ UNCHANGED <<run, made>>

(* backstopWake *)
BackstopWake(s) ==
  /\ row[s].status = "waiting" /\ Children(s) # {} /\ AllSettled(s)
  /\ row' = [row EXCEPT ![s].status = "queued"]
  /\ UNCHANGED <<log, child, run, made>>

(* The run is cut short - a crash, a Close, a lease that is lost - and its
   row comes back to the queue. *)
Interrupted ==
  /\ run.pc # "idle"
  /\ Leave("queued", FALSE)
  /\ UNCHANGED <<log, child, made>>

----------------------------------------------------------------------------

RunStep ==
  \/ ReadDangling \/ Synthesize \/ AppendInput \/ StartStream
  \/ ToolCallEnd \/ TaskCallEnd
  \/ StreamDone \/ StreamOverflows \/ StreamTransient \/ StreamFails
  \/ Compact \/ RepairSpawn \/ Park \/ Validate \/ AppendCorrective

Next ==
  \/ \E s \in Subs : Begin(s) \/ BackstopWake(s)
  \/ RunStep \/ DriveFails
  \/ Delta \/ MessageEnd \/ ToolCallStart
  \/ \E c \in Calls : ChildSettles(c)
  \/ Interrupted

Spec == Init /\ [][Next]_vars

(* The loop claims, children settle, the goroutine of the run goes on, and
   the agent ends its stream at some point, by its turn budget or at the
   deadline.  Nothing makes the agent call a tool, or a process die. *)
Fairness ==
  /\ \A s \in Subs : WF_vars(Begin(s)) /\ WF_vars(BackstopWake(s))
  /\ \A c \in Calls : WF_vars(ChildSettles(c))
  /\ WF_vars(RunStep)

FairSpec == Spec /\ Fairness

----------------------------------------------------------------------------
(* Properties. *)

(* Types; and the budgets: attempts, compactions after an overflow, and
   corrective turns are never more than allowed. *)
TypeOK ==
  /\ row \in [Subs -> Row]
  /\ log \in Seq(Rec)
  /\ child \in [Calls -> Kid]
  /\ made \subseteq Calls
  /\ run \in Run

(* The first prompt of a drive replays no bare call, whatever earlier drives
   and submissions of the session left in the log: events that were dropped,
   failed appends, crashes between call and outcome.  Only a call whose child
   was at work when the log was repaired may be bare: while the child works,
   or because its parent was settled when it ended. *)
FirstPromptAnswered ==
  run.pc = "prompt" /\ run.stage = "first" =>
    \A c \in Calls : Bare(c) =>
      /\ Spawned(c)
      /\ child[c].status = "live" \/ row[child[c].parent].status = "settled"

(* The outcome that is made up for a dangling call comes before anything a
   later submission says or does, unless a child was at work on the call. *)
SynthesizedInOrder ==
  \A i, j \in 1 .. Len(log) :
    /\ i < j /\ log[i].kind = "call" /\ log[j].kind = "synthesized"
    /\ log[i].call = log[j].call
    /\ \A k \in i .. j : ~(log[k].kind = "spawn" /\ log[k].call = log[i].call)
    => \A k \in i .. j : log[k].kind \in {"input", "corrective", "call"} =>
                           log[k].sub = log[i].sub

(* No record a run authors overtakes the deltas streamed before it: when it
   is appended, the batch has been. *)
NoOvertaking ==
  [][run.pc = "stream" /\ run.buf /\ log' # log /\ run' # run => ~run'.buf]_vars

(* A submission parks only when it has a child whose settlement can wake it,
   however many spawn events were dropped: a tool that suspends without one
   settles normally.  The exception is the code's own: a suspension in a
   corrective turn never meets the park gate. *)
ParkedHasChild ==
  [][\A s \in Subs : row'[s].status = "waiting" /\ row[s].status # "waiting" =>
       Children(s) # {} \/ run.stage = "corrective"]_vars

(* Every submission settles: the recovery ladder, the corrective turns and
   the attempts all come to an end, and a parked submission is woken.  The
   exception is that of ParkedHasChild: with no child nothing ever wakes it,
   and the session waits behind it. *)
DrivesEnd ==
  <>[] \A s \in Subs : \/ row[s].status = "settled"
                       \/ row[s].status = "waiting" /\ Children(s) = {}
                       \/ \E t \in 1 .. s - 1 : row[t].status # "settled"
=============================================================================
