---------------------------- MODULE DriveProofs ----------------------------
(***************************************************************************)
(* Theorems about Drive, for every number of submissions, calls, attempts  *)
(* and turns: what a drive prompts with, in which order it repairs, and    *)
(* when it parks.                                                          *)
(***************************************************************************)
EXTENDS DriveInvariant, FiniteSetTheorems, TLAPS

USE DriveAssumption

----------------------------------------------------------------------------
(* What the steps do, as far as the invariant can tell. *)

(* The run ends, and its row leaves the running state. *)
Leaves ==
  /\ run.pc # "idle" /\ run' = Idle /\ UNCHANGED <<log, child, made>>
  /\ \E status \in {"queued", "waiting", "settled"}, resume \in BOOLEAN :
       /\ row' = [row EXCEPT ![run.sub].status = status, ![run.sub].resume = resume]
       /\ status = "waiting" => Children(run.sub) # {} \/ run.stage = "corrective"

(* The run goes on past its input, and writes nothing. *)
Goes ==
  /\ run.pc \notin {"idle", "reconcile", "synthesize", "input"}
  /\ UNCHANGED <<row, log, child, made>>
  /\ run' \in Run /\ (run').sub = run.sub
  /\ (run').open = run.open /\ (run').spawned = run.spawned
  /\ (run').pc \notin {"idle", "reconcile", "synthesize", "input"}
  /\ (run').pc = "prompt" => (run').stage # "first"
  /\ (run').pc \in {"validate", "correct"} /\ (run').suspended => (run').stage = "corrective"
  /\ (run').pc = "correct" => (run').retries < ResultRetries

(* The stream goes on. *)
Streams ==
  /\ run.pc = "stream" /\ (run').pc = "stream" /\ run' \in Run /\ (run').sub = run.sub
  /\ row' = row

Starts(c) ==
  /\ Streams /\ c \notin made /\ made' = made \cup {c} /\ child' = child
  /\ (run').spawned = run.spawned
  /\ \E tool \in Tools : (run').open = run.open \cup {<<c, tool>>}
  /\ log' = log \/ log' = log \o Record("call", run.sub, c)

Ends(c) ==
  /\ Streams /\ UNCHANGED <<child, made>>
  /\ (run').spawned = run.spawned /\ (run').open \subseteq run.open
  /\ log' = log \/ log' = log \o Record("outcome", run.sub, c)

Spawns(c) ==
  /\ Streams /\ c \in made /\ made' = made
  /\ child' = [child EXCEPT ![c] = [status |-> "live", parent |-> run.sub]]
  /\ (run').open \subseteq run.open
  /\ log' = log \/ log' = log \o Record("spawn", run.sub, c)

(* The claim: the row is settled, or the run begins. *)
Begins(s) ==
  /\ run.pc = "idle" /\ row[s].status = "queued" /\ UNCHANGED <<log, child, made>>
  /\ \E status \in {"settled", "running"}, n \in 0 .. MaxAttempts + 1 :
       /\ row' = [row EXCEPT ![s] = [status |-> status, resume |-> FALSE, count |-> n]]
       /\ status = "settled" => run' = Idle
       /\ status = "running" => n <= MaxAttempts /\ run' = NewRun(s, "reconcile")

(* The run goes on from one of its first steps, or with a record. *)
Advances(from, to) ==
  /\ run.pc = from /\ (run').pc = to /\ run' \in Run
  /\ (run').sub = run.sub /\ (run').open = run.open /\ (run').spawned = run.spawned
  /\ UNCHANGED <<row, child, made>>

Reads ==
  Advances("reconcile", "synthesize") /\ (run').pend = {c \in Calls : Bare(c)} /\ log' = log

Repairs == Advances("synthesize", "input") /\ AppendSynthesized({c \in run.pend : ~Exempt(c)})

Inputs ==
  /\ Advances("input", "prompt") /\ (run').stage = run.stage
  /\ log' = log \/ log' = log \o Record("input", run.sub, "none")

Corrects ==
  /\ Advances("correct", "prompt") /\ (run').stage = "corrective"
  /\ log' = log \o Record("corrective", run.sub, "none")

Relinks(c) ==
  /\ run.pc = "park" /\ child[c].status # "none" /\ UNCHANGED <<row, child, run, made>>
  /\ log' = log \o Record("spawn", run.sub, c)

(* A child settles, or the scan wakes a parent. *)
Settles(c) ==
  LET p == child[c].parent
  IN /\ child[c].status = "live" /\ child' = [child EXCEPT ![c].status = "settled"]
     /\ UNCHANGED <<run, made>>
     /\ \/ row[p].status = "settled" /\ UNCHANGED <<row, log>>
        \/ /\ row[p].status # "settled"
           /\ log' = log \o (IF Spawned(c) THEN <<>> ELSE Record("spawn", p, c))
                         \o (IF Answered(c) THEN <<>> ELSE Record("outcome", p, c))
           /\ \/ row' = row
              \/ row[p].status = "waiting" /\ row' = [row EXCEPT ![p].status = "queued"]

Wakes(s) ==
  /\ row[s].status = "waiting" /\ row' = [row EXCEPT ![s].status = "queued"]
  /\ UNCHANGED <<log, child, run, made>>

LEMMA WentOn ==
  ASSUME Invariant, StartStream \/ Delta \/ MessageEnd \/ StreamDone \/ StreamOverflows
  PROVE  Goes
  <1>1. run \in Run
    BY DEF Invariant, TypeOK
  <1>2. CASE StartStream
    BY <1>1, <1>2 DEF StartStream, Goes, Run, Pcs
  <1>3. CASE Delta
    <2>1. run.pc = "stream" /\ UNCHANGED <<row, log, child, made>>
      BY <1>3, Zenon DEF Delta, Streaming
    <2>2. CASE run' = [run EXCEPT !.buf = TRUE]
      BY <1>1, <2>1, <2>2 DEF Goes, Run
    <2>3. CASE run' = [run EXCEPT !.buf = FALSE]
      BY <1>1, <2>1, <2>3 DEF Goes, Run
    <2>4. CASE run' = [run EXCEPT !.buf = FALSE, !.stopped = TRUE]
      BY <1>1, <2>1, <2>4 DEF Goes, Run
    <2> QED
      BY <1>3, <2>2, <2>3, <2>4, Zenon DEF Delta
  <1>4. CASE MessageEnd
    <2>1. run.pc = "stream" /\ UNCHANGED <<row, log, child, made>>
      BY <1>4, Zenon DEF MessageEnd, Streaming
    <2>2. PICK valid \in {run.sub \in Schema, FALSE}, stopped \in BOOLEAN :
            run' = [run EXCEPT !.valid = valid, !.buf = FALSE, !.stopped = stopped]
      BY <1>4, Zenon DEF MessageEnd
    <2>3. valid \in BOOLEAN
      <3>1. (run.sub \in Schema) \in BOOLEAN
        OBVIOUS
      <3> QED
        BY <2>2, <3>1, Zenon
    <2> QED
      BY <1>1, <2>1, <2>2, <2>3 DEF Goes, Run
  <1>5. CASE StreamDone
    <2> DEFINE r == [run EXCEPT !.buf = FALSE]
    <2>1. /\ r \in Run /\ r.sub = run.sub /\ r.open = run.open /\ r.spawned = run.spawned
          /\ r.stage = run.stage /\ r.suspended = run.suspended /\ r.suspend = run.suspend
      BY <1>1 DEF Run
    <2>2. /\ run' = [r EXCEPT !.pc = AfterPrompt, !.suspended = run.suspended \/ run.suspend]
          /\ run.pc = "stream" /\ UNCHANGED <<row, log, child, made>>
      BY <1>5, <2>1 DEF StreamDone, StreamOver, Ended
    <2>3. /\ AfterPrompt \in {"validate", "park"}
          /\ AfterPrompt = "validate" /\ (run.suspended \/ run.suspend) => run.stage = "corrective"
      BY DEF AfterPrompt
    <2> HIDE DEF r
    <2>4. /\ run' \in Run /\ (run').sub = r.sub /\ (run').open = r.open
          /\ (run').spawned = r.spawned
      BY <2>1, <2>2, <2>3 DEF Run, Pcs
    <2>5. /\ (run').pc = AfterPrompt /\ (run').suspended = (run.suspended \/ run.suspend)
          /\ (run').stage = r.stage
      BY <2>1, <2>2 DEF Run
    <2> QED
      BY <2>1, <2>2, <2>3, <2>4, <2>5 DEF Goes
  <1>6. CASE StreamOverflows
    <2> DEFINE r == [run EXCEPT !.buf = FALSE]
    <2>1. /\ r \in Run /\ r.sub = run.sub /\ r.open = run.open /\ r.spawned = run.spawned
          /\ r.compactions = run.compactions
      BY <1>1 DEF Run
    <2>2. /\ run' = [r EXCEPT !.pc = "compact", !.compactions = run.compactions + 1]
          /\ run.pc = "stream" /\ UNCHANGED <<row, log, child, made>>
          /\ run.compactions + 1 \in 0 .. OverflowRetries
      BY <1>1, <1>6, <2>1 DEF StreamOverflows, StreamOver, Ended, Run
    <2> HIDE DEF r
    <2>4. /\ run' \in Run /\ (run').sub = r.sub /\ (run').open = r.open
          /\ (run').spawned = r.spawned /\ (run').pc = "compact"
      BY <2>1, <2>2 DEF Run, Pcs
    <2> QED
      BY <2>1, <2>2, <2>4 DEF Goes
  <1> QED
    BY <1>2, <1>3, <1>4, <1>5, <1>6

LEMMA LeftOrWentOn ==
  ASSUME Invariant,
         \/ Compact \/ Park \/ Validate \/ StreamTransient \/ StreamFails \/ DriveFails
         \/ Interrupted
  PROVE  Leaves \/ Goes
  <1>1. run \in Run
    BY DEF Invariant, TypeOK
  <1>2. ASSUME NEW status \in {"queued", "waiting", "settled"}, NEW resume \in BOOLEAN,
               Leave(status, resume), run.pc # "idle", UNCHANGED <<log, child, made>>,
               status = "waiting" => Children(run.sub) # {} \/ run.stage = "corrective"
        PROVE  Leaves
    BY <1>2 DEF Leave, Leaves
  <1>3. ASSUME Settle, run.pc # "idle"
        PROVE  Leaves
    BY <1>2, <1>3 DEF Settle
  <1>4. CASE StreamTransient \/ StreamFails \/ DriveFails \/ Interrupted
    BY <1>2, <1>3, <1>4 DEF StreamTransient, StreamFails, DriveFails, Interrupted, StreamOver
  <1>5. CASE Compact
    <2>1. CASE Settle
      BY <1>3, <1>5, <2>1 DEF Compact
    <2>2. CASE /\ run' = [run EXCEPT !.pc = "prompt", !.stage = "retry"]
               /\ UNCHANGED <<row, log, child, made>>
      BY <1>1, <1>5, <2>2 DEF Compact, Goes, Run, Pcs
    <2> QED
      BY <1>5, <2>1, <2>2 DEF Compact
  <1>6. CASE Park
    <2>1. CASE Children(run.sub) # {} \/ run.spawned
      BY <1>2, <1>6, <2>1 DEF Park, Invariant, Gated
    <2>2. CASE ~ (Children(run.sub) # {} \/ run.spawned)
      <3>1. /\ run' = [run EXCEPT !.pc = "validate", !.suspended = FALSE]
            /\ UNCHANGED <<row, log, child, made>> /\ run.pc = "park"
        BY <1>6, <2>2 DEF Park
      <3> QED
        BY <1>1, <3>1 DEF Goes, Run, Pcs
    <2> QED
      BY <2>1, <2>2
  <1>7. CASE Validate
    <2>1. CASE Conforms /\ Finish
      <3>1. run.suspended => run.stage = "corrective"
        BY <1>7 DEF Validate, Invariant, Gated
      <3> QED
        BY <1>2, <1>7, <2>1, <3>1 DEF Validate, Finish
    <2>2. CASE run.retries >= ResultRetries /\ Leave("settled", FALSE)
      BY <1>2, <1>7, <2>2 DEF Validate
    <2>3. CASE run.retries < ResultRetries /\ Goto("correct") /\ UNCHANGED row
      <3>1. run.pc = "validate" /\ run.suspended => run.stage = "corrective"
        BY <1>7 DEF Validate, Invariant, Gated
      <3>2. run' = [run EXCEPT !.pc = "correct"] /\ UNCHANGED <<row, log, child, made>>
        BY <1>7, <2>3 DEF Validate, Goto
      <3> QED
        BY <1>1, <1>7, <2>3, <3>1, <3>2 DEF Validate, Goes, Run, Pcs
    <2> QED
      BY <1>7, <2>1, <2>2, <2>3 DEF Validate
  <1> QED
    BY <1>4, <1>5, <1>6, <1>7

LEMMA Streamed ==
  ASSUME Invariant, ToolCallStart \/ ToolCallEnd \/ TaskCallEnd
  PROVE  \E c \in Calls : Starts(c) \/ Ends(c) \/ Spawns(c)
  <1>1. run \in Run /\ log' \in {log'}
    BY DEF Invariant, TypeOK
  <1>2. ASSUME NEW next \in Run, next.pc = "stream", next.sub = run.sub,
               NEW kind, NEW c, Author(kind, c, next) \/ Miss(next)
        PROVE  /\ run' \in Run /\ (run').pc = "stream" /\ (run').sub = run.sub
               /\ (run').open = next.open /\ (run').spawned = next.spawned
               /\ log' = log \/ log' = log \o Record(kind, run.sub, c)
    <2>1. /\ run' \in {next, [next EXCEPT !.buf = FALSE], [next EXCEPT !.buf = FALSE, !.stopped = TRUE]}
          /\ log' = log \/ log' = log \o Record(kind, run.sub, c)
      BY <1>2 DEF Author, Miss, Write
    <2>2. CASE run' = next
      BY <1>2, <2>1, <2>2
    <2>3. CASE run' = [next EXCEPT !.buf = FALSE]
      BY <1>2, <2>1, <2>3 DEF Run
    <2>4. CASE run' = [next EXCEPT !.buf = FALSE, !.stopped = TRUE]
      BY <1>2, <2>1, <2>4 DEF Run
    <2> QED
      BY <2>1, <2>2, <2>3, <2>4
  <1>3. ASSUME NEW o \in SUBSET (Calls \X Tools), run.pc = "stream"
        PROVE  LET next == [run EXCEPT !.open = o]
               IN /\ next \in Run /\ next.pc = "stream" /\ next.sub = run.sub
                  /\ next.open = o /\ next.spawned = run.spawned
    BY <1>1, <1>3 DEF Run
  <1>4. ASSUME NEW o \in SUBSET (Calls \X Tools), NEW b \in BOOLEAN, run.pc = "stream"
        PROVE  LET next == [run EXCEPT !.open = o, !.suspend = b]
               IN /\ next \in Run /\ next.pc = "stream" /\ next.sub = run.sub
                  /\ next.open = o /\ next.spawned = run.spawned
    BY <1>1, <1>4 DEF Run
  <1>5. CASE ToolCallStart
    <2>1. PICK c \in Calls \ made, tool \in Tools :
            LET next == [run EXCEPT !.open = @ \cup {<<c, tool>>}]
            IN /\ Author("call", c, next) \/ Miss(next)
               /\ made' = made \cup {c}
      BY <1>5 DEF ToolCallStart
    <2> DEFINE o == run.open \cup {<<c, tool>>}
               next == [run EXCEPT !.open = o]
    <2>2. o \in SUBSET (Calls \X Tools)
      BY <1>1 DEF Run
    <2>3. run.pc = "stream" /\ UNCHANGED <<row, child>>
      BY <1>5 DEF ToolCallStart, Streaming
    <2>4. Author("call", c, next) \/ Miss(next)
      BY <2>1, Zenon
    <2> HIDE DEF o
    <2>5. /\ next \in Run /\ next.pc = "stream" /\ next.sub = run.sub
          /\ next.open = o /\ next.spawned = run.spawned
      BY <1>3, <2>2, <2>3, Zenon
    <2> HIDE DEF next
    <2>6. /\ run' \in Run /\ (run').pc = "stream" /\ (run').sub = run.sub
          /\ (run').open = next.open /\ (run').spawned = next.spawned
          /\ log' = log \/ log' = log \o Record("call", run.sub, c)
      BY <1>2, <2>4, <2>5, Zenon
    <2>7. (run').open = run.open \cup {<<c, tool>>}
      BY <2>5, <2>6 DEF o
    <2> QED
      BY <2>1, <2>3, <2>5, <2>6, <2>7 DEF Starts, Streams
  <1>6. CASE ToolCallEnd
    <2>1. PICK c \in Calls, tool \in {"plain", "bare"} :
            /\ <<c, tool>> \in run.open
            /\ LET next == [run EXCEPT !.open = @ \ {<<c, tool>>},
                                       !.suspend = @ \/ tool = "bare"]
               IN Author("outcome", c, next) \/ Miss(next)
      BY <1>6 DEF ToolCallEnd
    <2> DEFINE o == run.open \ {<<c, tool>>}
               b == run.suspend \/ tool = "bare"
               next == [run EXCEPT !.open = o, !.suspend = b]
    <2>2. o \in SUBSET (Calls \X Tools) /\ b \in BOOLEAN /\ o \subseteq run.open
      BY <1>1 DEF Run
    <2>3. run.pc = "stream" /\ UNCHANGED <<row, child, made>>
      BY <1>6 DEF ToolCallEnd
    <2>4. Author("outcome", c, next) \/ Miss(next)
      <3>1. next = [run EXCEPT !.open = @ \ {<<c, tool>>}, !.suspend = @ \/ tool = "bare"]
        BY <1>1 DEF Run
      <3> QED
        BY <2>1, <3>1, Zenon
    <2> HIDE DEF o, b
    <2>5. /\ next \in Run /\ next.pc = "stream" /\ next.sub = run.sub
          /\ next.open = o /\ next.spawned = run.spawned
      BY <1>1, <2>2, <2>3 DEF Run
    <2> HIDE DEF next
    <2>6. /\ run' \in Run /\ (run').pc = "stream" /\ (run').sub = run.sub
          /\ (run').open = next.open /\ (run').spawned = next.spawned
          /\ log' = log \/ log' = log \o Record("outcome", run.sub, c)
      BY <1>2, <2>4, <2>5, Zenon
    <2> QED
      BY <2>2, <2>3, <2>5, <2>6 DEF Ends, Streams
  <1>7. CASE TaskCallEnd
    <2>1. PICK c \in Calls :
            /\ <<c, "task">> \in run.open
            /\ child' = [child EXCEPT ![c] = [status |-> "live", parent |-> run.sub]]
            /\ LET next == [run EXCEPT !.open = @ \ {<<c, "task">>}, !.suspend = TRUE]
               IN \/ Author("spawn", c, [next EXCEPT !.spawned = TRUE])
                  \/ Miss(next)
      BY <1>7 DEF TaskCallEnd
    <2> DEFINE o == run.open \ {<<c, "task">>}
               next == [run EXCEPT !.open = o, !.suspend = TRUE]
               spawned == [next EXCEPT !.spawned = TRUE]
    <2>2. o \in SUBSET (Calls \X Tools) /\ o \subseteq run.open
      BY <1>1 DEF Run
    <2>3. run.pc = "stream" /\ UNCHANGED <<row, made>> /\ c \in made
      BY <1>7, <2>1 DEF TaskCallEnd, Invariant, MadeOnce, Tools
    <2>4. Author("spawn", c, spawned) \/ Miss(next)
      BY <2>1, Zenon
    <2> HIDE DEF o
    <2>5. /\ next \in Run /\ next.pc = "stream" /\ next.sub = run.sub /\ next.open = o
      BY <1>4, <2>2, <2>3, Zenon
    <2> HIDE DEF next
    <2>6. /\ spawned \in Run /\ spawned.pc = "stream" /\ spawned.sub = run.sub /\ spawned.open = o
      BY <2>5 DEF Run
    <2> HIDE DEF spawned
    <2>7. /\ run' \in Run /\ (run').pc = "stream" /\ (run').sub = run.sub /\ (run').open = o
          /\ log' = log \/ log' = log \o Record("spawn", run.sub, c)
      BY <1>2, <2>4, <2>5, <2>6, Zenon
    <2> QED
      BY <2>1, <2>2, <2>3, <2>7 DEF Spawns, Streams
  <1> QED
    BY <1>5, <1>6, <1>7

LEMMA Advanced ==
  ASSUME Invariant
  PROVE  /\ ReadDangling => Reads
         /\ Synthesize => Repairs
         /\ AppendInput => Inputs
         /\ AppendCorrective => Corrects
  <1>1. run \in Run
    BY DEF Invariant, TypeOK
  <1>2. ASSUME ReadDangling PROVE Reads
    <2> DEFINE bare == {c \in Calls : Bare(c)}
    <2>1. /\ run.pc = "reconcile" /\ UNCHANGED <<row, log, child, made>>
          /\ run' = [run EXCEPT !.pc = "synthesize", !.pend = bare]
      BY <1>2, Zenon DEF ReadDangling
    <2>2. bare \in SUBSET Calls
      OBVIOUS
    <2> HIDE DEF bare
    <2>3. Advances("reconcile", "synthesize") /\ (run').pend = bare
      BY <1>1, <2>1, <2>2 DEF Advances, Run, Pcs
    <2> QED
      BY <2>1, <2>3, Zenon DEF Reads, bare
  <1>3. ASSUME Synthesize PROVE Repairs
    <2>1. /\ run.pc = "synthesize" /\ UNCHANGED <<row, child, made>>
          /\ run' = [run EXCEPT !.pc = "input", !.pend = {}]
      BY <1>3, Zenon DEF Synthesize
    <2>2. Advances("synthesize", "input")
      BY <1>1, <2>1 DEF Advances, Run, Pcs
    <2> QED
      BY <1>3, <2>2, Zenon DEF Synthesize, Repairs
  <1>4. ASSUME AppendInput PROVE Inputs
    <2>1. /\ run.pc = "input" /\ UNCHANGED <<row, child, made>>
          /\ run' = [run EXCEPT !.pc = "prompt"]
          /\ log' = log \/ log' = log \o Record("input", run.sub, "none")
      BY <1>4, Zenon DEF AppendInput, Goto, Write
    <2>2. Advances("input", "prompt") /\ (run').stage = run.stage
      BY <1>1, <2>1 DEF Advances, Run, Pcs
    <2> QED
      BY <2>1, <2>2, Zenon DEF Inputs
  <1>5. ASSUME AppendCorrective PROVE Corrects
    <2>1. /\ run.pc = "correct" /\ UNCHANGED <<row, child, made>>
          /\ run' = [run EXCEPT !.pc = "prompt", !.stage = "corrective", !.retries = run.retries + 1]
          /\ log' = log \o Record("corrective", run.sub, "none")
      BY <1>1, <1>5 DEF AppendCorrective, Write, Run
    <2>2. run.retries + 1 \in 0 .. ResultRetries
      BY <1>1, <2>1 DEF Invariant, Running, Run
    <2>3. Advances("correct", "prompt") /\ (run').stage = "corrective"
      BY <1>1, <2>1, <2>2 DEF Advances, Run, Pcs
    <2> QED
      BY <2>1, <2>3, Zenon DEF Corrects
  <1> QED
    BY <1>2, <1>3, <1>4, <1>5

LEMMA Around ==
  ASSUME Invariant
  PROVE  /\ RepairSpawn => \E c \in Calls : Relinks(c)
         /\ \A s \in Subs : Begin(s) => Begins(s)
         /\ \A s \in Subs : BackstopWake(s) => Wakes(s)
         /\ \A c \in Calls : ChildSettles(c) => Settles(c)
  <1>1. ASSUME RepairSpawn PROVE \E c \in Calls : Relinks(c)
    BY <1>1 DEF RepairSpawn, Unrecorded, Children, Relinks, Write
  <1>2. ASSUME NEW s \in Subs, Begin(s) PROVE Begins(s)
    <2> DEFINE n == row[s].count + (IF row[s].resume THEN 0 ELSE 1)
    <2>1. /\ run.pc = "idle" /\ row[s].status = "queued" /\ UNCHANGED <<log, child, made>>
          /\ \/ /\ row' = [row EXCEPT ![s] = [status |-> "settled", resume |-> FALSE, count |-> n]]
                /\ run' = Idle
             \/ /\ n <= MaxAttempts
                /\ row' = [row EXCEPT ![s] = [status |-> "running", resume |-> FALSE, count |-> n]]
                /\ run' = NewRun(s, "reconcile")
      BY <1>2, Zenon DEF Begin
    <2>2. n \in 0 .. MaxAttempts + 1
      BY <2>1 DEF Invariant, TypeOK, Running, Row
    <2> HIDE DEF n
    <2> QED
      BY <2>1, <2>2 DEF Begins
  <1>3. ASSUME NEW s \in Subs, BackstopWake(s) PROVE Wakes(s)
    BY <1>3 DEF BackstopWake, Wakes
  <1>4. ASSUME NEW c \in Calls, ChildSettles(c) PROVE Settles(c)
    BY <1>4, Zenon DEF ChildSettles, Settles
  <1> QED
    BY <1>1, <1>2, <1>3, <1>4

Steps ==
  \/ Leaves \/ Goes \/ Reads \/ Repairs \/ Inputs \/ Corrects
  \/ \E c \in Calls : Starts(c) \/ Ends(c) \/ Spawns(c) \/ Relinks(c) \/ Settles(c)
  \/ \E s \in Subs : Begins(s) \/ Wakes(s)

LEMMA NextSteps ==
  ASSUME Invariant, [Next]_vars
  PROVE  Steps \/ UNCHANGED vars
  <1>1. ASSUME RunStep
        PROVE  Steps
    BY <1>1, WentOn, LeftOrWentOn, Streamed, Advanced, Around, Zenon DEF RunStep, Steps
  <1>2. CASE Next
    BY <1>1, <1>2, WentOn, LeftOrWentOn, Streamed, Around, Zenon DEF Next, Steps
  <1> QED
    BY <1>2, Zenon

----------------------------------------------------------------------------
(* What the steps write. *)

(* The log grows at its end. *)
Kept ==
  /\ log' \in Seq(Rec) /\ Len(log) <= Len(log')
  /\ \A i \in 1 .. Len(log) : (log')[i] = log[i]

Fresh(i) == i \in Len(log) + 1 .. Len(log')

(* m is b after a. *)
IsJoin(a, b, m) ==
  /\ Len(a) \in Nat /\ Len(b) \in Nat /\ Len(m) = Len(a) + Len(b)
  /\ \A i \in 1 .. Len(a) : i \in 1 .. Len(m) /\ m[i] = a[i]
  /\ \A i \in Len(a) + 1 .. Len(m) : i - Len(a) \in 1 .. Len(b) /\ m[i] = b[i - Len(a)]
  /\ \A i \in 1 .. Len(b) : Len(a) + i \in Len(a) + 1 .. Len(m) /\ m[Len(a) + i] = b[i]

LEMMA Joined ==
  ASSUME NEW S, NEW a \in Seq(S), NEW b \in Seq(S), NEW m, m = a \o b
  PROVE  m \in Seq(S) /\ IsJoin(a, b, m)
  <1>1. m \in Seq(S) /\ Len(a) \in Nat /\ Len(b) \in Nat /\ Len(m) = Len(a) + Len(b)
    OBVIOUS
  <1>2. \A i \in 1 .. Len(a) : m[i] = a[i]
    OBVIOUS
  <1>3. \A i \in Len(a) + 1 .. Len(m) : m[i] = b[i - Len(a)]
    OBVIOUS
  <1>4. \A i \in 1 .. Len(a) : i \in 1 .. Len(m)
    BY <1>1
  <1>5. \A i \in Len(a) + 1 .. Len(m) : i - Len(a) \in 1 .. Len(b)
    BY <1>1
  <1>6. ASSUME NEW i \in 1 .. Len(b)
        PROVE  Len(a) + i \in Len(a) + 1 .. Len(m) /\ m[Len(a) + i] = b[i]
    <2>1. Len(a) + i \in Len(a) + 1 .. Len(m) /\ (Len(a) + i) - Len(a) = i
      BY <1>1
    <2> QED
      BY <1>3, <2>1
  <1> QED
    BY <1>1, <1>2, <1>3, <1>4, <1>5, <1>6, Zenon DEF IsJoin

LEMMA Extended ==
  ASSUME log \in Seq(Rec), NEW s \in Seq(Rec), log' = log \o s
  PROVE  /\ Kept /\ Len(log') = Len(log) + Len(s)
         /\ \A i : Fresh(i) => i - Len(log) \in 1 .. Len(s) /\ (log')[i] = s[i - Len(log)]
  <1> DEFINE m == log'
  <1>1. m = log \o s
    OBVIOUS
  <1> HIDE DEF m
  <1>2. m \in Seq(Rec) /\ IsJoin(log, s, m)
    BY <1>1, Joined
  <1>3. Len(log) <= Len(m)
    BY <1>2 DEF IsJoin
  <1>4. Kept
    BY <1>2, <1>3 DEF m, Kept, IsJoin
  <1>5. ASSUME NEW i, Fresh(i) PROVE i - Len(log) \in 1 .. Len(s) /\ (log')[i] = s[i - Len(log)]
    BY <1>2, <1>5, Zenon DEF m, Fresh, IsJoin
  <1> QED
    BY <1>2, <1>4, <1>5 DEF m, IsJoin

LEMMA Recorded ==
  ASSUME NEW kind \in Kinds, NEW s \in Subs, NEW c \in Calls \cup {"none"}
  PROVE  /\ Record(kind, s, c) \in Seq(Rec) /\ Len(Record(kind, s, c)) = 1
         /\ LET r == Record(kind, s, c)[1] IN r.kind = kind /\ r.sub = s /\ r.call = c
  BY DEF Record, Rec

LEMMA WroteOne ==
  ASSUME log \in Seq(Rec), NEW kind \in Kinds, NEW s \in Subs, NEW c \in Calls \cup {"none"},
         log' = log \o Record(kind, s, c)
  PROVE  /\ Kept /\ Len(log') = Len(log) + 1
         /\ \A i : Fresh(i) => i = Len(log) + 1 /\ (log')[i].kind = kind /\ (log')[i].sub = s
                               /\ (log')[i].call = c
  <1> DEFINE r == Record(kind, s, c)
  <1>1. r \in Seq(Rec) /\ Len(r) = 1 /\ r[1].kind = kind /\ r[1].sub = s /\ r[1].call = c
    BY Recorded
  <1> HIDE DEF r
  <1>2. log' = log \o r
    BY DEF r
  <1>3. /\ Kept /\ Len(log') = Len(log) + Len(r)
        /\ \A i : Fresh(i) => i - Len(log) \in 1 .. Len(r) /\ (log')[i] = r[i - Len(log)]
    BY <1>1, <1>2, Extended, Zenon
  <1>4. ASSUME NEW i, Fresh(i) PROVE i = Len(log) + 1 /\ i - Len(log) = 1
    BY <1>1, <1>3, <1>4 DEF Fresh
  <1>5. ASSUME NEW i, Fresh(i) PROVE (log')[i] = r[1]
    BY <1>3, <1>4, <1>5, Zenon
  <1> QED
    BY <1>1, <1>3, <1>4, <1>5

(* What has been said of a call stays said. *)
LEMMA StaysLogged ==
  ASSUME Kept, NEW c
  PROVE  /\ Called(c) => Called(c)'
         /\ Spawned(c) => Spawned(c)'
         /\ Answered(c) => Answered(c)'
  <1>1. ASSUME NEW Which, Logged(c, Which) PROVE Logged(c, Which)'
    BY <1>1 DEF Kept, Logged
  <1>2. Called(c) => Called(c)'
    BY <1>1 DEF Called
  <1>3. Spawned(c) => Spawned(c)'
    BY <1>1 DEF Spawned
  <1>4. Answered(c) => Answered(c)'
    BY <1>1 DEF Answered
  <1> QED
    BY <1>2, <1>3, <1>4

LEMMA ExtendedTwice ==
  ASSUME log \in Seq(Rec), NEW r \in Seq(Rec), NEW t \in Seq(Rec), log' = (log \o r) \o t
  PROVE  /\ Kept
         /\ \A i : Fresh(i) => \/ \E k \in 1 .. Len(r) : (log')[i] = r[k]
                               \/ \E k \in 1 .. Len(t) : (log')[i] = t[k]
         /\ \A k \in 1 .. Len(r) : \E i \in 1 .. Len(log') : (log')[i] = r[k]
         /\ \A k \in 1 .. Len(t) : \E i \in 1 .. Len(log') : (log')[i] = t[k]
  <1> DEFINE m == log \o r
             n == log'
  <1>1. n = m \o t
    OBVIOUS
  <1>2. m \in Seq(Rec) /\ IsJoin(log, r, m)
    BY Joined
  <1> HIDE DEF m, n
  <1>3. n \in Seq(Rec) /\ IsJoin(m, t, n)
    BY <1>1, <1>2, Joined
  <1>4. Kept
    <2>1. Len(log) <= Len(n)
      BY <1>2, <1>3, Zenon, SMT DEF IsJoin
    <2>2. \A i \in 1 .. Len(log) : n[i] = log[i]
      BY <1>2, <1>3, Zenon DEF IsJoin
    <2> QED
      BY <1>3, <2>1, <2>2 DEF n, Kept
  <1>5. ASSUME NEW i, Fresh(i)
        PROVE  \/ \E k \in 1 .. Len(r) : n[i] = r[k]
               \/ \E k \in 1 .. Len(t) : n[i] = t[k]
    <2>0. i \in Len(log) + 1 .. Len(n)
      BY <1>5 DEF Fresh, n
    <2>1. CASE i \in Len(log) + 1 .. Len(m)
      <3>1. i \in 1 .. Len(m)
        BY <1>2, <2>1 DEF IsJoin
      <3>2. i - Len(log) \in 1 .. Len(r) /\ m[i] = r[i - Len(log)]
        BY <1>2, <2>1, Zenon DEF IsJoin
      <3>3. n[i] = m[i]
        BY <1>3, <3>1, Zenon DEF IsJoin
      <3> QED
        BY <3>2, <3>3
    <2>2. CASE i \in Len(m) + 1 .. Len(n)
      BY <1>3, <2>2, Zenon DEF IsJoin
    <2>3. i \in Len(log) + 1 .. Len(m) \/ i \in Len(m) + 1 .. Len(n)
      BY <1>2, <1>3, <2>0 DEF IsJoin
    <2> QED
      BY <2>1, <2>2, <2>3, Zenon
  <1>6. ASSUME NEW k \in 1 .. Len(r) PROVE \E i \in 1 .. Len(n) : n[i] = r[k]
    <2>1. Len(log) + k \in 1 .. Len(m) /\ m[Len(log) + k] = r[k]
      BY <1>2 DEF IsJoin
    <2> QED
      BY <1>3, <2>1, Zenon DEF IsJoin
  <1>7. ASSUME NEW k \in 1 .. Len(t) PROVE \E i \in 1 .. Len(n) : n[i] = t[k]
    <2>1. Len(m) + k \in 1 .. Len(n) /\ n[Len(m) + k] = t[k]
      BY <1>3 DEF IsJoin
    <2> QED
      BY <2>1
  <1> QED
    BY <1>4, <1>5, <1>6, <1>7 DEF n

(* A child that settles lands what is missing of its call. *)
LEMMA Landed ==
  ASSUME log \in Seq(Rec), NEW c, NEW r \in Seq(Rec), NEW t \in Seq(Rec), log' = (log \o r) \o t,
         \A i \in 1 .. Len(r) : r[i].kind = "spawn" /\ r[i].call = c,
         \A i \in 1 .. Len(t) : t[i].kind = "outcome" /\ t[i].call = c,
         Spawned(c) \/ 1 \in 1 .. Len(r), Answered(c) \/ 1 \in 1 .. Len(t)
  PROVE  /\ Kept
         /\ \A i : Fresh(i) => (log')[i].kind \in {"spawn", "outcome"} /\ (log')[i].call = c
         /\ Spawned(c)' /\ Answered(c)'
  <1>1. /\ Kept
        /\ \A i : Fresh(i) => \/ \E k \in 1 .. Len(r) : (log')[i] = r[k]
                              \/ \E k \in 1 .. Len(t) : (log')[i] = t[k]
        /\ \A k \in 1 .. Len(r) : \E i \in 1 .. Len(log') : (log')[i] = r[k]
        /\ \A k \in 1 .. Len(t) : \E i \in 1 .. Len(log') : (log')[i] = t[k]
    BY ExtendedTwice, Zenon
  <1>2. ASSUME NEW i, Fresh(i)
        PROVE  (log')[i].kind \in {"spawn", "outcome"} /\ (log')[i].call = c
    <2>1. CASE \E k \in 1 .. Len(r) : (log')[i] = r[k]
      BY <2>1
    <2>2. CASE \E k \in 1 .. Len(t) : (log')[i] = t[k]
      BY <2>2
    <2> QED
      BY <1>1, <1>2, <2>1, <2>2, Zenon
  <1>3. Spawned(c)'
    <2>1. CASE 1 \in 1 .. Len(r)
      <3>1. PICK i \in 1 .. Len(log') : (log')[i] = r[1]
        BY <1>1, <2>1, Zenon
      <3>2. (log')[i].kind = "spawn" /\ (log')[i].call = c
        BY <2>1, <3>1
      <3> QED
        BY <3>2 DEF Spawned, Logged
    <2> QED
      BY <1>1, <2>1, StaysLogged, Zenon
  <1>4. Answered(c)'
    <2>1. CASE 1 \in 1 .. Len(t)
      <3>1. PICK i \in 1 .. Len(log') : (log')[i] = t[1]
        BY <1>1, <2>1, Zenon
      <3>2. (log')[i].kind = "outcome" /\ (log')[i].call = c
        BY <2>1, <3>1
      <3> QED
        BY <3>2 DEF Answered, Logged
    <2> QED
      BY <1>1, <2>1, StaysLogged, Zenon
  <1> QED
    BY <1>1, <1>2, <1>3, <1>4, Zenon

LEMMA WroteMissing ==
  ASSUME log \in Seq(Rec), NEW c \in Calls, NEW p \in Subs,
         log' = log \o (IF Spawned(c) THEN <<>> ELSE Record("spawn", p, c))
                    \o (IF Answered(c) THEN <<>> ELSE Record("outcome", p, c))
  PROVE  /\ Kept
         /\ \A i : Fresh(i) => (log')[i].kind \in {"spawn", "outcome"} /\ (log')[i].call = c
         /\ Spawned(c)' /\ Answered(c)'
  <1> DEFINE r == IF Spawned(c) THEN <<>> ELSE Record("spawn", p, c)
             t == IF Answered(c) THEN <<>> ELSE Record("outcome", p, c)
  <1>1. /\ r \in Seq(Rec) /\ \A i \in 1 .. Len(r) : r[i].kind = "spawn" /\ r[i].call = c
        /\ Spawned(c) \/ 1 \in 1 .. Len(r)
    <2>1. CASE Spawned(c)
      BY <2>1
    <2>2. CASE ~ Spawned(c)
      <3> DEFINE u == Record("spawn", p, c)
      <3>1. u \in Seq(Rec) /\ Len(u) = 1 /\ u[1].kind = "spawn" /\ u[1].call = c
        BY Recorded DEF Kinds
      <3> HIDE DEF u
      <3> QED
        BY <2>2, <3>1 DEF u
    <2> QED
      BY <2>1, <2>2
  <1>2. /\ t \in Seq(Rec) /\ \A i \in 1 .. Len(t) : t[i].kind = "outcome" /\ t[i].call = c
        /\ Answered(c) \/ 1 \in 1 .. Len(t)
    <2>1. CASE Answered(c)
      BY <2>1
    <2>2. CASE ~ Answered(c)
      <3> DEFINE u == Record("outcome", p, c)
      <3>1. u \in Seq(Rec) /\ Len(u) = 1 /\ u[1].kind = "outcome" /\ u[1].call = c
        BY Recorded DEF Kinds
      <3> HIDE DEF u
      <3> QED
        BY <2>2, <3>1 DEF u
    <2> QED
      BY <2>1, <2>2
  <1>3. log' = (log \o r) \o t
    OBVIOUS
  <1> HIDE DEF r, t
  <1> QED
    BY <1>1, <1>2, <1>3, Landed, Zenon

(* The repair answers every dangling call it does not exempt. *)
LEMMA WroteSynthesized ==
  ASSUME log \in Seq(Rec), run.sub \in Subs, NEW C \in SUBSET Calls, AppendSynthesized(C)
  PROVE  /\ Kept
         /\ \A i : Fresh(i) => (log')[i].kind = "synthesized" /\ (log')[i].call \in C
         /\ \A c \in C : Called(c) => Answered(c)'
  <1> DEFINE I == CallsOf(C)
             n == Cardinality(I)
  <1>1. PICK f \in Ascending(I) :
          log' = log \o [k \in DOMAIN f |->
                          [kind |-> "synthesized", sub |-> run.sub, call |-> log[f[k]].call]]
    BY Zenon DEF AppendSynthesized
  <1>2. n \in Nat
    <2>1. IsFiniteSet(1 .. Len(log))
      BY FS_Interval
    <2>2. I \subseteq 1 .. Len(log)
      BY DEF CallsOf
    <2>3. IsFiniteSet(I)
      BY <2>1, <2>2, FS_Subset, Zenon
    <2> QED
      BY <2>3, FS_CardinalityType, Zenon
  <1>3. /\ \A i \in I : i \in 1 .. Len(log) /\ log[i].kind = "call" /\ log[i].call \in C
        /\ \A i \in 1 .. Len(log) : log[i].kind = "call" /\ log[i].call \in C => i \in I
    BY DEF CallsOf
  <1>4. /\ DOMAIN f = 1 .. n /\ \A k \in 1 .. n : f[k] \in I
        /\ \A i \in I : \E k \in 1 .. n : f[k] = i
    BY DEF Ascending
  <1> HIDE DEF I, n
  <1>5. \A k \in 1 .. n : log[f[k]].call \in C
    BY <1>3, <1>4
  <1>6. PICK s \in Seq(Rec) :
          /\ log' = log \o s /\ Len(s) = n
          /\ \A k \in 1 .. n : s[k].kind = "synthesized" /\ s[k].call = log[f[k]].call
    <2> DEFINE rec(k) == [kind |-> "synthesized", sub |-> run.sub, call |-> log[f[k]].call]
               s == [k \in 1 .. n |-> rec(k)]
    <2>1. \A k \in 1 .. n : /\ rec(k) \in Rec /\ rec(k).kind = "synthesized"
                            /\ rec(k).call = log[f[k]].call
      BY <1>5 DEF Rec, Kinds
    <2>2. log' = log \o s
      BY <1>1, <1>4
    <2> HIDE DEF rec
    <2>3. \A k \in 1 .. n : s[k] = rec(k)
      OBVIOUS
    <2>4. s \in Seq(Rec) /\ Len(s) = n
      BY <1>2, <2>1
    <2> HIDE DEF s
    <2> QED
      BY <2>1, <2>2, <2>3, <2>4
  <1> DEFINE m == log'
  <1>7. m = log \o s
    BY <1>6
  <1> HIDE DEF m
  <1>8. m \in Seq(Rec) /\ IsJoin(log, s, m)
    BY <1>7, Joined
  <1>9. Kept
    BY <1>8 DEF m, Kept, IsJoin
  <1>10. ASSUME NEW i, Fresh(i) PROVE (log')[i].kind = "synthesized" /\ (log')[i].call \in C
    <2>1. PICK k \in 1 .. n : m[i] = s[k]
      BY <1>6, <1>8, <1>10 DEF Fresh, IsJoin, m
    <2> QED
      BY <1>5, <1>6, <2>1 DEF m
  <1>11. ASSUME NEW c \in C, Called(c) PROVE Answered(c)'
    <2>1. PICK i \in 1 .. Len(log) : log[i].call = c /\ log[i].kind = "call"
      BY <1>11 DEF Called, Logged
    <2>2. PICK k \in 1 .. n : f[k] = i
      BY <1>3, <1>4, <2>1
    <2>3. s[k].kind = "synthesized" /\ s[k].call = c
      BY <1>6, <2>1, <2>2
    <2>4. PICK j \in 1 .. Len(m) : m[j] = s[k]
      BY <1>6, <1>8 DEF IsJoin
    <2> QED
      BY <2>3, <2>4 DEF m, Answered, Logged
  <1> QED
    BY <1>9, <1>10, <1>11

(* What a step appends: what is said is said by the run past its input; a call
   is new; a spawn record names a call that was made; and what is synthesized
   had been found, and is not exempt. *)
Appends ==
  /\ Kept /\ made \subseteq made' /\ made' \subseteq Calls
  /\ \A i : Fresh(i) /\ (log')[i].kind \in Says =>
       /\ (log')[i].sub = run.sub /\ (run').sub = run.sub
       /\ run.pc \in {"input", "stream", "correct"}
  /\ \A i : Fresh(i) /\ (log')[i].kind = "call" =>
       i = Len(log) + 1 /\ (log')[i].call \in made' \ made
  /\ \A i : Fresh(i) /\ (log')[i].kind = "spawn" => (log')[i].call \in made
  /\ \A i : Fresh(i) /\ (log')[i].kind = "synthesized" =>
       /\ run.pc = "synthesize" /\ (log')[i].call \in run.pend /\ ~ Exempt((log')[i].call)
       /\ \A k : Fresh(k) => (log')[k].kind = "synthesized"

LEMMA Quietly ==
  ASSUME log \in Seq(Rec), log' = log
  PROVE  Kept /\ \A i : ~ Fresh(i)
  <1>1. Len(log) \in Nat
    OBVIOUS
  <1> QED
    BY <1>1 DEF Kept, Fresh

LEMMA AppendsOne ==
  ASSUME Invariant, NEW kind \in Kinds, NEW c \in Calls \cup {"none"}, NEW s \in Subs,
         log' = log \o Record(kind, s, c),
         made \subseteq made', made' \subseteq Calls,
         kind \in Says => /\ s = run.sub /\ (run').sub = run.sub
                          /\ run.pc \in {"input", "stream", "correct"},
         kind = "call" => c \in made' \ made,
         kind = "spawn" => c \in made,
         kind # "synthesized"
  PROVE  Appends
  <1>1. log \in Seq(Rec)
    BY DEF Invariant, TypeOK
  <1>2. /\ Kept
        /\ \A i : Fresh(i) => i = Len(log) + 1 /\ (log')[i].kind = kind /\ (log')[i].sub = s
                              /\ (log')[i].call = c
    BY <1>1, WroteOne
  <1>3. ASSUME NEW i, Fresh(i), (log')[i].kind \in Says
        PROVE  /\ (log')[i].sub = run.sub /\ (run').sub = run.sub
               /\ run.pc \in {"input", "stream", "correct"}
    BY <1>2, <1>3
  <1>4. ASSUME NEW i, Fresh(i), (log')[i].kind = "call"
        PROVE  i = Len(log) + 1 /\ (log')[i].call \in made' \ made
    BY <1>2, <1>4
  <1>5. ASSUME NEW i, Fresh(i), (log')[i].kind = "spawn"
        PROVE  (log')[i].call \in made
    BY <1>2, <1>5
  <1>6. \A i : Fresh(i) => (log')[i].kind # "synthesized"
    BY <1>2
  <1> QED
    BY <1>2, <1>3, <1>4, <1>5, <1>6, Zenon DEF Appends

LEMMA AppendsNothing ==
  ASSUME Invariant, log' = log, made \subseteq made', made' \subseteq Calls
  PROVE  Appends
  <1>1. log \in Seq(Rec)
    BY DEF Invariant, TypeOK
  <1>2. Kept /\ \A i : ~ Fresh(i)
    BY <1>1, Quietly
  <1> QED
    BY <1>2, Zenon DEF Appends

LEMMA StepsAppend ==
  ASSUME Invariant, Steps \/ UNCHANGED vars
  PROVE  Appends
  <1>1. /\ log \in Seq(Rec) /\ made \subseteq Calls /\ run.sub \in Subs
        /\ run.pend \in SUBSET Calls
    BY DEF Invariant, TypeOK, Run
  <1>2. CASE log' = log /\ made' = made
    BY <1>1, <1>2, AppendsNothing
  <1>3. CASE Leaves \/ Goes \/ Reads \/ (\E s \in Subs : Begins(s) \/ Wakes(s)) \/ UNCHANGED vars
    <2>1. CASE Leaves \/ Goes \/ Reads \/ UNCHANGED vars
      BY <1>2, <2>1 DEF Leaves, Goes, Reads, Advances, vars
    <2>2. CASE \E s \in Subs : Begins(s) \/ Wakes(s)
      BY <1>2, <2>2 DEF Begins, Wakes
    <2> QED
      BY <1>3, <2>1, <2>2
  <1>4. CASE Repairs
    <2> DEFINE C == {c \in run.pend : ~ Exempt(c)}
    <2>1. C \in SUBSET Calls
      BY <1>1
    <2>2. AppendSynthesized(C) /\ run.pc = "synthesize" /\ made' = made
      BY <1>4 DEF Repairs, Advances
    <2>3. \A c \in C : c \in run.pend /\ ~ Exempt(c)
      OBVIOUS
    <2> HIDE DEF C
    <2>4. Kept /\ \A i : Fresh(i) => (log')[i].kind = "synthesized" /\ (log')[i].call \in C
      BY <1>1, <2>1, <2>2, WroteSynthesized, Zenon
    <2>5. \A i : Fresh(i) => (log')[i].kind \notin Says /\ (log')[i].kind \notin {"call", "spawn"}
      BY <2>4 DEF Says
    <2> QED
      BY <1>1, <2>2, <2>3, <2>4, <2>5, Zenon DEF Appends
  <1>5. CASE Inputs
    <2>1. run.pc = "input" /\ (run').sub = run.sub /\ made' = made
      BY <1>5 DEF Inputs, Advances
    <2>2. CASE log' = log \o Record("input", run.sub, "none")
      BY <1>1, <2>1, <2>2, AppendsOne DEF Kinds
    <2> QED
      BY <1>2, <1>5, <2>1, <2>2 DEF Inputs
  <1>6. CASE Corrects
    <2>1. run.pc = "correct" /\ (run').sub = run.sub /\ made' = made
      BY <1>6 DEF Corrects, Advances
    <2>2. log' = log \o Record("corrective", run.sub, "none")
      BY <1>6 DEF Corrects
    <2> QED
      BY <1>1, <2>1, <2>2, AppendsOne DEF Kinds
  <1>7. ASSUME NEW c \in Calls, Starts(c) PROVE Appends
    <2>1. /\ run.pc = "stream" /\ (run').sub = run.sub /\ made' = made \cup {c} /\ c \notin made
          /\ log' = log \/ log' = log \o Record("call", run.sub, c)
      BY <1>7 DEF Starts, Streams
    <2>2. made \subseteq made' /\ made' \subseteq Calls /\ c \in made' \ made
      BY <1>1, <2>1
    <2>3. CASE log' = log \o Record("call", run.sub, c)
      BY <1>1, <2>1, <2>2, <2>3, AppendsOne DEF Kinds
    <2> QED
      BY <2>1, <2>2, <2>3, AppendsNothing
  <1>8. ASSUME NEW c \in Calls, Ends(c) PROVE Appends
    <2>1. made' = made /\ (log' = log \/ log' = log \o Record("outcome", run.sub, c))
      BY <1>8 DEF Ends
    <2>3. CASE log' = log \o Record("outcome", run.sub, c)
      BY <1>1, <2>1, <2>3, AppendsOne DEF Kinds, Says
    <2> QED
      BY <1>2, <2>1, <2>3
  <1>9. ASSUME NEW c \in Calls, Spawns(c) PROVE Appends
    <2>1. made' = made /\ c \in made /\ (log' = log \/ log' = log \o Record("spawn", run.sub, c))
      BY <1>9 DEF Spawns
    <2>3. CASE log' = log \o Record("spawn", run.sub, c)
      BY <1>1, <2>1, <2>3, AppendsOne DEF Kinds, Says
    <2> QED
      BY <1>2, <2>1, <2>3
  <1>10. ASSUME NEW c \in Calls, Relinks(c) PROVE Appends
    <2>1. made' = made /\ c \in made /\ log' = log \o Record("spawn", run.sub, c)
      BY <1>10 DEF Relinks, Invariant, MadeOnce
    <2> QED
      BY <1>1, <2>1, AppendsOne DEF Kinds, Says
  <1>11. ASSUME NEW c \in Calls, Settles(c) PROVE Appends
    <2>1. made' = made /\ c \in made /\ child[c].parent \in Subs
      BY <1>11 DEF Settles, Invariant, MadeOnce, TypeOK, Kid
    <2>2. CASE row[child[c].parent].status # "settled"
      <3>1. /\ Kept
            /\ \A i : Fresh(i) => (log')[i].kind \in {"spawn", "outcome"} /\ (log')[i].call = c
        BY <1>1, <1>11, <2>1, <2>2, WroteMissing, Zenon DEF Settles
      <3>2. \A i : Fresh(i) => (log')[i].kind \notin Says /\ (log')[i].kind \notin {"call", "synthesized"}
        BY <3>1 DEF Says
      <3>3. \A i : Fresh(i) => (log')[i].call \in made
        BY <2>1, <3>1
      <3> QED
        BY <1>1, <2>1, <3>1, <3>2, <3>3, Zenon DEF Appends
    <2> QED
      BY <1>2, <1>11, <2>1, <2>2, Zenon DEF Settles
  <1> QED
    BY <1>3, <1>4, <1>5, <1>6, <1>7, <1>8, <1>9, <1>10, <1>11, Zenon DEF Steps

----------------------------------------------------------------------------
(* What the log keeps. *)

LEMMA Indices ==
  ASSUME Invariant, Appends, NEW i \in 1 .. Len(log')
  PROVE  (i \in 1 .. Len(log) /\ (log')[i] = log[i]) \/ Fresh(i)
  BY DEF Invariant, TypeOK, Appends, Kept, Fresh

(* A call that is bare after a step was bare before, or is new. *)
LEMMA StillBare ==
  ASSUME Appends, NEW c, Bare(c)'
  PROVE  Called(c) => Bare(c)
  BY StaysLogged, Zenon DEF Appends, Bare

LEMMA StillLoose ==
  ASSUME Appends, NEW i \in 1 .. Len(log), Loose(i)'
  PROVE  Loose(i) /\ (log')[i] = log[i]
  <1>1. (log')[i] = log[i] /\ Kept
    BY DEF Appends, Kept
  <1>2. PICK c : c = log[i].call
    OBVIOUS
  <1>3. log[i].kind = "call" /\ Bare(c)' /\ ~ Spawned(c)'
    BY <1>1, <1>2 DEF Loose, Bare, Called, Answered, Spawned, Logged
  <1>4. Called(c)
    BY <1>2, <1>3 DEF Called, Logged
  <1>5. ~ Spawned(c)
    BY <1>1, <1>3, StaysLogged, Zenon
  <1>6. Bare(c)
    BY <1>3, <1>4, StillBare, Zenon
  <1> QED
    BY <1>1, <1>2, <1>3, <1>5, <1>6 DEF Loose

LEMMA MadeOnceInLog ==
  ASSUME Invariant, Appends
  PROVE  (\A i \in 1 .. Len(log) : log[i].kind \in {"call", "spawn"} =>
            /\ log[i].call \in made
            /\ log[i].kind = "call" =>
                 \A k \in 1 .. i - 1 : log[k].kind \in {"call", "spawn"}
                                         => log[k].call # log[i].call)'
  <1> SUFFICES ASSUME NEW i \in 1 .. Len(log'), (log')[i].kind \in {"call", "spawn"}
               PROVE  /\ (log')[i].call \in made'
                      /\ (log')[i].kind = "call" =>
                           \A k \in 1 .. i - 1 : (log')[k].kind \in {"call", "spawn"}
                                                   => (log')[k].call # (log')[i].call
    OBVIOUS
  <1>1. /\ made \subseteq made' /\ \A k \in 1 .. Len(log) : (log')[k] = log[k]
        /\ Len(log) \in Nat /\ Len(log') \in Nat /\ Len(log) <= Len(log')
    BY DEF Appends, Kept, Invariant, TypeOK
  <1>2. \A k \in 1 .. Len(log) : log[k].kind \in {"call", "spawn"} => log[k].call \in made
    BY DEF Invariant, MadeOnce
  <1>3. CASE i \in 1 .. Len(log)
    <2>1. (log')[i] = log[i] /\ log[i].call \in made /\ i - 1 \in Int /\ i <= Len(log)
      BY <1>1, <1>2, <1>3
    <2>2. \A k \in 1 .. i - 1 : k \in 1 .. Len(log)
      BY <1>1, <2>1
    <2>3. log[i].kind = "call" =>
            \A k \in 1 .. i - 1 : log[k].kind \in {"call", "spawn"} => log[k].call # log[i].call
      BY <1>3 DEF Invariant, MadeOnce
    <2> QED
      BY <1>1, <2>1, <2>2, <2>3
  <1>4. CASE Fresh(i)
    <2>1. CASE (log')[i].kind = "call"
      <3>1. i = Len(log) + 1 /\ (log')[i].call \in made' \ made
        BY <1>4, <2>1 DEF Appends
      <3>2. \A k \in 1 .. i - 1 : k \in 1 .. Len(log)
        BY <1>1, <3>1
      <3> QED
        BY <1>1, <1>2, <3>1, <3>2
    <2>2. CASE (log')[i].kind = "spawn"
      BY <1>1, <1>4, <2>2 DEF Appends
    <2> QED
      BY <2>1, <2>2
  <1> QED
    BY <1>3, <1>4, Indices

(* What is loose and new is a call of the run, which is streaming. *)
LEMMA FreshLoose ==
  ASSUME Appends, NEW i, Fresh(i), Loose(i)'
  PROVE  (log')[i].sub = run.sub /\ (run').sub = run.sub
  <1>1. (log')[i].kind = "call"
    BY DEF Loose
  <1> QED
    BY <1>1 DEF Appends, Says

LEMMA AloneKept ==
  ASSUME Invariant, Appends
  PROVE  Alone'
  <1> SUFFICES ASSUME NEW i \in 1 .. Len(log'), Loose(i)',
                      NEW k \in i .. Len(log'), (log')[k].kind \in Says
               PROVE  (log')[k].sub = (log')[i].sub
    BY DEF Alone
  <1>1. k \in 1 .. Len(log') /\ k \in Int /\ i \in Int /\ i <= k /\ Len(log) \in Nat
    BY DEF Appends, Kept, Invariant, TypeOK
  <1>2. Fresh(k) => /\ (log')[k].sub = run.sub /\ run.pc \in {"input", "stream", "correct"}
                    /\ (run').sub = run.sub
    BY DEF Appends
  <1>3. CASE Fresh(i)
    <2>1. Fresh(k)
      BY <1>1, <1>3 DEF Fresh
    <2> QED
      BY <1>2, <1>3, <2>1, FreshLoose
  <1>4. CASE i \in 1 .. Len(log)
    <2>1. Loose(i) /\ (log')[i] = log[i]
      BY <1>4, StillLoose
    <2>2. CASE Fresh(k)
      <3>1. run.pc \notin {"idle", "reconcile", "synthesize"}
        BY <1>2, <2>2
      <3>2. log[i].sub = run.sub
        BY <1>4, <2>1, <3>1 DEF Invariant, Ours
      <3> QED
        BY <1>2, <2>1, <2>2, <3>2
    <2>3. CASE k \in 1 .. Len(log) /\ (log')[k] = log[k]
      <3>1. k \in i .. Len(log)
        BY <1>1, <2>3
      <3>2. log[k].sub = log[i].sub
        BY <1>4, <2>1, <2>3, <3>1 DEF Invariant, Alone
      <3> QED
        BY <2>1, <2>3, <3>2
    <2> QED
      BY <1>1, <2>2, <2>3, Indices
  <1> QED
    BY <1>3, <1>4, Indices

LEMMA SynthesizedInOrderKept ==
  ASSUME Invariant, Appends
  PROVE  SynthesizedInOrder'
  <1> SUFFICES ASSUME NEW i \in 1 .. Len(log'), NEW j \in 1 .. Len(log'),
                      i < j, (log')[i].kind = "call", (log')[j].kind = "synthesized",
                      (log')[i].call = (log')[j].call,
                      \A k \in i .. j : ~ ((log')[k].kind = "spawn" /\ (log')[k].call = (log')[i].call),
                      NEW k \in i .. j, (log')[k].kind \in Says
               PROVE  (log')[k].sub = (log')[i].sub
    BY DEF SynthesizedInOrder, Says
  <1>1. /\ k \in 1 .. Len(log') /\ k \in Int /\ i \in Int /\ j \in Int /\ Len(log) \in Nat
        /\ i <= k /\ k <= j /\ j <= Len(log')
        /\ \A m \in 1 .. Len(log) : (log')[m] = log[m]
    BY DEF Appends, Kept, Invariant, TypeOK
  <1>2. CASE j \in 1 .. Len(log)
    <2>1. i \in 1 .. Len(log) /\ \A m \in i .. j : m \in 1 .. Len(log)
      BY <1>1, <1>2
    <2>2. /\ (log')[i] = log[i] /\ (log')[j] = log[j] /\ (log')[k] = log[k]
          /\ \A m \in i .. j : (log')[m] = log[m]
      BY <1>1, <1>2, <2>1
    <2>3. \A m \in i .. j : ~ (log[m].kind = "spawn" /\ log[m].call = log[i].call)
      BY <2>2
    <2>4. SynthesizedInOrder
      BY DEF Invariant
    <2>5. \A m \in i .. j : log[m].kind \in Says => log[m].sub = log[i].sub
      BY <1>2, <2>1, <2>2, <2>3, <2>4 DEF SynthesizedInOrder, Says
    <2> QED
      BY <2>2, <2>5
  <1>3. CASE Fresh(j)
    <2> DEFINE c == (log')[i].call
    <2>1. /\ run.pc = "synthesize" /\ c \in run.pend
          /\ \A m : Fresh(m) => (log')[m].kind = "synthesized"
      BY <1>3 DEF Appends
    <2>2. i \in 1 .. Len(log) /\ (log')[i] = log[i]
      BY <2>1, Indices
    <2>3. k \in 1 .. Len(log) /\ (log')[k] = log[k]
      BY <1>1, <2>1, Indices DEF Says
    <2>4. ~ Spawned(c)
      <3>1. SUFFICES ASSUME NEW m \in 1 .. Len(log), log[m].kind = "spawn", log[m].call = c
                     PROVE  FALSE
        BY DEF Spawned, Logged
      <3>2. CASE m \in 1 .. i - 1
        BY <2>2, <3>1, <3>2 DEF Invariant, MadeOnce
      <3>3. CASE m \in i .. j
        BY <1>1, <3>1, <3>3
      <3>4. m \in 1 .. i - 1 \/ m \in i .. j
        BY <1>1, <1>3 DEF Fresh
      <3> QED
        BY <3>2, <3>3, <3>4
    <2>5. Bare(c)
      BY <2>1, <2>4 DEF Invariant, Found, TypeOK, Run
    <2>6. Loose(i)
      BY <2>2, <2>4, <2>5 DEF Loose
    <2>7. k \in i .. Len(log) /\ log[k].kind \in Says
      BY <1>1, <2>3
    <2>8. log[k].sub = log[i].sub
      BY <2>2, <2>6, <2>7 DEF Invariant, Alone
    <2> QED
      BY <2>2, <2>3, <2>8
  <1> QED
    BY <1>2, <1>3, Indices

----------------------------------------------------------------------------
(* What the steps do to the rows, the children and the run. *)

LEMMA NewRuns ==
  /\ Idle \in Run /\ Idle.pc = "idle" /\ Idle.open = {} /\ Idle.spawned = FALSE
  /\ \A s \in Subs :
       /\ NewRun(s, "reconcile") \in Run /\ NewRun(s, "reconcile").pc = "reconcile"
       /\ NewRun(s, "reconcile").sub = s /\ NewRun(s, "reconcile").open = {}
       /\ NewRun(s, "reconcile").spawned = FALSE
  <1>1. 1 \in Subs /\ 0 \in 0 .. OverflowRetries /\ 0 \in 0 .. ResultRetries
    BY DEF DriveAssumption, Subs
  <1>2. Idle \in Run /\ Idle.pc = "idle" /\ Idle.open = {} /\ Idle.spawned = FALSE
    BY <1>1 DEF Idle, NewRun, Run, Pcs
  <1>3. ASSUME NEW s \in Subs
        PROVE  /\ NewRun(s, "reconcile") \in Run /\ NewRun(s, "reconcile").pc = "reconcile"
               /\ NewRun(s, "reconcile").sub = s /\ NewRun(s, "reconcile").open = {}
               /\ NewRun(s, "reconcile").spawned = FALSE
    BY <1>1, <1>3 DEF NewRun, Run, Pcs
  <1> QED
    BY <1>2, <1>3

(* The run of a step, but for one that begins or ends. *)
LEMMA RunKept ==
  ASSUME Invariant, Steps \/ UNCHANGED vars
  PROVE  run' \in Run
  <1>1. run \in Run
    BY DEF Invariant, TypeOK
  <1>2. CASE Leaves
    BY <1>2, NewRuns DEF Leaves
  <1>3. ASSUME NEW s \in Subs, Begins(s) PROVE run' \in Run
    <2>1. run' = Idle \/ run' = NewRun(s, "reconcile")
      BY <1>3 DEF Begins
    <2> QED
      BY <2>1, NewRuns
  <1>4. CASE Goes \/ Reads \/ Repairs \/ Inputs \/ Corrects
    BY <1>4 DEF Goes, Reads, Repairs, Inputs, Corrects, Advances
  <1>5. ASSUME NEW c \in Calls, Starts(c) \/ Ends(c) \/ Spawns(c) \/ Relinks(c) \/ Settles(c)
        PROVE  run' \in Run
    BY <1>1, <1>5 DEF Starts, Ends, Spawns, Streams, Relinks, Settles
  <1>6. ASSUME NEW s \in Subs, Wakes(s) PROVE run' \in Run
    BY <1>1, <1>6 DEF Wakes
  <1>7. CASE UNCHANGED vars
    BY <1>1, <1>7 DEF vars
  <1> QED
    BY <1>2, <1>3, <1>4, <1>5, <1>6, <1>7 DEF Steps

RowsMove ==
  /\ row' \in [Subs -> Row] /\ Running'
  /\ \A s \in Subs : row[s].status = "settled" => (row')[s].status = "settled"

LEMMA RowsKept ==
  ASSUME Invariant, Steps \/ UNCHANGED vars
  PROVE  RowsMove
  <1>1. /\ row \in [Subs -> Row] /\ run \in Run /\ child \in [Calls -> Kid]
        /\ run.pc # "idle" => row[run.sub].status = "running"
        /\ run.pc = "correct" => run.retries < ResultRetries
        /\ \A s \in Subs : row[s].status # "settled" => row[s].count <= MaxAttempts
    BY DEF Invariant, TypeOK, Running
  <1>2. ASSUME row' = row,
               (run').pc # "idle" => run.pc # "idle" /\ (run').sub = run.sub,
               (run').pc = "correct" => (run').retries < ResultRetries
        PROVE  RowsMove
    BY <1>1, <1>2 DEF RowsMove, Running
  <1>3. ASSUME NEW s \in Subs, row[s].status = "waiting", run' = run,
               row' = [row EXCEPT ![s].status = "queued"]
        PROVE  RowsMove
    <2>1. /\ row' \in [Subs -> Row] /\ (row')[s].count = row[s].count /\ (row')[s].status = "queued"
          /\ \A t \in Subs \ {s} : (row')[t] = row[t]
      BY <1>1, <1>3 DEF Row, Statuses
    <2>2. run.pc # "idle" => run.sub # s /\ run.sub \in Subs
      BY <1>1, <1>3 DEF Run
    <2> QED
      BY <1>1, <1>3, <2>1, <2>2 DEF RowsMove, Running
  <1>4. CASE Leaves
    <2>1. PICK status \in {"queued", "waiting", "settled"}, resume \in BOOLEAN :
            row' = [row EXCEPT ![run.sub].status = status, ![run.sub].resume = resume]
      BY <1>4 DEF Leaves
    <2>2. run.sub \in Subs /\ row[run.sub].status = "running" /\ (run').pc = "idle"
      BY <1>1, <1>4, NewRuns DEF Leaves, Run
    <2>3. /\ row' \in [Subs -> Row] /\ (row')[run.sub].count = row[run.sub].count
          /\ \A t \in Subs \ {run.sub} : (row')[t] = row[t]
      BY <1>1, <2>1, <2>2 DEF Row, Statuses
    <2> QED
      BY <1>1, <2>2, <2>3 DEF RowsMove, Running
  <1>5. ASSUME NEW s \in Subs, Begins(s) PROVE RowsMove
    <2>1. PICK status \in {"settled", "running"}, n \in 0 .. MaxAttempts + 1 :
            /\ row' = [row EXCEPT ![s] = [status |-> status, resume |-> FALSE, count |-> n]]
            /\ status = "settled" => run' = Idle
            /\ status = "running" => n <= MaxAttempts /\ run' = NewRun(s, "reconcile")
      BY <1>5 DEF Begins
    <2>2. /\ row' \in [Subs -> Row] /\ (row')[s].count = n /\ (row')[s].status = status
          /\ \A t \in Subs \ {s} : (row')[t] = row[t]
      BY <1>1, <2>1 DEF Row, Statuses
    <2>3. row[s].status = "queued"
      BY <1>5 DEF Begins
    <2>4. /\ (run').pc # "idle" => status = "running" /\ (run').sub = s
          /\ (run').pc # "correct"
      BY <2>1, NewRuns
    <2> QED
      BY <1>1, <2>1, <2>2, <2>3, <2>4 DEF RowsMove, Running
  <1>6. CASE Goes
    BY <1>2, <1>6 DEF Goes
  <1>7. CASE Reads \/ Repairs \/ Inputs \/ Corrects
    BY <1>2, <1>7 DEF Reads, Repairs, Inputs, Corrects, Advances
  <1>8. ASSUME NEW c \in Calls, Starts(c) \/ Ends(c) \/ Spawns(c) PROVE RowsMove
    BY <1>2, <1>8 DEF Starts, Ends, Spawns, Streams
  <1>9. CASE row' = row /\ run' = run
    BY <1>1, <1>2, <1>9
  <1>10. ASSUME NEW c \in Calls, Relinks(c) PROVE RowsMove
    BY <1>9, <1>10 DEF Relinks
  <1>11. ASSUME NEW c \in Calls, Settles(c) PROVE RowsMove
    <2>1. child[c].parent \in Subs
      BY <1>1 DEF Kid
    <2> QED
      BY <1>3, <1>9, <1>11, <2>1 DEF Settles
  <1>12. ASSUME NEW s \in Subs, Wakes(s) PROVE RowsMove
    BY <1>3, <1>12 DEF Wakes
  <1>13. CASE UNCHANGED vars
    BY <1>9, <1>13 DEF vars
  <1> QED
    BY <1>4, <1>5, <1>6, <1>7, <1>8, <1>10, <1>11, <1>12, <1>13 DEF Steps

(* A child stays its parent's; only a task call that ends admits one. *)
ChildrenMove ==
  /\ child' \in [Calls -> Kid]
  /\ \A c \in Calls : (child')[c].status # "none" => c \in made
  /\ \/ \E c \in Calls : (child')[c].status = "live" /\ (child')[c].parent = run.sub
                         /\ (run').sub = run.sub
     \/ \A c \in Calls : child[c].status # "none" =>
          (child')[c].status # "none" /\ (child')[c].parent = child[c].parent

LEMMA ChildrenKept ==
  ASSUME Invariant, Steps \/ UNCHANGED vars
  PROVE  ChildrenMove
  <1>1. /\ child \in [Calls -> Kid] /\ run.sub \in Subs
        /\ \A c \in Calls : child[c].status # "none" => c \in made
    BY DEF Invariant, TypeOK, MadeOnce, Run
  <1>2. CASE child' = child
    BY <1>1, <1>2 DEF ChildrenMove
  <1>3. ASSUME NEW c \in Calls, Spawns(c) PROVE ChildrenMove
    <2>1. /\ child' = [child EXCEPT ![c] = [status |-> "live", parent |-> run.sub]]
          /\ c \in made /\ (run').sub = run.sub
      BY <1>3 DEF Spawns, Streams
    <2>2. /\ child' \in [Calls -> Kid] /\ \A d \in Calls \ {c} : (child')[d] = child[d]
          /\ (child')[c].status = "live" /\ (child')[c].parent = run.sub
      BY <1>1, <2>1 DEF Kid
    <2> QED
      BY <1>1, <2>1, <2>2 DEF ChildrenMove
  <1>4. ASSUME NEW c \in Calls, Settles(c) PROVE ChildrenMove
    <2>1. child' = [child EXCEPT ![c].status = "settled"] /\ child[c].status = "live"
      BY <1>4 DEF Settles
    <2>2. /\ child' \in [Calls -> Kid] /\ \A d \in Calls \ {c} : (child')[d] = child[d]
          /\ (child')[c].status = "settled" /\ (child')[c].parent = child[c].parent
      BY <1>1, <2>1 DEF Kid
    <2> QED
      BY <1>1, <2>1, <2>2 DEF ChildrenMove
  <1>5. CASE Leaves \/ Goes \/ Reads \/ Repairs \/ Inputs \/ Corrects
    BY <1>2, <1>5 DEF Leaves, Goes, Reads, Repairs, Inputs, Corrects, Advances
  <1>6. ASSUME NEW c \in Calls, Starts(c) \/ Ends(c) \/ Relinks(c) PROVE ChildrenMove
    BY <1>2, <1>6 DEF Starts, Ends, Relinks
  <1>7. ASSUME NEW s \in Subs, Begins(s) \/ Wakes(s) PROVE ChildrenMove
    BY <1>2, <1>7 DEF Begins, Wakes
  <1>8. CASE UNCHANGED vars
    BY <1>2, <1>8 DEF vars
  <1> QED
    BY <1>3, <1>4, <1>5, <1>6, <1>7, <1>8 DEF Steps

LEMMA OpenMade ==
  ASSUME Invariant, Steps \/ UNCHANGED vars
  PROVE  \A c \in Calls, tool \in Tools : <<c, tool>> \in (run').open => c \in made'
  <1>1. /\ \A c \in Calls, tool \in Tools : <<c, tool>> \in run.open => c \in made
        /\ made \subseteq made'
    BY StepsAppend DEF Invariant, MadeOnce, Appends
  <1>2. CASE (run').open \subseteq run.open
    BY <1>1, <1>2
  <1>3. CASE Leaves
    <2>1. (run').open = {}
      BY <1>3, NewRuns DEF Leaves
    <2> QED
      BY <1>2, <2>1
  <1>4. ASSUME NEW s \in Subs, Begins(s) PROVE (run').open = {}
    BY <1>4, NewRuns DEF Begins
  <1>5. CASE Goes \/ Reads \/ Repairs \/ Inputs \/ Corrects
    BY <1>2, <1>5 DEF Goes, Reads, Repairs, Inputs, Corrects, Advances
  <1>6. CASE \E c \in Calls : Starts(c)
    <2>1. PICK c \in Calls, tool \in Tools :
            made' = made \cup {c} /\ (run').open = run.open \cup {<<c, tool>>}
      BY <1>6 DEF Starts
    <2> QED
      BY <1>1, <2>1
  <1>7. ASSUME NEW c \in Calls, Ends(c) \/ Spawns(c) \/ Relinks(c) \/ Settles(c)
        PROVE  (run').open \subseteq run.open
    BY <1>7 DEF Ends, Spawns, Relinks, Settles
  <1>8. ASSUME NEW s \in Subs, Wakes(s) PROVE (run').open \subseteq run.open
    BY <1>8 DEF Wakes
  <1>9. CASE UNCHANGED vars
    BY <1>2, <1>9 DEF vars
  <1> QED
    BY <1>2, <1>3, <1>4, <1>5, <1>6, <1>7, <1>8, <1>9 DEF Steps

----------------------------------------------------------------------------
(* The repair: what it finds, what it leaves, and whose calls may be bare once
   the run has its input. *)

(* Where the run is after a step that does not keep it. *)
LEMMA RunElsewhere ==
  ASSUME Invariant, Steps \/ UNCHANGED vars
  PROVE  \/ Reads \/ Repairs \/ Inputs
         \/ run' = run /\ ((log' = log /\ child' = child) \/ run.pc = "park" \/ \E c \in Calls : Settles(c))
         \/ (run').pc \in {"idle", "reconcile"}
         \/ /\ (run').pc \notin {"idle", "reconcile", "synthesize", "input"}
            /\ (run').pc = "prompt" => (run').stage # "first"
            /\ run.pc \notin {"idle", "reconcile", "synthesize"} /\ (run').sub = run.sub
  <1>1. CASE Leaves
    BY <1>1, NewRuns DEF Leaves
  <1>2. CASE Goes
    BY <1>2 DEF Goes
  <1>3. CASE Corrects
    BY <1>3 DEF Corrects, Advances
  <1>4. ASSUME NEW c \in Calls, Starts(c) \/ Ends(c) \/ Spawns(c)
        PROVE  /\ (run').pc = "stream" /\ run.pc = "stream" /\ (run').sub = run.sub
    BY <1>4 DEF Starts, Ends, Spawns, Streams
  <1>5. ASSUME NEW c \in Calls, Relinks(c) PROVE run' = run /\ run.pc = "park"
    BY <1>5 DEF Relinks
  <1>6. ASSUME NEW c \in Calls, Settles(c) PROVE run' = run
    BY <1>6 DEF Settles
  <1>7. ASSUME NEW s \in Subs, Begins(s) PROVE (run').pc \in {"idle", "reconcile"}
    BY <1>7, NewRuns DEF Begins
  <1>8. ASSUME NEW s \in Subs, Wakes(s) PROVE run' = run /\ log' = log /\ child' = child
    BY <1>8 DEF Wakes
  <1>9. CASE UNCHANGED vars
    BY <1>9 DEF vars
  <1> QED
    BY <1>1, <1>2, <1>3, <1>4, <1>5, <1>6, <1>7, <1>8, <1>9 DEF Steps

LEMMA SameLog ==
  ASSUME log' = log, NEW c
  PROVE  /\ Called(c)' = Called(c) /\ Spawned(c)' = Spawned(c) /\ Answered(c)' = Answered(c)
         /\ Bare(c)' = Bare(c)
  BY DEF Called, Spawned, Answered, Bare, Logged

(* A child that settles leaves its call answered, and otherwise says nothing of
   the calls, or its parent is settled. *)
LEMMA SettledAnswered ==
  ASSUME Invariant, NEW c \in Calls, Settles(c)
  PROVE  /\ run' = run
         /\ \A d \in Calls : Bare(d)' => Bare(d)
         /\ \A d \in Calls : Bare(d) => Bare(d)' \/ (d = c /\ Spawned(c)')
         /\ Bare(c)' => row' = row /\ row[child[c].parent].status = "settled"
         /\ \A d \in Calls \ {c} : (child')[d] = child[d]
         /\ (child')[c].parent = child[c].parent
  <1>1. /\ log \in Seq(Rec) /\ child \in [Calls -> Kid] /\ child[c].parent \in Subs
    BY DEF Invariant, TypeOK, Kid
  <1>2. /\ run' = run /\ \A d \in Calls \ {c} : (child')[d] = child[d]
        /\ (child')[c].parent = child[c].parent
    BY <1>1 DEF Settles, Kid
  <1>3. CASE row[child[c].parent].status = "settled"
    <2>1. row' = row /\ log' = log
      BY <1>3 DEF Settles
    <2>2. ASSUME NEW d \in Calls, Bare(d)' PROVE Bare(d)
      BY <2>1, <2>2, SameLog
    <2>3. ASSUME NEW d \in Calls, Bare(d) PROVE Bare(d)'
      BY <2>1, <2>3, SameLog
    <2> QED
      BY <1>2, <1>3, <2>1, <2>2, <2>3
  <1>4. CASE row[child[c].parent].status # "settled"
    <2>1. /\ Kept /\ Spawned(c)' /\ Answered(c)'
          /\ \A i : Fresh(i) => (log')[i].kind \in {"spawn", "outcome"} /\ (log')[i].call = c
      BY <1>1, <1>4, WroteMissing, Zenon DEF Settles
    <2>2. ASSUME NEW d \in Calls, Called(d)' PROVE Called(d)
      <3>1. PICK i \in 1 .. Len(log') : (log')[i].call = d /\ (log')[i].kind = "call"
        BY <2>2 DEF Called, Logged
      <3>2. ~ Fresh(i)
        BY <2>1, <3>1
      <3>3. i \in 1 .. Len(log) /\ (log')[i] = log[i]
        BY <1>1, <2>1, <3>2 DEF Fresh, Kept
      <3> QED
        BY <3>1, <3>3 DEF Called, Logged
    <2>3. ASSUME NEW d \in Calls, Answered(d)', d # c PROVE Answered(d)
      <3>1. PICK i \in 1 .. Len(log') : (log')[i].call = d /\ (log')[i].kind \in {"outcome", "synthesized"}
        BY <2>3 DEF Answered, Logged
      <3>2. ~ Fresh(i)
        BY <2>1, <2>3, <3>1
      <3>3. i \in 1 .. Len(log) /\ (log')[i] = log[i]
        BY <1>1, <2>1, <3>2 DEF Fresh, Kept
      <3> QED
        BY <3>1, <3>3 DEF Answered, Logged
    <2>4. \A d \in Calls : Bare(d)' => Bare(d)
      BY <2>1, <2>2, StaysLogged, Zenon DEF Bare
    <2>5. \A d \in Calls : Bare(d) => Bare(d)' \/ d = c
      BY <2>1, <2>3, StaysLogged, Zenon DEF Bare
    <2>6. ~ Bare(c)'
      BY <2>1, Zenon DEF Bare
    <2> QED
      BY <1>2, <2>1, <2>4, <2>5, <2>6
  <1> QED
    BY <1>3, <1>4

LEMMA FoundKept ==
  ASSUME Invariant, Steps \/ UNCHANGED vars
  PROVE  Found'
  <1> SUFFICES ASSUME (run').pc = "synthesize", NEW d \in Calls
               PROVE  /\ Bare(d)' => d \in (run').pend
                      /\ d \in (run').pend => Called(d)' /\ (Bare(d)' \/ Spawned(d)')
    BY Zenon DEF Found
  <1>1. \/ Reads
        \/ run' = run /\ (log' = log \/ \E c \in Calls : Settles(c))
    BY RunElsewhere DEF Repairs, Inputs, Advances
  <1>2. CASE Reads
    <2>1. (run').pend = {c \in Calls : Bare(c)} /\ log' = log
      BY <1>2 DEF Reads
    <2>2. d \in (run').pend <=> Bare(d)
      BY <2>1
    <2> QED
      BY <2>1, <2>2, SameLog DEF Bare
  <1>3. CASE run' = run /\ log' = log
    <2>1. /\ Bare(d) => d \in run.pend
          /\ d \in run.pend => Called(d) /\ (Bare(d) \/ Spawned(d))
      BY <1>3 DEF Invariant, Found
    <2> QED
      BY <1>3, <2>1, SameLog
  <1>4. ASSUME NEW c \in Calls, Settles(c), run' = run
        PROVE  /\ Bare(d)' => d \in (run').pend
               /\ d \in (run').pend => Called(d)' /\ (Bare(d)' \/ Spawned(d)')
    <2>1. /\ Bare(d) => d \in run.pend
          /\ d \in run.pend => Called(d) /\ (Bare(d) \/ Spawned(d))
      BY <1>4 DEF Invariant, Found
    <2>2. Kept
      BY <1>4, StepsAppend, Zenon DEF Steps, Appends
    <2>3. (Bare(d)' => Bare(d)) /\ (Bare(d) => Bare(d)' \/ Spawned(d)')
      BY <1>4, SettledAnswered
    <2> QED
      BY <1>4, <2>1, <2>2, <2>3, StaysLogged
  <1> QED
    BY <1>1, <1>2, <1>3, <1>4

LEMMA RepairedKept ==
  ASSUME Invariant, Steps \/ UNCHANGED vars
  PROVE  Repaired'
  <1> SUFFICES ASSUME (run').pc \in {"input", "prompt"}, (run').stage = "first",
                      NEW d \in Calls, Bare(d)'
               PROVE  Exempted(d)'
    BY Zenon DEF Repaired
  <1>1. \/ Repairs \/ Inputs
        \/ run' = run /\ ((log' = log /\ child' = child) \/ \E c \in Calls : Settles(c))
    BY RunElsewhere DEF Reads, Advances
  <1>2. /\ Kept /\ \A s \in Subs : row[s].status = "settled" => (row')[s].status = "settled"
        /\ child \in [Calls -> Kid] /\ child[d].parent \in Subs
    BY StepsAppend, RowsKept DEF Appends, RowsMove, Invariant, TypeOK, Kid
  <1>3. ASSUME Exempted(d), child' = child
        PROVE  Exempted(d)'
    <2>1. Spawned(d)'
      BY <1>2, <1>3, StaysLogged, Zenon DEF Exempted
    <2> QED
      BY <1>2, <1>3, <2>1 DEF Exempted
  <1>4. CASE Repairs
    <2>1. ~ \E i : Fresh(i) /\ (log')[i].kind # "synthesized"
      <3>1. run.sub \in Subs /\ log \in Seq(Rec) /\ {c \in run.pend : ~ Exempt(c)} \in SUBSET Calls
        BY DEF Invariant, TypeOK, Run
      <3> QED
        BY <1>4, <3>1, WroteSynthesized DEF Repairs
    <2>2. Called(d)
      <3>1. PICK i \in 1 .. Len(log') : (log')[i].call = d /\ (log')[i].kind = "call"
        BY DEF Bare, Called, Logged
      <3>2. i \in 1 .. Len(log) /\ (log')[i] = log[i]
        BY <2>1, <3>1, Indices, StepsAppend
      <3> QED
        BY <3>1, <3>2 DEF Called, Logged
    <2>3. Bare(d)
      BY <2>2, StillBare, StepsAppend, Zenon
    <2>4. run.pc = "synthesize" /\ child' = child
      BY <1>4 DEF Repairs, Advances
    <2>5. d \in run.pend
      BY <2>3, <2>4 DEF Invariant, Found
    <2>6. Exempt(d)
      <3> DEFINE C == {c \in run.pend : ~ Exempt(c)}
      <3>1. C \in SUBSET Calls /\ run.sub \in Subs /\ log \in Seq(Rec)
        BY DEF Invariant, TypeOK, Run
      <3>2. AppendSynthesized(C)
        BY <1>4 DEF Repairs
      <3>3. d \notin C => Exempt(d)
        BY <2>5
      <3> HIDE DEF C
      <3>4. d \notin C
        BY <2>2, <3>1, <3>2, WroteSynthesized, Zenon DEF Bare
      <3> QED
        BY <3>3, <3>4
    <2>7. Exempted(d)
      BY <2>6 DEF Exempt, Exempted
    <2> QED
      BY <1>3, <2>4, <2>7
  <1>5. CASE Inputs
    <2>1. run.pc = "input" /\ child' = child /\ run.stage = "first"
      BY <1>5 DEF Inputs, Advances
    <2>2. Called(d)
      <3>1. PICK i \in 1 .. Len(log') : (log')[i].call = d /\ (log')[i].kind = "call"
        BY DEF Bare, Called, Logged
      <3>2. ~ Fresh(i)
        BY <1>5, <3>1, StepsAppend DEF Appends, Inputs, Advances
      <3>3. i \in 1 .. Len(log) /\ (log')[i] = log[i]
        BY <3>2, Indices, StepsAppend
      <3> QED
        BY <3>1, <3>3 DEF Called, Logged
    <2>3. Bare(d)
      BY <2>2, StillBare, StepsAppend, Zenon
    <2> QED
      BY <1>3, <2>1, <2>3 DEF Invariant, Repaired
  <1>6. CASE run' = run /\ log' = log /\ child' = child
    <2>1. Bare(d)
      BY <1>6, SameLog
    <2> QED
      BY <1>3, <1>6, <2>1 DEF Invariant, Repaired
  <1>7. ASSUME NEW c \in Calls, Settles(c), run' = run
        PROVE  Exempted(d)'
    <2>1. /\ Bare(d) /\ (child')[d].parent = child[d].parent
          /\ d # c => (child')[d] = child[d]
          /\ d = c => (row')[child[d].parent].status = "settled"
      BY <1>7, SettledAnswered
    <2>2. Exempted(d)
      BY <1>7, <2>1 DEF Invariant, Repaired
    <2>3. Spawned(d)'
      BY <1>2, <2>2, StaysLogged, Zenon DEF Exempted
    <2> QED
      BY <1>2, <2>1, <2>2, <2>3 DEF Exempted
  <1> QED
    BY <1>1, <1>4, <1>5, <1>6, <1>7

LEMMA OursKept ==
  ASSUME Invariant, Steps \/ UNCHANGED vars
  PROVE  Ours'
  <1> SUFFICES ASSUME (run').pc \notin {"idle", "reconcile", "synthesize"},
                      NEW i \in 1 .. Len(log'), Loose(i)'
               PROVE  (log')[i].sub = (run').sub
    BY DEF Ours
  <1>1. Appends
    BY StepsAppend
  <1>2. CASE Fresh(i)
    BY <1>1, <1>2, FreshLoose
  <1>3. CASE i \in 1 .. Len(log) /\ (log')[i] = log[i]
    <2>1. Loose(i)
      BY <1>1, <1>3, StillLoose
    <2>2. CASE run.pc \notin {"idle", "reconcile", "synthesize"} /\ (run').sub = run.sub
      BY <1>3, <2>1, <2>2 DEF Invariant, Ours
    <2>3. CASE Repairs
      <3> DEFINE C == {c \in run.pend : ~ Exempt(c)}
      <3>1. C \in SUBSET Calls /\ run.sub \in Subs /\ log \in Seq(Rec) /\ run.pc = "synthesize"
        BY <2>3 DEF Repairs, Advances, Invariant, TypeOK, Run
      <3>2. AppendSynthesized(C)
        BY <2>3 DEF Repairs
      <3>3. PICK c : c = log[i].call
        OBVIOUS
      <3>4. Bare(c) /\ ~ Spawned(c) /\ Bare(c)'
        BY <1>3, <2>1, <3>3 DEF Loose, Bare, Called, Answered, Logged
      <3>5. c \in Calls
        <4>1. Loose(i) /\ log[i] \in Rec /\ log[i].call = c
          BY <1>3, <2>1, <3>1, <3>3
        <4>2. c \in made
          BY <1>3, <4>1 DEF Invariant, MadeOnce, Loose
        <4> QED
          BY <4>2 DEF Invariant, TypeOK
      <3>6. c \in C
        BY <3>1, <3>4, <3>5 DEF Invariant, Found, Exempt
      <3> HIDE DEF C
      <3> QED
        BY <3>1, <3>2, <3>4, <3>6, WroteSynthesized, Zenon DEF Bare
    <2>4. CASE Inputs
      BY <2>2, <2>4 DEF Inputs, Advances
    <2>5. CASE run' = run
      BY <2>2, <2>5
    <2>6. ~ Reads /\ (run').pc \notin {"idle", "reconcile"}
      BY DEF Reads, Advances
    <2> QED
      BY <2>2, <2>3, <2>4, <2>5, <2>6, RunElsewhere
  <1> QED
    BY <1>1, <1>2, <1>3, Indices

LEMMA GatedKept ==
  ASSUME Invariant, Steps \/ UNCHANGED vars
  PROVE  Gated'
  <1>1. /\ run.spawned => Children(run.sub) # {}
        /\ run.pc \in {"validate", "correct"} /\ run.suspended => run.stage = "corrective"
        /\ run.sub \in Subs /\ ChildrenMove
    BY ChildrenKept DEF Invariant, Gated, TypeOK, Run
  <1>2. ASSUME (run').sub = run.sub, run.spawned
        PROVE  Children(run.sub)' # {}
    <2>1. PICK c \in Calls : child[c].status # "none" /\ child[c].parent = run.sub
      BY <1>1, <1>2 DEF Children
    <2>2. \E d \in Calls : (child')[d].status # "none" /\ (child')[d].parent = run.sub
      BY <1>1, <2>1 DEF ChildrenMove
    <2> QED
      BY <1>2, <2>2 DEF Children
  <1>3. ASSUME (run').spawned => run.spawned /\ (run').sub = run.sub,
               (run').pc \in {"validate", "correct"} /\ (run').suspended => (run').stage = "corrective"
        PROVE  Gated'
    BY <1>2, <1>3 DEF Gated
  <1>4. CASE Leaves
    BY <1>3, <1>4, NewRuns DEF Leaves
  <1>5. ASSUME NEW s \in Subs, Begins(s) PROVE Gated'
    BY <1>3, <1>5, NewRuns DEF Begins
  <1>6. CASE Goes
    BY <1>3, <1>6 DEF Goes
  <1>7. CASE Reads \/ Repairs \/ Inputs \/ Corrects
    BY <1>3, <1>7 DEF Reads, Repairs, Inputs, Corrects, Advances
  <1>8. ASSUME NEW c \in Calls, Starts(c) \/ Ends(c) PROVE Gated'
    BY <1>3, <1>8 DEF Starts, Ends, Streams
  <1>9. ASSUME NEW c \in Calls, Spawns(c) PROVE Gated'
    <2>1. /\ child' = [child EXCEPT ![c] = [status |-> "live", parent |-> run.sub]]
          /\ (run').pc = "stream" /\ (run').sub = run.sub
      BY <1>9 DEF Spawns, Streams
    <2>2. (child')[c].status = "live" /\ (child')[c].parent = run.sub
      BY <2>1 DEF Invariant, TypeOK, Kid
    <2>3. Children(run.sub)' # {}
      BY <2>1, <2>2 DEF Children
    <2> QED
      BY <2>1, <2>3 DEF Gated
  <1>10. CASE run' = run
    BY <1>1, <1>3, <1>10
  <1>11. ASSUME NEW c \in Calls, Relinks(c) \/ Settles(c) PROVE Gated'
    BY <1>10, <1>11 DEF Relinks, Settles
  <1>12. ASSUME NEW s \in Subs, Wakes(s) PROVE Gated'
    BY <1>10, <1>12 DEF Wakes
  <1>13. CASE UNCHANGED vars
    BY <1>10, <1>13 DEF vars
  <1> QED
    BY <1>4, <1>5, <1>6, <1>7, <1>8, <1>9, <1>11, <1>12, <1>13 DEF Steps

----------------------------------------------------------------------------
(* The theorems. *)

LEMMA InitInvariant ==
  Init => Invariant
  <1> SUFFICES ASSUME Init PROVE Invariant
    OBVIOUS
  <1>1. /\ log = <<>> /\ made = {} /\ run = Idle /\ 1 \in Subs
        /\ row = [s \in Subs |-> [status |-> "queued", resume |-> FALSE, count |-> 0]]
        /\ child = [c \in Calls |-> [status |-> "none", parent |-> 1]]
    BY DEF Init, Subs
  <1>2. Idle \in Run /\ Idle.pc = "idle" /\ Idle.open = {} /\ Idle.spawned = FALSE
    BY NewRuns
  <1>3. TypeOK
    BY <1>1, <1>2 DEF TypeOK, Row, Kid, Statuses
  <1>4. Running
    BY <1>1, <1>2 DEF Running
  <1>5. MadeOnce
    BY <1>1, <1>2 DEF MadeOnce
  <1>6. Found /\ Repaired /\ Ours /\ Gated
    BY <1>1, <1>2 DEF Found, Repaired, Ours, Gated
  <1>7. Alone /\ SynthesizedInOrder
    BY <1>1 DEF Alone, SynthesizedInOrder
  <1> QED
    BY <1>3, <1>4, <1>5, <1>6, <1>7 DEF Invariant

LEMMA NextInvariant ==
  Invariant /\ [Next]_vars => Invariant'
  <1> SUFFICES ASSUME Invariant, [Next]_vars PROVE Invariant'
    OBVIOUS
  <1>1. Steps \/ UNCHANGED vars
    BY NextSteps
  <1>2. Appends
    BY <1>1, StepsAppend
  <1>3. RowsMove /\ ChildrenMove /\ run' \in Run
    BY <1>1, RowsKept, ChildrenKept, RunKept
  <1>4. TypeOK'
    BY <1>2, <1>3 DEF TypeOK, Appends, Kept, RowsMove, ChildrenMove
  <1>5. MadeOnce'
    <2>1. \A c \in Calls : (child')[c].status # "none" => c \in made'
      BY <1>2, <1>3 DEF ChildrenMove, Appends
    <2> QED
      BY <1>1, <1>2, <2>1, OpenMade, MadeOnceInLog, Zenon DEF MadeOnce
  <1> QED
    BY <1>1, <1>2, <1>3, <1>4, <1>5, FoundKept, RepairedKept, OursKept, GatedKept, AloneKept,
       SynthesizedInOrderKept, Zenon DEF Invariant, RowsMove

(* Every state of every drive satisfies the invariant. *)
THEOREM InvariantHolds == Spec => []Invariant
  BY InitInvariant, NextInvariant, PTL DEF Spec

(* Types hold, and the budgets of attempts, compactions and corrective turns
   are never exceeded. *)
THEOREM TypeCorrect == Spec => []TypeOK
  <1>1. Invariant => TypeOK
    BY DEF Invariant
  <1> QED
    BY <1>1, InvariantHolds, PTL

(* No first prompt replays a bare call, but that of a child at work when the
   log was repaired: reconcileDanglingToolCalls, for any history. *)
THEOREM PromptsAnswered == Spec => []FirstPromptAnswered
  <1>1. Invariant => FirstPromptAnswered
    BY Zenon DEF Invariant, Repaired, FirstPromptAnswered, Exempted
  <1> QED
    BY <1>1, InvariantHolds, PTL

(* An outcome made up for a dangling call lands before anything a later
   submission says, unless a child was at work on the call. *)
THEOREM InOrder == Spec => []SynthesizedInOrder
  <1>1. Invariant => SynthesizedInOrder
    BY DEF Invariant
  <1> QED
    BY <1>1, InvariantHolds, PTL

(* A submission parks only with a child to wake it, or after a suspension in a
   corrective turn. *)
THEOREM ParksForChild == Spec => ParkedHasChild
  <1>1. ASSUME Invariant, [Next]_vars, NEW s \in Subs,
               (row')[s].status = "waiting", row[s].status # "waiting"
        PROVE  Children(s) # {} \/ run.stage = "corrective"
    <2>1. row \in [Subs -> Row] /\ run.sub \in Subs
      BY <1>1 DEF Invariant, TypeOK, Run
    <2>2. Steps \/ UNCHANGED vars
      BY <1>1, NextSteps
    <2>3. row' # row
      BY <1>1
    <2>4. CASE Leaves
      <3>1. PICK status \in {"queued", "waiting", "settled"}, resume \in BOOLEAN :
              /\ row' = [row EXCEPT ![run.sub].status = status, ![run.sub].resume = resume]
              /\ status = "waiting" => Children(run.sub) # {} \/ run.stage = "corrective"
        BY <2>4 DEF Leaves
      <3>2. s = run.sub /\ status = "waiting"
        BY <1>1, <2>1, <3>1 DEF Row
      <3> QED
        BY <3>1, <3>2
    <2>5. ASSUME NEW t \in Subs, Begins(t) \/ Wakes(t) PROVE FALSE
      <3>1. \A u \in Subs \ {t} : (row')[u] = row[u]
        BY <2>1, <2>5 DEF Begins, Wakes
      <3>2. (row')[t].status # "waiting"
        BY <2>1, <2>5 DEF Begins, Wakes, Row
      <3> QED
        BY <1>1, <3>1, <3>2
    <2>6. ASSUME NEW c \in Calls, Settles(c) PROVE FALSE
      <3>1. row' = [row EXCEPT ![child[c].parent].status = "queued"]
        BY <2>3, <2>6 DEF Settles
      <3> QED
        BY <1>1, <2>1, <3>1 DEF Row
    <2>7. ~ (Goes \/ Reads \/ Repairs \/ Inputs \/ Corrects \/ UNCHANGED vars)
      BY <2>3 DEF Goes, Reads, Repairs, Inputs, Corrects, Advances, vars
    <2>8. \A c \in Calls : ~ (Starts(c) \/ Ends(c) \/ Spawns(c) \/ Relinks(c))
      BY <2>3 DEF Starts, Ends, Spawns, Streams, Relinks
    <2> QED
      BY <2>2, <2>4, <2>5, <2>6, <2>7, <2>8 DEF Steps
  <1>2. Invariant /\ [Next]_vars =>
          [\A s \in Subs : (row')[s].status = "waiting" /\ row[s].status # "waiting" =>
             Children(s) # {} \/ run.stage = "corrective"]_vars
    BY <1>1
  <1> QED
    BY <1>2, InvariantHolds, PTL DEF Spec, ParkedHasChild

(* No record a run authors overtakes the deltas streamed before it, whatever
   events are dropped and whatever fails. *)
THEOREM FlushedFirst == Spec => NoOvertaking
  <1>1. ASSUME Invariant, Next, run.pc = "stream", log' # log, run' # run
        PROVE  ~ (run').buf
    <2>1. run \in Run
      BY <1>1 DEF Invariant, TypeOK
    <2>2. ToolCallStart \/ ToolCallEnd \/ TaskCallEnd
      <3>1. ASSUME \/ StartStream \/ Delta \/ MessageEnd \/ StreamDone \/ StreamOverflows
                   \/ Compact \/ Park \/ Validate \/ StreamTransient \/ StreamFails
                   \/ DriveFails \/ Interrupted
            PROVE  FALSE
        BY <1>1, <3>1, WentOn, LeftOrWentOn DEF Goes, Leaves
      <3>2. ASSUME ReadDangling \/ Synthesize \/ AppendInput \/ AppendCorrective \/ RepairSpawn
            PROVE  FALSE
        BY <1>1, <3>2 DEF ReadDangling, Synthesize, AppendInput, AppendCorrective, RepairSpawn
      <3>3. ASSUME NEW c \in Calls, ChildSettles(c) PROVE FALSE
        BY <1>1, <3>3 DEF ChildSettles
      <3>4. ASSUME NEW s \in Subs, Begin(s) \/ BackstopWake(s) PROVE FALSE
        BY <1>1, <3>4 DEF Begin, BackstopWake
      <3> QED
        BY <1>1, <3>1, <3>2, <3>3, <3>4, Zenon DEF Next, RunStep
    <2>3. ASSUME NEW kind, NEW c, NEW next \in Run, NEW other, Author(kind, c, next) \/ Miss(other)
          PROVE  ~ (run').buf
      BY <1>1, <2>3 DEF Author, Miss, Run
    <2>4. ASSUME NEW o \in SUBSET (Calls \X Tools)
          PROVE  [run EXCEPT !.open = o] \in Run
      BY <2>1, <2>4 DEF Run
    <2>5. ASSUME NEW o \in SUBSET (Calls \X Tools), NEW b \in BOOLEAN
          PROVE  [run EXCEPT !.open = o, !.suspend = b] \in Run
      BY <2>1, <2>5 DEF Run
    <2>6. CASE ToolCallStart
      <3>1. PICK c \in Calls, tool \in Tools :
              LET next == [run EXCEPT !.open = @ \cup {<<c, tool>>}]
              IN Author("call", c, next) \/ Miss(next)
        BY <2>6, Zenon DEF ToolCallStart
      <3> DEFINE o == run.open \cup {<<c, tool>>}
                 next == [run EXCEPT !.open = o]
      <3>2. o \in SUBSET (Calls \X Tools)
        BY <2>1 DEF Run
      <3>3. Author("call", c, next) \/ Miss(next)
        BY <3>1, Zenon
      <3> HIDE DEF o
      <3>4. next \in Run
        BY <2>4, <3>2, Zenon
      <3> HIDE DEF next
      <3> QED
        BY <2>3, <3>3, <3>4, Zenon
    <2>7. CASE ToolCallEnd
      <3>1. PICK c \in Calls, tool \in {"plain", "bare"} :
              LET next == [run EXCEPT !.open = @ \ {<<c, tool>>}, !.suspend = @ \/ tool = "bare"]
              IN Author("outcome", c, next) \/ Miss(next)
        BY <2>7, Zenon DEF ToolCallEnd
      <3> DEFINE o == run.open \ {<<c, tool>>}
                 b == run.suspend \/ tool = "bare"
                 next == [run EXCEPT !.open = o, !.suspend = b]
      <3>2. o \in SUBSET (Calls \X Tools) /\ b \in BOOLEAN
        BY <2>1 DEF Run
      <3>3. Author("outcome", c, next) \/ Miss(next)
        BY <3>1, Zenon
      <3> HIDE DEF o, b
      <3>4. next \in Run
        BY <2>5, <3>2, Zenon
      <3> HIDE DEF next
      <3> QED
        BY <2>3, <3>3, <3>4, Zenon
    <2>8. CASE TaskCallEnd
      <3>1. PICK c \in Calls :
              LET next == [run EXCEPT !.open = @ \ {<<c, "task">>}, !.suspend = TRUE]
              IN Author("spawn", c, [next EXCEPT !.spawned = TRUE]) \/ Miss(next)
        BY <2>8, Zenon DEF TaskCallEnd
      <3> DEFINE o == run.open \ {<<c, "task">>}
                 next == [run EXCEPT !.open = o, !.suspend = TRUE]
                 spawned == [next EXCEPT !.spawned = TRUE]
      <3>2. o \in SUBSET (Calls \X Tools)
        BY <2>1 DEF Run
      <3>3. Author("spawn", c, spawned) \/ Miss(next)
        BY <3>1, Zenon
      <3> HIDE DEF o
      <3>4. next \in Run
        BY <2>5, <3>2
      <3> HIDE DEF next
      <3>5. spawned \in Run
        BY <3>4 DEF Run
      <3> HIDE DEF spawned
      <3> QED
        BY <2>3, <3>3, <3>5, Zenon
    <2> QED
      BY <2>2, <2>6, <2>7, <2>8
  <1>2. Invariant /\ [Next]_vars =>
          [run.pc = "stream" /\ run.buf /\ log' # log /\ run' # run => ~ (run').buf]_vars
    BY <1>1
  <1> QED
    BY <1>2, InvariantHolds, PTL DEF Spec, NoOvertaking
=============================================================================
