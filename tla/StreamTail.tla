----------------------------- MODULE StreamTail -----------------------------
(***************************************************************************)
(* The read side: handleStream of transport.go replays the records of one  *)
(* session from an offset and then tails them, beside a run that writes    *)
(* them.  It polls the store, and sleeps on a channel that writers close.  *)
(*                                                                         *)
(* The offset is the id of a record.  Ids are ULIDs, which newULID hands   *)
(* out in order; what matters is in which order they then reach the log.   *)
(* Two goroutines write: the run, which turns its agent's events into      *)
(* records, and the wake of a child that settles.  The id of a spawn       *)
(* record is minted before the child exists, by the task call.             *)
(*                                                                         *)
(* Subagents and Coordinator say how rows move; here they move as those    *)
(* allow, in the one session that is read.                                 *)
(*                                                                         *)
(* Bounds: MaxEvents events of agents, task calls included, MaxReleases    *)
(* releases and MaxReconnects reconnects of the client.                    *)
(***************************************************************************)
EXTENDS Naturals, Sequences, SequencesExt, Selections

CONSTANTS NumSubs,        \* submissions of the session
          MaxEvents, MaxReleases, MaxReconnects,
          Memory          \* the adapter: memory, or else sqlite

Subs == 1 .. NumSubs

ASSUME StreamAssumption ==
  /\ NumSubs \in Nat \ {0}
  /\ MaxEvents \in Nat /\ MaxReleases \in Nat /\ MaxReconnects \in Nat
  /\ Memory \in BOOLEAN

VARIABLES
  (* the store *)
  row,       \* status of each submission
  log,       \* the records of the conversation
  (* the writers *)
  minted,    \* how many ids there are
  run,       \* the run in flight: its submission, and what it is at
  events,    \* the agent's events the run has not consumed: for each the id
             \* of the record it brings along, or 0
  child,     \* the child of the last task call
  pen,       \* what each writer is writing
  spent,     \* events, releases and reconnects so far
  (* the reader *)
  tail,      \* handleStream
  delivered  \* history: what the client received

desk == <<minted, run, events, child, pen>>
vars == <<row, log, minted, run, events, child, pen, spent, tail, delivered>>

Statuses == {"absent", "queued", "running", "waiting", "terminalizing", "settled"}
Kinds    == {"created", "event", "spawn", "outcome", "settled"}
Records  == [id : Nat \ {0}, kind : Kinds, sub : Subs]
Writers  == {"run", "wake"}
Bounds   == [events |-> MaxEvents, releases |-> MaxReleases,
             reconnects |-> MaxReconnects]

NoRun == [sub |-> 1, pc |-> "none", suspended |-> FALSE, task |-> 0]
NoChild == [pc |-> "none", id |-> 0, sub |-> 1]
NoPen == [pc |-> "idle", rec |-> [id |-> 1, kind |-> "created", sub |-> 1]]

(* Where a round of handleStream begins, from the offset after: at first the
   Last-Event-ID of the request. *)
Round(after) ==
  [pc |-> "scan", pos |-> 1, busy |-> FALSE, after |-> after, batch |-> <<>>,
   got |-> FALSE, woken |-> FALSE, admitted |-> {}, slipped |-> FALSE]

(* Before the conversation exists there is nothing to read; its first
   submission is admitted after it. *)
Init ==
  /\ row = [s \in Subs |-> "absent"]
  /\ log = <<[id |-> 1, kind |-> "created", sub |-> 1]>>
  /\ minted = 1
  /\ run = NoRun /\ events = <<>>
  /\ child = NoChild
  /\ pen = [w \in Writers |-> NoPen]
  /\ spent = [b \in DOMAIN Bounds |-> 0]
  /\ tail = Round(0) /\ delivered = <<>>

reader == <<tail, delivered>>

Spend(b) == spent[b] < Bounds[b] /\ spent' = [spent EXCEPT ![b] = @ + 1]

At(pc) == run.pc = pc
Step(pc) == run' = [run EXCEPT !.pc = pc]

----------------------------------------------------------------------------
(* Rows. *)

Admitted == {s \in Subs : row[s] # "absent"}

Dispatch ==
  /\ \E s \in Subs : /\ row[s] = "absent" /\ (1 .. s - 1) \subseteq Admitted
                     /\ row' = [row EXCEPT ![s] = "queued"]
  /\ UNCHANGED <<log, desk, spent, reader>>

(* A row that returns to queued while the reader asks for one status after
   the other may be in none of them; slipped remembers that it happened. *)
BackToQueued(s) ==
  /\ row' = [row EXCEPT ![s] = "queued"]
  /\ tail' = [tail EXCEPT !.slipped = @ \/ tail.pc = "scan"]

(* Sessions are served head first. *)
ClaimSubmission ==
  /\ At("none")
  /\ \E s \in Subs :
       /\ row[s] = "queued" /\ \A e \in 1 .. s - 1 : row[e] = "settled"
       /\ row' = [row EXCEPT ![s] = "running"]
       /\ run' = [NoRun EXCEPT !.sub = s, !.pc = "drive"]
  /\ UNCHANGED <<log, minted, events, child, pen, spent, reader>>

Drained == events = <<>> /\ pen["run"].pc = "idle"

(* The drive is over: a suspended run parks, a transient error gives the row
   back, everything else is settled. *)
DriveEnds ==
  /\ At("drive") /\ run.task = 0 /\ Drained
  /\ \/ /\ run.suspended
        /\ row' = [row EXCEPT ![run.sub] = "waiting"]
        /\ run' = NoRun
        /\ UNCHANGED <<spent, tail>>
     \/ /\ ~run.suspended /\ Spend("releases")
        /\ BackToQueued(run.sub)
        /\ run' = NoRun
     \/ /\ ~run.suspended
        /\ row' = [row EXCEPT ![run.sub] = "terminalizing"]
        /\ Step("record")
        /\ UNCHANGED <<spent, tail>>
  /\ UNCHANGED <<log, minted, events, child, pen, delivered>>

(* It closes no channel a reader of the log sleeps on. *)
FinalizeSettlement ==
  /\ At("finalize") /\ Drained
  /\ row' = [row EXCEPT ![run.sub] = "settled"]
  /\ run' = NoRun
  /\ UNCHANGED <<log, minted, events, child, pen, spent, reader>>

(* The wake, or the back-stop scan, requeues the parent of a settled child. *)
ResumeParent ==
  /\ child.pc = "told" /\ row[child.sub] = "waiting"
  /\ BackToQueued(child.sub)
  /\ child' = NoChild
  /\ UNCHANGED <<log, minted, run, events, pen, spent, delivered>>

----------------------------------------------------------------------------
(* Writers.  A record is built with its id, appended, and announced. *)

Recorded(id) == \E i \in 1 .. Len(log) : log[i].id = id

Take(w, rec) == pen' = [pen EXCEPT ![w] = [pc |-> "append", rec |-> rec]]

(* Mistake: a record without an id. *)
BuildNoID(w, kind, s) ==
  /\ minted' = minted + 1
  /\ Take(w, [id |-> 0, kind |-> kind, sub |-> s])

Build(w, kind, s) ==
  /\ minted' = minted + 1
  /\ Take(w, [id |-> minted + 1, kind |-> kind, sub |-> s])

(* Two records of one id are an error in sqlite, for the one that is second.
   A consumer that gets it stops its agent, which is suspended by then. *)
AppendRecords(w) ==
  /\ pen[w].pc = "append"
  /\ IF Memory \/ ~Recorded(pen[w].rec.id)
     THEN /\ log' = Append(log, pen[w].rec)
          /\ pen' = [pen EXCEPT ![w].pc = "notify"]
     ELSE pen' = [pen EXCEPT ![w] = NoPen] /\ UNCHANGED log
  /\ UNCHANGED <<row, minted, run, events, child, spent, reader>>

NotifyAppend(w) ==
  /\ pen[w].pc = "notify"
  /\ pen' = [pen EXCEPT ![w] = NoPen]
  /\ tail' = [tail EXCEPT !.woken = tail.pc \in {"read", "write", "select"}]
  /\ UNCHANGED <<row, log, minted, run, events, child, spent, delivered>>

(* The agent works ahead of the consumer of its events. *)
AgentEvent ==
  /\ At("drive") /\ ~run.suspended /\ run.task = 0
  /\ Spend("events")
  /\ events' = Append(events, 0)
  /\ UNCHANGED <<row, log, minted, run, child, pen, reader>>

(* A task call is announced... *)
CallTask ==
  /\ At("drive") /\ ~run.suspended /\ run.task = 0 /\ child.pc = "none"
  /\ Spend("events")
  /\ events' = Append(events, 0)
  /\ Step("call")
  /\ UNCHANGED <<row, log, minted, child, pen, reader>>

(* ...the tool mints the id of the spawn record, whether or not the consumer
   has seen the call... *)
ExecuteTask ==
  /\ At("call")
  /\ minted' = minted + 1
  /\ run' = [run EXCEPT !.pc = "drive", !.task = minted + 1]
  /\ UNCHANGED <<row, log, events, child, pen, spent, reader>>

(* ...and dispatches the child; the end of the call brings the id along. *)
DispatchChild ==
  /\ At("drive") /\ run.task # 0
  /\ child' = [pc |-> "live", id |-> run.task, sub |-> run.sub]
  /\ events' = Append(events, run.task)
  /\ run' = [run EXCEPT !.task = 0, !.suspended = TRUE]
  /\ UNCHANGED <<row, log, minted, pen, spent, reader>>

(* consumeEvent: a spawn record has its id already, and may be there. *)
ConsumeEvent ==
  /\ events # <<>> /\ pen["run"].pc = "idle"
  /\ events' = Tail(events)
  /\ \/ Head(events) = 0 /\ Build("run", "event", run.sub)
     \/ /\ Head(events) # 0
        /\ IF Recorded(Head(events)) THEN UNCHANGED pen
           ELSE Take("run", [id |-> Head(events), kind |-> "spawn", sub |-> run.sub])
        /\ UNCHANGED minted
  /\ UNCHANGED <<row, log, run, child, spent, reader>>

AuthorSettled ==
  /\ At("record")
  /\ Build("run", "settled", run.sub)
  /\ Step("finalize")
  /\ UNCHANGED <<row, log, events, child, spent, reader>>

(* wakeParent: the spawn record if it is missing, then the outcome. *)
WakeParent ==
  /\ pen["wake"].pc = "idle"
  /\ \/ /\ child.pc = "live"
        /\ IF Recorded(child.id) THEN UNCHANGED pen
           ELSE Take("wake", [id |-> child.id, kind |-> "spawn", sub |-> child.sub])
        /\ child' = [child EXCEPT !.pc = "settling"]
        /\ UNCHANGED minted
     \/ /\ child.pc = "settling"
        /\ Build("wake", "outcome", child.sub)
        /\ child' = [child EXCEPT !.pc = "answered"]
     \/ /\ child.pc = "answered"
        /\ child' = [child EXCEPT !.pc = "told"]
        /\ UNCHANGED <<minted, pen>>
  /\ UNCHANGED <<row, log, run, events, spent, reader>>

----------------------------------------------------------------------------
(* ReadRecords: sqlite filters by id; memory takes all from the position a
   binary search finds, as if the ids were in order. *)

(* The first position in question, and the one behind the last; a step looks
   at the record in the middle. *)
Halve(range, after) ==
  LET h == (range.lo + range.hi) \div 2
  IN IF range.lo >= range.hi THEN range
     ELSE IF log[h + 1].id > after THEN [range EXCEPT !.hi = h]
     ELSE [range EXCEPT !.lo = h + 1]

Search(after) ==
  LET range[i \in 0 .. Len(log)] ==
        IF i = 0 THEN [lo |-> 0, hi |-> Len(log)] ELSE Halve(range[i - 1], after)
  IN range[Len(log)].lo

Newer(after) == {rec \in ToSet(log) : rec.id > after}

(* Mistake: the offset itself is sent again. *)
ReadRecordsFrom(after) == Only(log, {rec \in ToSet(log) : rec.id >= after})

ReadRecords(after) ==
  IF Memory
  THEN IF after = 0 THEN log ELSE SubSeq(log, Search(after) + 1, Len(log))
  ELSE Only(log, Newer(after))

(* sessionBusy asks for the statuses in this order. *)
ScanOrder == <<"queued", "running", "waiting", "terminalizing">>

ScanStatus ==
  /\ tail.pc = "scan"
  /\ LET found   == \E s \in Subs : row[s] = ScanOrder[tail.pos]
         started == IF tail.pos = 1
                    THEN [tail EXCEPT !.admitted = Admitted, !.slipped = FALSE]
                    ELSE tail
     IN tail' = IF found \/ tail.pos = Len(ScanOrder)
                THEN [started EXCEPT !.pc = "channel", !.busy = found, !.pos = 1]
                ELSE [started EXCEPT !.pos = @ + 1]
  /\ UNCHANGED <<row, log, desk, spent, delivered>>

(* The channel is taken before the records are read. *)
AppendWait ==
  /\ tail.pc = "channel"
  /\ tail' = [tail EXCEPT !.pc = "read", !.woken = FALSE]
  /\ UNCHANGED <<row, log, desk, spent, delivered>>

ReadLog ==
  /\ tail.pc = "read"
  /\ LET recs == ReadRecords(tail.after)
     IN tail' = [tail EXCEPT !.pc = "write", !.batch = recs, !.got = recs # <<>>]
  /\ UNCHANGED <<row, log, desk, spent, delivered>>

(* Mistake: close when idle, without a last look. *)
WriteOrLeave ==
  /\ tail.pc = "write"
  /\ \/ /\ tail.batch # <<>> /\ tail.busy
        /\ delivered' = Append(delivered, Head(tail.batch))
        /\ tail' = [tail EXCEPT !.after = Head(tail.batch).id, !.batch = Tail(@)]
     \/ /\ tail.batch = <<>> \/ ~tail.busy
        /\ tail' = [tail EXCEPT !.pc = IF tail.busy THEN "select" ELSE "closed"]
        /\ UNCHANGED delivered
  /\ UNCHANGED <<row, log, desk, spent>>

(* Mistake: take the channel only now that there is nothing left to write. *)
WriteThenSubscribe ==
  /\ tail.pc = "write"
  /\ \/ /\ tail.batch # <<>>
        /\ delivered' = Append(delivered, Head(tail.batch))
        /\ tail' = [tail EXCEPT !.after = Head(tail.batch).id, !.batch = Tail(@)]
     \/ /\ tail.batch = <<>>
        /\ tail' = [tail EXCEPT !.pc = IF tail.got \/ tail.busy THEN "select" ELSE "closed",
                                !.woken = FALSE]
        /\ UNCHANGED delivered
  /\ UNCHANGED <<row, log, desk, spent>>

(* Each record moves the offset; with none left, and none in this round, an
   idle session ends the stream. *)
WriteSSE ==
  /\ tail.pc = "write"
  /\ \/ /\ tail.batch # <<>>
        /\ delivered' = Append(delivered, Head(tail.batch))
        /\ tail' = [tail EXCEPT !.after = Head(tail.batch).id, !.batch = Tail(@)]
     \/ /\ tail.batch = <<>>
        /\ tail' = [tail EXCEPT !.pc = IF tail.got \/ tail.busy THEN "select" ELSE "closed"]
        /\ UNCHANGED delivered
  /\ UNCHANGED <<row, log, desk, spent>>

(* Mistake: rely on the channel. *)
SelectSignal ==
  /\ tail.pc = "select" /\ tail.woken
  /\ tail' = Round(tail.after)
  /\ UNCHANGED <<row, log, desk, spent, delivered>>

(* The next round: for the channel, or for the fallback poll. *)
Select ==
  /\ tail.pc = "select"
  /\ tail' = Round(tail.after)
  /\ UNCHANGED <<row, log, desk, spent, delivered>>

(* The client loses the connection and asks again for what follows. *)
Reconnect ==
  /\ tail.pc # "closed" /\ Spend("reconnects")
  /\ tail' = Round(IF delivered = <<>> THEN 0 ELSE Last(delivered).id)
  /\ UNCHANGED <<row, log, desk, delivered>>

----------------------------------------------------------------------------

RunStep ==
  \/ ClaimSubmission \/ DriveEnds \/ FinalizeSettlement
  \/ ConsumeEvent \/ AuthorSettled \/ ExecuteTask \/ DispatchChild
  \/ AppendRecords("run") \/ NotifyAppend("run")
WakeStep == WakeParent \/ ResumeParent \/ AppendRecords("wake") \/ NotifyAppend("wake")
TailStep == ScanStatus \/ AppendWait \/ ReadLog \/ WriteSSE \/ Select

Next ==
  \/ Dispatch \/ AgentEvent \/ CallTask \/ Reconnect
  \/ RunStep \/ WakeStep \/ TailStep

Spec == Init /\ [][Next]_vars

(* Goroutines run on, a child settles, and the fallback poll comes round. *)
FairSpec == Spec /\ WF_vars(RunStep) /\ WF_vars(WakeStep) /\ WF_vars(TailStep)

----------------------------------------------------------------------------
(* Properties. *)

TypeOK ==
  /\ row \in [Subs -> Statuses]
  /\ log \in Seq(Records) /\ minted \in Nat
  /\ run \in [sub : Subs, pc : {"none", "drive", "call", "record", "finalize"},
              suspended : BOOLEAN, task : Nat]
  /\ events \in Seq(Nat)
  /\ child \in [pc : {"none", "live", "settling", "answered", "told"},
                id : Nat, sub : Subs]
  /\ pen \in [Writers -> [pc : {"idle", "append", "notify"}, rec : Records]]
  /\ spent \in [DOMAIN Bounds -> Nat]
  /\ tail \in [pc : {"scan", "channel", "read", "write", "select", "closed"},
               pos : 1 .. 4, busy : BOOLEAN, after : Nat, batch : Seq(Records),
               got : BOOLEAN, woken : BOOLEAN, admitted : SUBSET Subs,
               slipped : BOOLEAN]
  /\ delivered \in Seq(Records)

InOrder == \A i, j \in 1 .. Len(log) : i < j => log[i].id < log[j].id

(* While records reach the log in the order of their ids, the client has,
   over any number of connections, every record up to some point, once and in
   order. *)
DeliveredPrefix == InOrder => IsPrefix(delivered, log)

(* A reader that sleeps has missed no announcement: if there is something to
   read beyond its offset, somebody is about to announce it. *)
NoLostWake ==
  tail.pc = "select" /\ ~tail.woken /\ InOrder =>
    \/ ReadRecords(tail.after) = <<>>
    \/ \E w \in Writers : pen[w].pc = "notify"

(* The stream ends only after each submission that was there when the last
   scan began has settled and its settled record has been sent, unless a row
   slipped through the scan. *)
CloseIsClean ==
  tail.pc = "closed" /\ ~tail.slipped /\ InOrder =>
    \A s \in tail.admitted :
      \E i \in 1 .. Len(delivered) :
        delivered[i].kind = "settled" /\ delivered[i].sub = s

(* A stream ends once its session is idle. *)
StreamEnds == <>(tail.pc = "closed")

(* What the code does not keep: the client of a stream that ended has every
   record of the submissions that were there. *)
StreamComplete ==
  tail.pc = "closed" /\ ~tail.slipped =>
    \A i \in 1 .. Len(log) :
      log[i].sub \in tail.admitted => \E j \in 1 .. Len(delivered) : delivered[j] = log[i]
=============================================================================
