------------------------- MODULE SubagentsInvariant -------------------------
(***************************************************************************)
(* The inductive invariant of Subagents: what each thread relies on while  *)
(* it is at a step, and what the store says of all of them.                *)
(***************************************************************************)
EXTENDS Subagents

Notes  == {"wake", "spawned?", "author", "answered?", "answer", "siblings", "resume"}
Duties == {"check", "append", "finalize"} \cup Notes
Turns  == {"scan", "exempt", "open", "drive", "tools", "dispatch", "drain", "repair"}
Expiry == {"expire", "cancel", "recheck", "expired", "requeue"}

(* Which steps a thread takes, and on whose behalf. *)
Placed(t) ==
  /\ t \in Kids => job[t].pc \in Duties \cup
       {"idle", "register", "recheck", "drive", "back off", "settle"}
  /\ t = P => job[t].pc \in Turns \cup Duties \cup
       {"idle", "back off", "settle", "orphans", "cascade", "interrupt"}
  /\ t = Loop => job[t].pc \in LoopPcs \cup Duties \cup {"interrupt"}
  /\ job[t].pc \in Notes \cup {"dispatch", "interrupt", "cancelled"} => job[t].sub \in Kids
  /\ t \in Subs /\ job[t].pc \notin Duties \cup {"dispatch", "interrupt"} => job[t].sub = t
  /\ job[t].pc = "settle" => job[t].outcome \in Ends
  /\ job[t].pend \subseteq Kids

(* Why a thread settles or wakes: the stage of a duty. *)
Staged(t) ==
  IF job[t].pc \in Duties
  THEN \/ /\ job[t].stage = "reserved"
          /\ t \in {job[t].sub, Loop} /\ job[t].outcome \in Ends
       \/ /\ job[t].stage = "final" /\ job[t].pc \in Notes
          /\ t \in {job[t].sub, Loop} /\ job[t].outcome \in Ends
       \/ /\ job[t].stage = "direct" /\ job[t].pc # "finalize"
          /\ t \in {P, Loop} /\ job[t].sub \in Kids /\ job[t].outcome \in Ends
       \/ job[t].stage = "backstop" /\ job[t].pc \in Notes /\ t = Loop
       \/ job[t].stage = "park" /\ job[t].pc \in {"spawned?", "author"} /\ t = P
  ELSE job[t].stage \in {"none", "prompt", "resume"}

(* A submission with a run is running; one that is being settled is reserved,
   or settled already. *)
Working(s) ==
  \/ job[s].pc \in Turns \cup {"register", "recheck", "back off", "settle"}
  \/ job[s].stage = "park"

RowHeld(t) ==
  /\ t \in Subs /\ Working(t) => row[t].status = "running" /\ row[t].leased
  /\ job[t].stage = "reserved" => row[job[t].sub].status = "terminalizing"
  /\ job[t].stage \in {"final", "direct", "backstop"} => row[job[t].sub].status = "settled"

(* Who is about to append has found no record, and who wakes the parent tells
   what the record says, or knows the call answered. *)
Told(t) == settled[job[t].sub] # <<>> /\ Head(settled[job[t].sub]) = job[t].outcome

Telling(t) ==
  /\ job[t].pc = "append" => settled[job[t].sub] = <<>>
  /\ job[t].pc \in Notes \cup {"finalize"} =>
       \/ Told(t) \/ job[t].stage = "park"
       \/ job[t].stage = "backstop" /\ job[t].pc # "answer" /\ Answered(job[t].sub)
  /\ job[t].pc \in {"answered?", "answer"} => Spawned(job[t].sub)

View(t) == Placed(t) /\ Staged(t) /\ RowHeld(t) /\ Telling(t)

Settling(t) == job[t].pc \in {"check", "append"}

OneSettles ==
  \A t, u \in Threads : Settling(t) /\ Settling(u) /\ job[t].sub = job[u].sub => t = u

----------------------------------------------------------------------------
(* The claim loop.  At startup it settles what a crash left before it claims
   anything; while it scans the wait of the parent, the parent has no run. *)
Booting  == job[Loop].pc \in {"boot", "reconcile"} \/ job[Loop].stage \in {"reserved", "final"}
Scanning == \/ job[Loop].pc \in Expiry \cup {"interrupt", "backlist", "backpending", "backstop"}
            \/ job[Loop].stage = "backstop"

LoopAlone ==
  /\ Booting => \A s \in Subs : job[s].pc = "idle"
  /\ job[Loop].pc = "reconcile" \/ job[Loop].stage \in {"reserved", "final"} =>
       \A s \in job[Loop].todo :
         /\ row[s].status = "terminalizing"
         /\ job[Loop].pc # "reconcile" => s # job[Loop].sub
  /\ Scanning => job[P].pc = "idle"
  /\ job[Loop].pc \in Expiry \cup {"interrupt"} /\ row[P].status = "waiting" => lapsed
  /\ job[Loop].pc \in {"cancel", "interrupt"} => job[Loop].todo \subseteq Kids

(* The back-stop wakes for settled children, with an outcome for those whose
   call has no answer. *)
Backstop ==
  /\ job[Loop].pc \in {"backlist", "backpending"} => \A k \in Children : Spawned(k)
  /\ job[Loop].pc \in {"backpending", "backstop"} \/ job[Loop].stage = "backstop" =>
       job[Loop].todo \subseteq Children \ Live
  /\ job[Loop].pc = "backstop" \/ job[Loop].stage = "backstop" =>
       \A k \in job[Loop].todo : k \in job[Loop].pend \/ Answered(k)

----------------------------------------------------------------------------
(* The parent waits only when every child has its spawn record. *)
Parked ==
  /\ row[P].status = "waiting" => job[P].pc = "idle" /\ \A k \in Children : Spawned(k)
  /\ job[P].pc = "repair" \/ job[P].stage = "park" => job[P].todo \subseteq Children
  /\ job[P].pc = "repair" => \A k \in Children : Spawned(k) \/ k \in job[P].todo
  /\ job[P].stage = "park" =>
       /\ job[P].sub \in Children
       /\ \A k \in Children : Spawned(k) \/ k \in job[P].todo \cup {job[P].sub}

(* It dispatches a child once, and does nothing else before its events are
   consumed. *)
Calling ==
  /\ job[P].pc \in {"tools", "dispatch"} => job[P].todo \subseteq called \ Children
  /\ job[P].pc = "dispatch" => job[P].sub \in called \ (Children \cup job[P].todo)
  /\ job[P].pc \notin {"drive", "tools", "dispatch", "drain"} => Drained

(* It answers as dangling no call whose child is at work. *)
Over(k) == row[k].status = "settled" \/ settled[k] # <<>>

Dangling ==
  job[P].pc = "exempt" =>
    \A k \in job[P].pend : Spawned(k) => k \in job[P].todo \/ Over(k)

(* Its cascade has reached every child it has passed. *)
Cascading == job[P].pc \in {"cascade", "interrupt"} \/ job[P].stage = "direct"

Orphans ==
  Cascading => /\ job[P].todo \subseteq Kids
               /\ \A k \in Live : k \in job[P].todo \/ row[k].flag \/ Terminal(k)

----------------------------------------------------------------------------
(* A child has no record before it exists, and nobody cancels the parent. *)
Spawning ==
  /\ \A k \in Kids : Spawned(k) \/ k \in author => k \in Children
  /\ \A i \in 1 .. Len(events) : events[i][1] = "spawn" => events[i][2] \in Children
  /\ Children \subseteq called
  /\ ~row[P].flag

Recorded ==
  /\ AnswerIsOutcome
  /\ \A s \in Subs : settled[s] # <<>> => Terminal(s)

(* Without a crash every row at work has its run, and the loop settles none. *)
CrashFree ==
  crashes = 0 =>
    /\ \A s \in Subs : /\ row[s].status = "running" => Working(s)
                       /\ row[s].status = "terminalizing" => job[s].stage = "reserved"
    /\ job[Loop].stage \notin {"reserved", "final", "direct"} /\ job[Loop].pc # "cancelled"
    /\ job[Loop].pc \in {"reconcile", "release"} => job[Loop].todo = {}

Invariant ==
  /\ TypeOK
  /\ \A t \in Threads : View(t)
  /\ OneSettles
  /\ LoopAlone /\ Backstop
  /\ Parked /\ Calling /\ Dangling /\ Orphans
  /\ Spawning /\ Recorded /\ CrashFree
  /\ CancelReachesRun /\ NoFabricatedError /\ WakeOrder /\ WokenByChildren
----------------------------------------------------------------------------
(* While there is one child at most: nobody resumes the parent before its call
   has an answer. *)
OneChild == \A j, k \in Children : j = k

AllAnswered == \A k \in Children : Answered(k)

(* Who has come to the siblings has answered for its child. *)
AnsweredFirst(t) == job[t].pc \in {"siblings", "resume"} => Answered(job[t].sub)

(* Between the expiry of a wait and the requeue, the loop answers what the
   children leave open. *)
Expiring ==
  job[Loop].pc \in {"recheck", "expired", "requeue"} /\ row[P].status = "waiting" =>
    \A k \in Children :
      Answered(k) \/ (k \in job[Loop].pend /\ job[Loop].pc # "requeue")

(* The resume mark is set by the park and consumed by the next claim, and in
   between only a wake or an expiry queues the row. *)
Marked ==
  row[P].resume =>
    /\ row[P].status \in {"waiting", "queued"}
    /\ row[P].status = "queued" => AllAnswered

(* The attempt that consumed it resumes before it calls anything. *)
Resuming ==
  job[P].stage = "resume" =>
    job[P].pc \in {"scan", "exempt", "open", "settle"} /\ AllAnswered

Resumable == (\A t \in Threads : AnsweredFirst(t)) /\ Expiring /\ Marked /\ Resuming

=============================================================================
