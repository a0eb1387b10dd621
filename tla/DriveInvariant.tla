--------------------------- MODULE DriveInvariant ---------------------------
(***************************************************************************)
(* The inductive invariant of Drive: what a drive has repaired stays so    *)
(* until its own calls and children change it.                             *)
(***************************************************************************)
EXTENDS Drive

(* The row of the run is running; no row is driven, and no answer corrected,
   once the budget is spent. *)
Running ==
  /\ run.pc # "idle" => row[run.sub].status = "running"
  /\ run.pc = "correct" => run.retries < ResultRetries
  /\ \A s \in Subs : row[s].status # "settled" => row[s].count <= MaxAttempts

(* A call is made once: its call record is the first that names it. *)
MadeOnce ==
  /\ \A c \in Calls, tool \in Tools : <<c, tool>> \in run.open => c \in made
  /\ \A c \in Calls : child[c].status # "none" => c \in made
  /\ \A i \in 1 .. Len(log) : log[i].kind \in {"call", "spawn"} =>
       /\ log[i].call \in made
       /\ log[i].kind = "call" =>
            \A k \in 1 .. i - 1 : log[k].kind \in {"call", "spawn"} => log[k].call # log[i].call

(* What the repair has found: the bare calls, and of those it has found, which
   a child may have answered since. *)
Found ==
  run.pc = "synthesize" =>
    \A c \in Calls : /\ Bare(c) => c \in run.pend
                     /\ c \in run.pend => Called(c) /\ (Bare(c) \/ Spawned(c))

(* What the repair leaves bare, until the drive prompts. *)
Exempted(c) ==
  Spawned(c) /\ (child[c].status = "live" \/ row[child[c].parent].status = "settled")

Repaired ==
  run.pc \in {"input", "prompt"} /\ run.stage = "first" => \A c \in Calls : Bare(c) => Exempted(c)

(* From its input on, a run leaves no bare calls but its own. *)
Loose(i) == log[i].kind = "call" /\ Bare(log[i].call) /\ ~Spawned(log[i].call)

Ours ==
  run.pc \notin {"idle", "reconcile", "synthesize"} =>
    \A i \in 1 .. Len(log) : Loose(i) => log[i].sub = run.sub

(* Nobody has said anything since a call that is still bare, but the
   submission that made it. *)
Says == {"input", "corrective", "call"}

Alone ==
  \A i \in 1 .. Len(log) : Loose(i) =>
    \A k \in i .. Len(log) : log[k].kind \in Says => log[k].sub = log[i].sub

(* A spawn record was authored for a child, and a suspension that is noted
   meets the park gate, but for a corrective turn. *)
Gated ==
  /\ run.spawned => Children(run.sub) # {}
  /\ run.pc \in {"validate", "correct"} /\ run.suspended => run.stage = "corrective"

Invariant ==
  /\ TypeOK /\ Running /\ MadeOnce /\ Found /\ Repaired /\ Ours /\ Alone
  /\ SynthesizedInOrder /\ Gated
=============================================================================
