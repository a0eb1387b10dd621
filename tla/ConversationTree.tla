-------------------------- MODULE ConversationTree --------------------------
(***************************************************************************)
(* The conversation log as reducer.go reads it: a tree whose active path   *)
(* is the transcript that projection.go serves to the agent, and the       *)
(* compaction that cuts this path.                                         *)
(*                                                                         *)
(* A compaction takes three looks at a log that others append to: it       *)
(* loads the transcript, has a model summarize the messages before some    *)
(* index of it, reads the log again to turn the index into a record, and   *)
(* appends the summary with that record as the first one to keep.          *)
(*                                                                         *)
(* Records are told apart by whether the transcript shows them.  The id of *)
(* a record is its position; 0 stands for no record.                       *)
(*                                                                         *)
(* Bound: MaxRecords records in the log.                                   *)
(***************************************************************************)
EXTENDS Integers, Sequences, SequencesExt, Selections

CONSTANTS Compactors,     \* who may compact at the same time
          SystemPrompt,   \* does the agent have one?
          MaxRecords

ASSUME TreeAssumption == SystemPrompt \in BOOLEAN /\ MaxRecords \in Nat

VARIABLES
  log,      \* the records of the conversation
  at,       \* what each compactor is at
  covers    \* history: which messages each summary stands for

vars == <<log, at, covers>>

Kinds   == {"message", "silent", "compaction"}
Ids(recs) == 1 .. Len(recs)
Shown(recs, id) == recs[id].kind # "silent"

----------------------------------------------------------------------------
(* Reduce: the parent of every record, and the leaf, one record at a time. *)

(* Mistake: a summary goes in before the record it keeps, and cuts nothing. *)
PlaceBetween(tree, rec) ==
  LET id == Len(tree.parent) + 1
  IN IF rec.kind = "compaction" /\ rec.kept \in 1 .. id - 1
     THEN [parent |-> [Append(tree.parent, tree.parent[rec.kept]) EXCEPT ![rec.kept] = id],
           leaf   |-> tree.leaf]
     ELSE [parent |-> Append(tree.parent, tree.leaf), leaf |-> id]

(* A summary with a record to keep becomes its parent, and a root; any other
   record goes on from the leaf. *)
Place(tree, rec) ==
  LET id == Len(tree.parent) + 1
  IN IF rec.kind = "compaction" /\ rec.kept \in 1 .. id - 1
     THEN [parent |-> [Append(tree.parent, 0) EXCEPT ![rec.kept] = id],
           leaf   |-> tree.leaf]
     ELSE [parent |-> Append(tree.parent, tree.leaf), leaf |-> id]

Sapling == [parent |-> <<>>, leaf |-> 0]

Reduce(recs) ==
  LET tree[i \in 0 .. Len(recs)] ==
        IF i = 0 THEN Sapling ELSE Place(tree[i - 1], recs[i])
  IN tree[Len(recs)]

(* From the leaf up to a root, one parent after the other.  The code climbs
   for as long as there is one; the number of records is enough for a path
   that ends. *)
Climb(path, tree) ==
  IF path = <<>> \/ tree.parent[Head(path)] = 0 THEN path
  ELSE <<tree.parent[Head(path)]>> \o path

ActiveLeafPath(recs) ==
  LET tree == Reduce(recs)
      path[i \in 0 .. Len(recs)] ==
        IF i = 0 THEN (IF tree.leaf = 0 THEN <<>> ELSE <<tree.leaf>>)
        ELSE Climb(path[i - 1], tree)
  IN path[Len(recs)]

(* The records of the path that the transcript shows. *)
Messages(recs) ==
  Only(ActiveLeafPath(recs), {id \in Ids(recs) : Shown(recs, id)})

(* Load: the system prompt, here 0, and the messages of the path. *)
Prompt == IF SystemPrompt THEN <<0>> ELSE <<>>
Load(recs) == Prompt \o Messages(recs)

(* Mistake: forget the system prompt when counting. *)
FirstKeptUncounted(recs, endIdx) ==
  LET shown == Messages(recs)
  IN IF endIdx < Len(shown) THEN shown[endIdx + 1] ELSE 0

(* Mistake: keep the last message that was summarized, too. *)
FirstKeptEarly(recs, endIdx) ==
  LET shown == Messages(recs)
  IN IF endIdx - 1 \in 1 .. Len(shown) THEN shown[endIdx - 1] ELSE 0

(* Mistake: if nothing is kept, point behind the log. *)
FirstKeptNext(recs, endIdx) ==
  LET shown == Messages(recs)
  IN IF endIdx <= Len(shown) THEN shown[endIdx] ELSE Len(recs) + 1

(* firstKeptEntryID: the record at the message index endIdx (from 0), none if
   everything was summarized. *)
FirstKept(recs, endIdx) ==
  LET kept == endIdx - Len(Prompt) + 1
  IN IF kept \in 1 .. Len(Messages(recs)) THEN Messages(recs)[kept] ELSE 0

----------------------------------------------------------------------------

Idle == [pc |-> "idle", view |-> <<>>, endIdx |-> 0, kept |-> 0]

Init ==
  /\ log = <<>>
  /\ at = [c \in Compactors |-> Idle]
  /\ covers = <<>>

Room == Len(log) < MaxRecords

(* A run, a wake or a dispatch appends a record. *)
AppendRecord ==
  /\ Room
  /\ \E kind \in {"message", "silent"} :
       log' = Append(log, [kind |-> kind, kept |-> 0])
  /\ covers' = Append(covers, {})
  /\ UNCHANGED at

LoadTranscript(c) ==
  /\ Room /\ at[c].pc = "idle"
  /\ at' = [at EXCEPT ![c].pc = "summarize", ![c].view = Load(log)]
  /\ UNCHANGED <<log, covers>>

(* The agent summarizes what comes before some index, never the system
   prompt alone. *)
Summarize(c) ==
  /\ at[c].pc = "summarize"
  /\ \E end \in Len(Prompt) + 1 .. Len(at[c].view) :
       at' = [at EXCEPT ![c].pc = "cut", ![c].endIdx = end]
  /\ UNCHANGED <<log, covers>>

CutPath(c) ==
  /\ at[c].pc = "cut"
  /\ at' = [at EXCEPT ![c].pc = "append", ![c].kept = FirstKept(log, at[c].endIdx)]
  /\ UNCHANGED <<log, covers>>

(* What a summary says of the messages before the index includes what their
   own summaries said. *)
Summarized(c) ==
  LET before == {at[c].view[i] : i \in 1 .. at[c].endIdx} \ {0}
  IN before \cup UNION {covers[id] : id \in before}

AppendBranchSummary(c) ==
  /\ Room /\ at[c].pc = "append"
  /\ log' = Append(log, [kind |-> "compaction", kept |-> at[c].kept])
  /\ covers' = Append(covers, Summarized(c))
  /\ at' = [at EXCEPT ![c] = Idle]

(* A model that fails to summarize, or nothing to summarize. *)
GiveUp(c) ==
  /\ at[c].pc # "idle"
  /\ at' = [at EXCEPT ![c] = Idle]
  /\ UNCHANGED <<log, covers>>

Next ==
  \/ AppendRecord
  \/ \E c \in Compactors :
       LoadTranscript(c) \/ Summarize(c) \/ CutPath(c) \/ AppendBranchSummary(c)
         \/ GiveUp(c)

Spec == Init /\ [][Next]_vars

----------------------------------------------------------------------------
(* Properties. *)

Path     == ActiveLeafPath(log)
OnPath   == ToSet(Path)
Cuts     == {id \in Ids(log) : log[id].kept # 0}

(* Records, compactors and the history keep their shape; a summary keeps an
   earlier record or none. *)
TypeOK ==
  /\ log \in Seq([kind : Kinds, kept : Nat]) /\ Len(log) <= MaxRecords
  /\ \A id \in Ids(log) : log[id].kept < id
  /\ at \in [Compactors -> [pc : {"idle", "summarize", "cut", "append"},
                            view : Seq(Nat), endIdx : Nat, kept : Nat]]
  /\ covers \in Seq(SUBSET Ids(log)) /\ Len(covers) = Len(log)

(* A compaction loses nothing, whatever is appended while it is under way:
   each message is still in the transcript, or a summary in the transcript
   stands for it. *)
NoMessageLost ==
  \A id \in Ids(log) : Shown(log, id) =>
    id \in OnPath \/ \E s \in OnPath : id \in covers[s]

(* Nor does a summary that cut the path stand beside a message it covers. *)
NoDoubleCount == \A s \in OnPath \cap Cuts : covers[s] \cap OnPath = {}

(* What Reduce and ActiveLeafPath compute record by record, told at once: the
   path is the whole log, or else the last summary that cut it, and after it
   the log from the record it keeps on, without the summaries that cut. *)
PathIsSuffix ==
  IF Cuts = {} THEN Path = [i \in Ids(log) |-> i]
  ELSE LET last == Max(Cuts)
       IN Path = <<last>> \o Only([i \in Ids(log) |-> i],
                                {id \in Ids(log) : id >= log[last].kept /\ id \notin Cuts})
=============================================================================
