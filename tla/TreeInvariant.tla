---------------------------- MODULE TreeInvariant ----------------------------
(***************************************************************************)
(* The inductive invariant of ConversationTree: what the active path looks *)
(* like between its links and its last summary, and what a compaction that *)
(* is under way knows of it.                                               *)
(***************************************************************************)
EXTENDS ConversationTree

(* No two compactions of one conversation at the same time. *)
Alone == \A c, d \in Compactors : c = d

Tree == Reduce(log)

(* Whatever compacts: what a compaction holds was in the log, and the index
   lies within what it loaded. *)
Held ==
  \A c \in Compactors :
    /\ at[c].kept <= Len(log)
    /\ \A i \in 1 .. Len(at[c].view) : at[c].view[i] <= Len(log)
    /\ at[c].pc \in {"cut", "append"} => at[c].endIdx <= Len(at[c].view)

(* The path goes from a root over children to the leaf. *)
Linked(path, tree) ==
  /\ path = <<>> <=> tree.leaf = 0
  /\ Len(path) <= Len(tree.parent)
  /\ path # <<>> => path[Len(path)] = tree.leaf /\ tree.parent[path[1]] = 0
  /\ \A i \in 1 .. Len(path) - 1 : tree.parent[path[i + 1]] = path[i]

(* Without a cut the path is the log.  Otherwise it begins with the last cut,
   and what follows are, in order, the records from the one it keeps on. *)
Uncut(path) == Len(path) = Len(log) /\ \A i \in Ids(log) : path[i] = i

CutAt(path, last) ==
  /\ last \in Cuts /\ \A cut \in Cuts : cut <= last
  /\ path # <<>> /\ path[1] = last
  /\ \A i, j \in 2 .. Len(path) : i < j => path[i] < path[j]
  /\ \A id \in Ids(log) :
       id >= log[last].kept /\ id \notin Cuts <=> \E i \in 2 .. Len(path) : path[i] = id

InLine == (Cuts = {} /\ Uncut(Path)) \/ \E last \in Cuts : CutAt(Path, last)

(* What was loaded is still how the transcript begins, and the index lies
   behind its first message. *)
ViewTrue(c) ==
  /\ at[c].pc # "idle" =>
       /\ Len(at[c].view) <= Len(Load(log))
       /\ \A i \in 1 .. Len(at[c].view) : at[c].view[i] = Load(log)[i]
  /\ at[c].pc \in {"cut", "append"} =>
       at[c].endIdx \in Len(Prompt) + 1 .. Len(at[c].view)

(* The record to keep is the message at the index. *)
KeptTrue(c) ==
  at[c].pc = "append" /\ at[c].kept # 0 =>
    /\ at[c].endIdx - Len(Prompt) + 1 \in 1 .. Len(Messages(log))
    /\ at[c].kept = Messages(log)[at[c].endIdx - Len(Prompt) + 1]

(* Only what the transcript shows covers anything, and only what is older. *)
CoversTrue ==
  \A id \in Ids(log) : \A m \in covers[id] : m < id /\ Shown(log, id)

Invariant ==
  /\ TypeOK /\ Held
  /\ Linked(Path, Tree) /\ InLine
  /\ \A c \in Compactors : ViewTrue(c) /\ KeptTrue(c)
  /\ CoversTrue /\ NoMessageLost /\ NoDoubleCount
=============================================================================
