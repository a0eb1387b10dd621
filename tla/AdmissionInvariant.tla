------------------------- MODULE AdmissionInvariant -------------------------
(***************************************************************************)
(* The inductive invariant of Admission: what the mutex of the task tool   *)
(* protects, who may still open a conversation, and where the spawn record *)
(* id that a conversation names comes from.                                *)
(***************************************************************************)
EXTENDS Admission

Present(i) == row[i].status # "absent"

Locked   == {"replay", "count", "ensure", "open", "admit", "recover"}
Decided  == {"ensure", "open", "admit"}

TaskAt(c, pcs) == caller[c].req.task /\ caller[c].pc \in pcs

(* Which callers have which locals. *)
Locals ==
  \A c \in Callers :
    /\ caller[c].pc # "idle" => caller[c].req \in Requests
    /\ caller[c].pc \in {"lock", "replay", "count", "recover"} => caller[c].req.task
    /\ caller[c].replay \/ caller[c].created => caller[c].req.task
    /\ caller[c].pc \in {"lock", "replay", "count"} => ~caller[c].replay

(* A task call holds the mutex from the replay check to its answer. *)
Exclusive == \A c \in Callers : TaskAt(c, Locked) => mu = c

(* So what it has found out still holds: a new child is not there and has
   room; a replayed one is there. *)
Fresh ==
  \A c \in Callers : TaskAt(c, Decided \cup {"count"}) /\ ~caller[c].replay =>
    ~Present(caller[c].req.id)

Kept ==
  \A c \in Callers : TaskAt(c, Decided \cup {"recover"}) /\ caller[c].replay =>
    Present(caller[c].req.id)

Room ==
  \A c \in Callers : TaskAt(c, Decided) /\ ~caller[c].replay =>
    Cardinality(Live) < MaxChildren

(* A row has a conversation, and a child's is one that a task call names. *)
RowKeys ==
  /\ \A i \in Ids : Present(i) => row[i].key \in conv
  /\ \A i \in Children : Present(i) =>
       \E r \in TaskCalls : r.id = i /\ r.key = row[i].key

(* A conversation is opened by the caller that created it, and by no other. *)
Unopened == \A k \in Keys \ conv : opened[k] = <<>>

Created ==
  \A c \in Callers : caller[c].pc \in {"open", "admit"} => caller[c].req.key \in conv

Opening ==
  \A c \in Callers : At(c, "open") =>
    /\ opened[caller[c].req.key] = <<>>
    /\ IF caller[c].req.task THEN caller[c].created ELSE caller[c].spawn = 0

OneOpener ==
  \A c, d \in Callers :
    At(c, "open") /\ At(d, "open") /\ caller[c].req.key = caller[d].req.key => c = d

(* A task call does not open the conversation its child is already in. *)
Moved ==
  \A c \in Callers : TaskAt(c, {"open"}) /\ Present(caller[c].req.id) =>
    row[caller[c].req.id].key # caller[c].req.key

(* A conversation that names a spawn record has its child, or the task call
   that minted the id is about to admit it, unless it was stopped. *)
Refs ==
  \A q \in TaskCalls :
    opened[q.key] # <<>> /\ Head(opened[q.key]) # 0 /\ q.key \notin torn =>
      \/ Present(q.id)
      \/ \E c \in Callers : TaskAt(c, {"admit"}) /\ caller[c].created /\ caller[c].req.key = q.key

(* And a task call about to admit a new child names the same spawn record. *)
Names(c, key) ==
  key \notin torn /\ opened[key] # <<>> => Head(opened[key]) \in {0, caller[c].spawn}

Admitting ==
  \A c \in Callers : TaskAt(c, {"admit"}) /\ ~caller[c].replay => Names(c, caller[c].req.key)

(* What a receipt, or one about to be given, says of the row. *)
Received(c) ==
  LET r == caller[c].req
  IN /\ caller[c].pc \in {"recover", "answered"} => Present(r.id) /\ row[r.id].input = r.input
     /\ At(c, "answered") => /\ row[r.id].key = caller[c].named
                             /\ r.task => Names(c, caller[c].named)

Receipts == \A c \in Callers : Received(c)

Invariant ==
  /\ TypeOK
  /\ Locals /\ Exclusive /\ Fresh /\ Kept /\ Room /\ FanOutBounded
  /\ RowKeys /\ Unopened /\ Created /\ Opening /\ OneOpener /\ Moved
  /\ Refs /\ Admitting /\ Receipts
=============================================================================
