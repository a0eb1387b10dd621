----------------------------- MODULE SqliteStore -----------------------------
(***************************************************************************)
(* The SQLite store (sqlite/sqlite.go), statement by statement.  The pool  *)
(* holds one connection: a statement waits until it is free, and takes     *)
(* effect at once; a transaction keeps it from its BEGIN to its COMMIT or  *)
(* ROLLBACK.  A statement may fail, and then has no effect.                *)
(*                                                                         *)
(* One client lists and claims queued rows, the loop of the one runtime    *)
(* the store is written for; it mints an attempt id per claim, which the   *)
(* others learn when the claim has returned.                               *)
(***************************************************************************)
EXTENDS Naturals, Sequences

CONSTANTS Subs, Clients, Inputs, Batches,
          Loop,      \* the client that claims
          MaxClaims  \* bound: claims

ASSUME LoopClient == Loop \in Clients
ASSUME ClaimsBounded == MaxClaims \in Nat
(* "free" stands for no client at all. *)
ASSUME FreeIsNobody == "free" \notin Clients
(* Record ids are strings, and callers skip an empty append. *)
ASSUME BatchesOfIds == \A b \in Batches : b \in Seq(STRING) /\ b # <<>>

VARIABLES row,    \* table submissions
          log,    \* table records, one conversation
          conn,   \* the client the connection is held by, or "free"
          call,   \* per client: the call it is in
          minted  \* attempt ids minted

vars == <<row, log, conn, call, minted>>

(* What the contract sees of the call u, and of all calls: a claim and an
   admission are decided before they read back what they answer. *)
Seen(u) ==
  [stage |-> CASE u.pc \in {"idle", "done"} -> u.pc
               [] u.pc = "reread"           -> "taken"
               [] OTHER                     -> "open",
   req |-> u.req,
   answer |-> IF u.pc = "reread" THEN u.due ELSE u.answer]

seen == [c \in Clients |-> Seen(call[c])]

Contract == INSTANCE StoreContract WITH Attempts <- 1 .. MaxClaims, call <- seen

Absent   == Contract!Absent
Answer(result, value) == Contract!Answer(result, value)
NoAnswer == Contract!NoAnswer
Error    == Contract!Error
Owns(q)  == Contract!Owns(q, row[q.sub])

(* saw, status: what a call read and uses later (an admission, that the row is
   there; a claim, its resume mark; a cancel, its status); staged: what its
   transaction has written; due: a history variable, the answer the deciding
   statement left to read back. *)
Idle == [pc |-> "idle", req |-> Contract!Quiet.req, saw |-> FALSE, status |-> "absent",
         staged |-> <<>>, due |-> NoAnswer, answer |-> NoAnswer]

Init ==
  /\ row = [s \in Subs |-> Absent]
  /\ log = <<>>
  /\ conn = "free"
  /\ call = [c \in Clients |-> Idle]
  /\ minted = 0

----------------------------------------------------------------------------
At(c, pc, ops) == call[c].pc = pc /\ call[c].req.op \in ops

(* A statement of its own needs the connection for as long as it runs. *)
Statement(c, pc, ops) == At(c, pc, ops) /\ conn = "free" /\ UNCHANGED conn

Goto(c, pc)     == call' = [call EXCEPT ![c].pc = pc]
Done(c, answer) == call' = [call EXCEPT ![c].pc = "done", ![c].answer = answer]
Write(s, r)     == row' = [row EXCEPT ![s] = r]

Invoke(c, q, pc) ==
  /\ call[c].pc = "idle"
  /\ call' = [call EXCEPT ![c].pc = pc, ![c].req = q]
  /\ UNCHANGED <<row, log, conn>>

Known(s) == row[s].status # "absent"

(* The attempts whose claim has returned. *)
Learned ==
  {a \in 1 .. minted : \A c \in Clients : ~ (call[c].req.op = "claim" /\ call[c].req.attempt = a)}

CasOps == {"release", "wait", "reserve", "renew", "resume", "finalize"}

InvokeCall(c) ==
  \/ /\ \E q \in {r \in Contract!Requests : r.op = "admit"} : Invoke(c, q, "insert")
     /\ UNCHANGED minted
  \/ /\ c = Loop /\ minted < MaxClaims
     /\ \E s \in {t \in Subs : row[t].status = "queued"} :
          Invoke(c, Contract!Req("claim", s, minted + 1, "none", <<>>), "read")
     /\ minted' = minted + 1
  \/ /\ \E q \in {r \in Contract!Requests : r.op \in CasOps /\ Known(r.sub)
                                              /\ r.attempt \in Learned \cup {0}} :
          Invoke(c, q, "update")
     /\ UNCHANGED minted
  \/ /\ \E q \in {r \in Contract!Requests : r.op = "append" \/ (r.op = "cancel" /\ Known(r.sub))} :
          Invoke(c, q, "begin")
     /\ UNCHANGED minted

----------------------------------------------------------------------------
(* AdmitSubmission: an INSERT that a row with this id turns into nothing, the
   row read back, and the inputs compared if it was there. *)
Insert(c) ==
  /\ Statement(c, "insert", {"admit"})
  /\ LET q == call[c].req
         there == Known(q.sub)
         stored == IF there THEN row[q.sub] ELSE Contract!Admitted(q.input)
     IN /\ Write(q.sub, stored)
        /\ call' = [call EXCEPT ![c].pc = "reread", ![c].saw = there,
                                ![c].due = IF stored.input = q.input THEN Answer("ok", <<q.input>>)
                                           ELSE Answer("conflict", <<>>)]
  /\ UNCHANGED <<log, minted>>

RereadAdmitted(c) ==
  /\ Statement(c, "reread", {"admit"})
  /\ LET q == call[c].req
         existing == row[q.sub]
     IN Done(c, IF call[c].saw /\ existing.input # q.input THEN Answer("conflict", <<>>)
                ELSE Answer("ok", <<existing.input>>))
  /\ UNCHANGED <<row, log, minted>>

(* ClaimSubmission: the resume mark read, the UPDATE that consumes it, and
   the row read back, with the mark that was read. *)
ReadMark(c) ==
  /\ Statement(c, "read", {"claim"})
  /\ call' = [call EXCEPT ![c].pc = "update", ![c].saw = row[call[c].req.sub].resume]
  /\ UNCHANGED <<row, log, minted>>

(* Mutant: the mark is left in the row. *)
ClaimedKeepingMark(r, a) ==
  [r EXCEPT !.status = "running", !.attempt = a, !.count = IF r.resume THEN @ ELSE @ + 1]

Claimed(r, a) ==
  [r EXCEPT !.status = "running", !.attempt = a,
            !.count = IF r.resume THEN @ ELSE @ + 1, !.resume = FALSE]

UpdateClaimed(c) ==
  /\ Statement(c, "update", {"claim"})
  /\ LET q == call[c].req
         r == row[q.sub]
         claimed == Claimed(r, q.attempt)
     IN IF r.status = "queued"
        THEN /\ Write(q.sub, claimed)
             /\ call' = [call EXCEPT ![c].pc = "reread",
                                     ![c].due = Answer("ok", <<claimed.attempt, claimed.count,
                                                                r.resume>>)]
        ELSE Done(c, Answer("lost", <<>>)) /\ UNCHANGED row
  /\ UNCHANGED <<log, minted>>

RereadClaimed(c) ==
  /\ Statement(c, "reread", {"claim"})
  /\ LET r == row[call[c].req.sub]
     IN Done(c, Answer("ok", <<r.attempt, r.count, call[c].saw>>))
  /\ UNCHANGED <<row, log, minted>>

----------------------------------------------------------------------------
(* One UPDATE with the compare in its WHERE clause: the rows it affected tell
   whether it applied. *)
Applies(q) ==
  CASE q.op = "resume"   -> row[q.sub].status = "waiting"
    [] q.op = "finalize" -> row[q.sub].status \in {"terminalizing", "settled"}
    [] OTHER             -> Owns(q)

Set(q) ==
  LET r == row[q.sub]
  IN CASE q.op = "release"  -> [r EXCEPT !.status = "queued", !.attempt = 0]
       [] q.op = "wait"     -> [r EXCEPT !.status = "waiting", !.attempt = 0, !.resume = TRUE]
       [] q.op = "resume"   -> [r EXCEPT !.status = "queued"]
       [] q.op = "reserve"  -> [r EXCEPT !.status = "terminalizing"]
       [] q.op = "finalize" -> [r EXCEPT !.status = "settled"]
       [] OTHER             -> r

UpdateCas(c) ==
  /\ Statement(c, "update", CasOps)
  /\ LET q == call[c].req
     IN IF Applies(q) THEN Write(q.sub, Set(q)) /\ Done(c, Answer("ok", <<>>))
        ELSE Done(c, Answer("lost", <<>>)) /\ UNCHANGED row
  /\ UNCHANGED <<log, minted>>

----------------------------------------------------------------------------
(* The transactions: CancelSubmission and AppendRecords. *)
TxOps == {"cancel", "append"}

(* Mutant: cancel runs its statements outside of a transaction. *)
BeginAppendOnly(c) ==
  /\ At(c, "begin", TxOps) /\ conn = "free"
  /\ conn' = IF call[c].req.op = "append" THEN c ELSE "free"
  /\ Goto(c, "tx")
  /\ UNCHANGED <<row, log, minted>>

Begin(c) ==
  /\ At(c, "begin", TxOps) /\ conn = "free"
  /\ conn' = c
  /\ Goto(c, "tx")
  /\ UNCHANGED <<row, log, minted>>

(* Its statements use the connection it holds; without one, a free one. *)
InTx(c, pc, op) == At(c, pc, {op}) /\ conn \in {c, "free"} /\ UNCHANGED minted

Rollback(c, answer) == Done(c, answer) /\ conn' = "free" /\ UNCHANGED <<row, log>>

ReadStatus(c) ==
  /\ InTx(c, "tx", "cancel")
  /\ LET status == row[call[c].req.sub].status
     IN IF status \in {"queued", "waiting", "running"}
        THEN /\ call' = [call EXCEPT ![c].pc = "write", ![c].status = status]
             /\ UNCHANGED <<row, log, conn>>
        ELSE Rollback(c, Answer("lost", <<>>))

(* The UPDATE names the id alone: it relies on the status read. *)
Decide(c) ==
  /\ InTx(c, "write", "cancel")
  /\ LET r == row[call[c].req.sub]
     IN call' = [call EXCEPT ![c].pc = "commit",
                             ![c].staged = IF call[c].status = "running" THEN <<[r EXCEPT !.flag = TRUE]>>
                                           ELSE <<[r EXCEPT !.status = "settled", !.resume = FALSE]>>]
  /\ UNCHANGED <<row, log, conn>>

CommitCancel(c) ==
  /\ InTx(c, "commit", "cancel")
  /\ Write(call[c].req.sub, call[c].staged[1])
  /\ Done(c, Answer("ok", <<call[c].status>>))
  /\ conn' = "free"
  /\ UNCHANGED log

(* One INSERT per record; an id already there fails it, and the batch. *)
InsertRecord(c) ==
  /\ InTx(c, "tx", "append")
  /\ LET staged == call[c].staged
         recs == call[c].req.recs
         id == recs[Len(staged) + 1]
     IN IF \E i \in 1 .. Len(log \o staged) : (log \o staged)[i] = id
        THEN Rollback(c, Error)
        ELSE /\ call' = [call EXCEPT ![c].staged = Append(staged, id),
                                     ![c].pc = IF Len(staged) + 1 = Len(recs) THEN "commit"
                                               ELSE "tx"]
             /\ UNCHANGED <<row, log, conn>>

CommitAppend(c) ==
  /\ InTx(c, "commit", "append")
  /\ log' = log \o call[c].staged
  /\ Done(c, Answer("ok", <<>>))
  /\ conn' = "free"
  /\ UNCHANGED row

----------------------------------------------------------------------------
(* A statement fails: the call returns the error, and a transaction is rolled
   back.  What the call's earlier statements wrote on their own stays. *)
StatementFails(c) ==
  /\ call[c].pc \notin {"idle", "done"}
  /\ conn \in {"free", c}
  /\ conn' = "free"
  /\ Done(c, Error)
  /\ UNCHANGED <<row, log, minted>>

Return(c) ==
  /\ call[c].pc = "done"
  /\ call' = [call EXCEPT ![c] = Idle]
  /\ UNCHANGED <<row, log, conn, minted>>

Next ==
  \E c \in Clients :
    \/ InvokeCall(c)
    \/ Insert(c) \/ RereadAdmitted(c)
    \/ ReadMark(c) \/ UpdateClaimed(c) \/ RereadClaimed(c)
    \/ UpdateCas(c)
    \/ Begin(c) \/ ReadStatus(c) \/ Decide(c) \/ CommitCancel(c)
    \/ InsertRecord(c) \/ CommitAppend(c)
    \/ StatementFails(c) \/ Return(c)

Spec == Init /\ [][Next]_vars

----------------------------------------------------------------------------
(* Types; and a resume mark is on parked, requeued or cancelled rows only:
   no claimed row carries one into its next claim. *)
TypeOK ==
  /\ row \in [Subs -> [status : {"absent", "queued", "running", "waiting", "terminalizing", "settled"},
                       attempt : 0 .. MaxClaims, count : 0 .. MaxClaims, resume : BOOLEAN,
                       flag : BOOLEAN, input : Inputs \cup {"none"}]]
  /\ minted \in 0 .. MaxClaims
  /\ conn \in Clients \cup {"free"}
  /\ conn # "free" => call[conn].req.op \in TxOps /\ call[conn].pc \in {"tx", "write", "commit"}
  /\ \A s \in Subs : row[s].resume => row[s].status \in {"waiting", "queued"}

(* Every call takes effect at one moment, on the state it is told of, whatever
   the statements of the other calls do in between: the pool of one connection
   and the transaction of CancelSubmission make the adapter the store of the
   contract.  An append is all or nothing. *)
ImplementsContract == Contract!Spec
=============================================================================
