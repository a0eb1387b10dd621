---------------------------- MODULE SqliteProofs ----------------------------
(***************************************************************************)
(* Theorems about SqliteStore, for every number of submissions, clients,   *)
(* inputs, batches and claims: its types, its inductive invariant, and     *)
(* that it implements StoreContract: each statement is the moment of its   *)
(* call, or no step of the contract at all.                                *)
(***************************************************************************)
EXTENDS SqliteInvariant, TLAPS

USE LoopClient, ClaimsBounded, FreeIsNobody

----------------------------------------------------------------------------
(* The locals of a call, field by field. *)

LEMMA Fields ==
  ASSUME NEW p, NEW q, NEW sw, NEW st, NEW sg, NEW du, NEW an
  PROVE  LET u == Local(p, q, sw, st, sg, du, an)
         IN /\ u.pc = p /\ u.req = q /\ u.saw = sw /\ u.status = st /\ u.staged = sg
            /\ u.due = du /\ u.answer = an
  BY DEF Local

(* Client c goes on with the locals v, and the others keep theirs. *)
Becomes(c, v) == call' = [d \in Clients |-> IF d = c THEN v ELSE call[d]]

(* A step changes the locals of one client, field by field. *)
LEMMA Moves ==
  ASSUME Shape, NEW c \in Clients, NEW x, NEW y, NEW z
  PROVE  LET u == call[c]
         IN /\ call' = [call EXCEPT ![c].pc = x] =>
                 Becomes(c, Local(x, u.req, u.saw, u.status, u.staged, u.due, u.answer))
            /\ call' = [call EXCEPT ![c].pc = x, ![c].req = y] =>
                 Becomes(c, Local(x, y, u.saw, u.status, u.staged, u.due, u.answer))
            /\ call' = [call EXCEPT ![c].pc = x, ![c].answer = y] =>
                 Becomes(c, Local(x, u.req, u.saw, u.status, u.staged, u.due, y))
            /\ call' = [call EXCEPT ![c].pc = x, ![c].saw = y] =>
                 Becomes(c, Local(x, u.req, y, u.status, u.staged, u.due, u.answer))
            /\ call' = [call EXCEPT ![c].pc = x, ![c].saw = y, ![c].due = z] =>
                 Becomes(c, Local(x, u.req, y, u.status, u.staged, z, u.answer))
            /\ call' = [call EXCEPT ![c].pc = x, ![c].due = y] =>
                 Becomes(c, Local(x, u.req, u.saw, u.status, u.staged, y, u.answer))
            /\ call' = [call EXCEPT ![c].pc = x, ![c].status = y] =>
                 Becomes(c, Local(x, u.req, u.saw, y, u.staged, u.due, u.answer))
            /\ call' = [call EXCEPT ![c].pc = x, ![c].staged = y] =>
                 Becomes(c, Local(x, u.req, u.saw, u.status, y, u.due, u.answer))
            /\ call' = [call EXCEPT ![c].staged = y, ![c].pc = x] =>
                 Becomes(c, Local(x, u.req, u.saw, u.status, y, u.due, u.answer))
            /\ call' = [call EXCEPT ![c] = Idle] => Becomes(c, Idle)
  <1> DEFINE u == call[c]
             v == [u EXCEPT !.pc = x]
             w == [v EXCEPT !.saw = y]
             t == [u EXCEPT !.staged = y]
  <1>1. /\ u = Local(u.pc, u.req, u.saw, u.status, u.staged, u.due, u.answer)
        /\ call = [d \in Clients |-> call[d]]
    BY DEF Shape
  <1>2. ASSUME NEW r, call' = [call EXCEPT ![c] = r]
        PROVE  Becomes(c, r)
    BY <1>1, <1>2 DEF Becomes
  <1>3. [call EXCEPT ![c].pc = x] = [call EXCEPT ![c] = [u EXCEPT !.pc = x]]
    OBVIOUS
  <1>4. [call EXCEPT ![c].pc = x, ![c].req = y] = [call EXCEPT ![c] = [v EXCEPT !.req = y]]
    OBVIOUS
  <1>5. [call EXCEPT ![c].pc = x, ![c].answer = y] = [call EXCEPT ![c] = [v EXCEPT !.answer = y]]
    OBVIOUS
  <1>6. [call EXCEPT ![c].pc = x, ![c].saw = y] = [call EXCEPT ![c] = [v EXCEPT !.saw = y]]
    OBVIOUS
  <1>7. [call EXCEPT ![c].pc = x, ![c].due = y] = [call EXCEPT ![c] = [v EXCEPT !.due = y]]
    OBVIOUS
  <1>8. [call EXCEPT ![c].pc = x, ![c].status = y] = [call EXCEPT ![c] = [v EXCEPT !.status = y]]
    OBVIOUS
  <1>9. [call EXCEPT ![c].pc = x, ![c].staged = y] = [call EXCEPT ![c] = [v EXCEPT !.staged = y]]
    OBVIOUS
  <1>10. [call EXCEPT ![c].staged = y, ![c].pc = x] = [call EXCEPT ![c] = [t EXCEPT !.pc = x]]
    OBVIOUS
  <1>11. [call EXCEPT ![c].pc = x, ![c].saw = y, ![c].due = z] = [call EXCEPT ![c] = [w EXCEPT !.due = z]]
    OBVIOUS
  <1> HIDE DEF u
  <1>12. v = Local(x, u.req, u.saw, u.status, u.staged, u.due, u.answer)
    BY <1>1 DEF Local
  <1>13. t = Local(u.pc, u.req, u.saw, u.status, y, u.due, u.answer)
    BY <1>1 DEF Local
  <1> HIDE DEF v, t
  <1>14. w = Local(x, u.req, y, u.status, u.staged, u.due, u.answer)
    BY <1>12 DEF Local
  <1> HIDE DEF w
  <1>15. [u EXCEPT !.pc = x] = Local(x, u.req, u.saw, u.status, u.staged, u.due, u.answer)
    BY <1>1 DEF Local
  <1>16. [v EXCEPT !.req = y] = Local(x, y, u.saw, u.status, u.staged, u.due, u.answer)
    BY <1>12 DEF Local
  <1>17. [v EXCEPT !.answer = y] = Local(x, u.req, u.saw, u.status, u.staged, u.due, y)
    BY <1>12 DEF Local
  <1>18. [v EXCEPT !.saw = y] = Local(x, u.req, y, u.status, u.staged, u.due, u.answer)
    BY <1>12 DEF Local
  <1>19. [v EXCEPT !.due = y] = Local(x, u.req, u.saw, u.status, u.staged, y, u.answer)
    BY <1>12 DEF Local
  <1>20. [v EXCEPT !.status = y] = Local(x, u.req, u.saw, y, u.staged, u.due, u.answer)
    BY <1>12 DEF Local
  <1>21. [v EXCEPT !.staged = y] = Local(x, u.req, u.saw, u.status, y, u.due, u.answer)
    BY <1>12 DEF Local
  <1>22. [t EXCEPT !.pc = x] = Local(x, u.req, u.saw, u.status, y, u.due, u.answer)
    BY <1>13 DEF Local
  <1>23. [w EXCEPT !.due = z] = Local(x, u.req, y, u.status, u.staged, z, u.answer)
    BY <1>14 DEF Local
  <1>24. call' = [call EXCEPT ![c].pc = x] =>
           Becomes(c, Local(x, u.req, u.saw, u.status, u.staged, u.due, u.answer))
    BY <1>2, <1>3, <1>15, Zenon
  <1>25. call' = [call EXCEPT ![c].pc = x, ![c].req = y] =>
           Becomes(c, Local(x, y, u.saw, u.status, u.staged, u.due, u.answer))
    BY <1>2, <1>4, <1>16, Zenon
  <1>26. call' = [call EXCEPT ![c].pc = x, ![c].answer = y] =>
           Becomes(c, Local(x, u.req, u.saw, u.status, u.staged, u.due, y))
    BY <1>2, <1>5, <1>17, Zenon
  <1>27. call' = [call EXCEPT ![c].pc = x, ![c].saw = y] =>
           Becomes(c, Local(x, u.req, y, u.status, u.staged, u.due, u.answer))
    BY <1>2, <1>6, <1>18, Zenon
  <1>28. call' = [call EXCEPT ![c].pc = x, ![c].due = y] =>
           Becomes(c, Local(x, u.req, u.saw, u.status, u.staged, y, u.answer))
    BY <1>2, <1>7, <1>19, Zenon
  <1>29. call' = [call EXCEPT ![c].pc = x, ![c].status = y] =>
           Becomes(c, Local(x, u.req, u.saw, y, u.staged, u.due, u.answer))
    BY <1>2, <1>8, <1>20, Zenon
  <1>30. call' = [call EXCEPT ![c].pc = x, ![c].staged = y] =>
           Becomes(c, Local(x, u.req, u.saw, u.status, y, u.due, u.answer))
    BY <1>2, <1>9, <1>21, Zenon
  <1>31. call' = [call EXCEPT ![c].staged = y, ![c].pc = x] =>
           Becomes(c, Local(x, u.req, u.saw, u.status, y, u.due, u.answer))
    BY <1>2, <1>10, <1>22, Zenon
  <1>32. call' = [call EXCEPT ![c].pc = x, ![c].saw = y, ![c].due = z] =>
           Becomes(c, Local(x, u.req, y, u.status, u.staged, z, u.answer))
    BY <1>2, <1>11, <1>23, Zenon
  <1> QED
    BY <1>2, <1>24, <1>25, <1>26, <1>27, <1>28, <1>29, <1>30, <1>31, <1>32, Zenon DEF u

----------------------------------------------------------------------------
(* Requests, and what each step does. *)

LEMMA RequestKinds ==
  ASSUME NEW q \in Contract!Requests
  PROVE  /\ q.sub \in Subs /\ q.attempt \in 0 .. MaxClaims
         /\ q.op \in {"admit", "claim", "append", "cancel"} \cup CasOps
         /\ q.op \in {"admit", "append", "cancel"} => q.attempt = 0
         /\ q.op = "claim" => q.attempt # 0
         /\ q.op = "append" => q.recs \in Batches
  BY DEF Contract!Requests, Contract!Req, CasOps

(* Client c, in no call, starts the call q at its statement p. *)
Starts(c, q, p) ==
  /\ call[c].pc = "idle" /\ q \in Contract!Requests
  /\ Becomes(c, Local(p, q, FALSE, "absent", <<>>, NoAnswer, NoAnswer))
  /\ UNCHANGED <<row, log, conn>>

(* Client c, at p in a call of one of ops, runs a statement on its own. *)
Runs(c, p, ops) == call[c].pc = p /\ call[c].req.op \in ops /\ conn = "free" /\ conn' = conn

(* Client c, in a transaction, is at p in the call op. *)
Inside(c, p, op) == call[c].pc = p /\ call[c].req.op = op /\ conn \in {c, "free"} /\ minted' = minted

StartAdmit(c, q) == q.op = "admit" /\ Starts(c, q, "insert") /\ minted' = minted

StartClaim(c, q) ==
  /\ c = Loop /\ minted < MaxClaims /\ minted' = minted + 1
  /\ q.op = "claim" /\ q.attempt = minted + 1 /\ row[q.sub].status = "queued"
  /\ Starts(c, q, "read")

StartCas(c, q) ==
  /\ q.op \in CasOps /\ Known(q.sub) /\ q.attempt \in Learned \cup {0}
  /\ Starts(c, q, "update") /\ minted' = minted

StartTx(c, q) ==
  /\ q.op \in TxOps /\ (q.op = "cancel" => Known(q.sub))
  /\ Starts(c, q, "begin") /\ minted' = minted

LEMMA Started ==
  ASSUME Invariant, NEW c \in Clients, InvokeCall(c)
  PROVE  \E q \in Contract!Requests :
           StartAdmit(c, q) \/ StartClaim(c, q) \/ StartCas(c, q) \/ StartTx(c, q)
  <1> DEFINE u == call[c]
  <1>1. u.pc = "idle" => u = Idle
    BY DEF Invariant, Requested, At, TxOps
  <1>2. /\ Idle.saw = FALSE /\ Idle.status = "absent" /\ Idle.staged = <<>>
        /\ Idle.due = NoAnswer /\ Idle.answer = NoAnswer
    BY DEF Idle
  <1>3. ASSUME NEW q \in Contract!Requests, NEW p, Invoke(c, q, p)
        PROVE  Starts(c, q, p)
    <2>1. /\ call[c].pc = "idle" /\ UNCHANGED <<row, log, conn>>
          /\ call' = [call EXCEPT ![c].pc = p, ![c].req = q]
      BY <1>3, Zenon DEF Invoke
    <2>2. Becomes(c, Local(p, q, u.saw, u.status, u.staged, u.due, u.answer))
      BY <2>1, Moves, Zenon DEF Invariant
    <2>3. Becomes(c, Local(p, q, FALSE, "absent", <<>>, NoAnswer, NoAnswer))
      BY <1>1, <1>2, <2>1, <2>2, Zenon
    <2> QED
      BY <2>1, <2>3, Zenon DEF Starts
  <1>4. CASE \E q \in {r \in Contract!Requests : r.op = "admit"} : Invoke(c, q, "insert") /\ UNCHANGED minted
    BY <1>3, <1>4, Zenon DEF StartAdmit
  <1>5. CASE /\ c = Loop /\ minted < MaxClaims
             /\ \E s \in {t \in Subs : row[t].status = "queued"} :
                  Invoke(c, Contract!Req("claim", s, minted + 1, "none", <<>>), "read")
             /\ minted' = minted + 1
    <2>1. PICK s \in Subs :
            /\ row[s].status = "queued"
            /\ Invoke(c, Contract!Req("claim", s, minted + 1, "none", <<>>), "read")
      BY <1>5, Zenon
    <2> DEFINE q == Contract!Req("claim", s, minted + 1, "none", <<>>)
    <2>2. minted + 1 \in 1 .. MaxClaims
      BY <1>5 DEF Invariant, RowsFit
    <2>3. q \in Contract!Requests
      BY <2>2 DEF Contract!Requests
    <2>4. q.op = "claim" /\ q.attempt = minted + 1 /\ q.sub = s
      BY DEF Contract!Req
    <2> QED
      BY <1>3, <1>5, <2>1, <2>3, <2>4, Zenon DEF StartClaim
  <1>6. CASE /\ \E q \in {r \in Contract!Requests : r.op \in CasOps /\ Known(r.sub)
                                                     /\ r.attempt \in Learned \cup {0}} :
                  Invoke(c, q, "update")
             /\ UNCHANGED minted
    BY <1>3, <1>6, Zenon DEF StartCas
  <1>7. CASE /\ \E q \in {r \in Contract!Requests :
                            r.op = "append" \/ (r.op = "cancel" /\ Known(r.sub))} :
                  Invoke(c, q, "begin")
             /\ UNCHANGED minted
    <2>1. PICK q \in Contract!Requests :
            /\ q.op = "append" \/ (q.op = "cancel" /\ Known(q.sub))
            /\ Invoke(c, q, "begin")
      BY <1>7, Zenon
    <2>2. q.op \in TxOps /\ (q.op = "cancel" => Known(q.sub))
      BY <2>1 DEF TxOps
    <2> QED
      BY <1>3, <1>7, <2>1, <2>2, Zenon DEF StartTx
  <1> QED
    BY <1>4, <1>5, <1>6, <1>7, Zenon DEF InvokeCall

(* The locals of c after a step, when only its pc, saw and due, or pc and
   answer, or status, or staged, change. *)
Now(c, p, saw, due) ==
  Becomes(c, Local(p, call[c].req, saw, call[c].status, call[c].staged, due, call[c].answer))

Ends(c, answer) ==
  Becomes(c, Local("done", call[c].req, call[c].saw, call[c].status, call[c].staged,
                   call[c].due, answer))

Stages(c, p, status, staged) ==
  Becomes(c, Local(p, call[c].req, call[c].saw, status, staged, call[c].due, call[c].answer))

LEMMA Ended ==
  ASSUME Invariant, NEW c \in Clients, NEW answer, Done(c, answer)
  PROVE  Ends(c, answer)
  BY Moves, Zenon DEF Invariant, Done, Ends

DoesInsert(c) ==
  LET q == call[c].req
      r == IF Known(q.sub) THEN row[q.sub] ELSE Contract!Admitted(q.input)
  IN /\ Runs(c, "insert", {"admit"})
     /\ row' = [row EXCEPT ![q.sub] = r]
     /\ Now(c, "reread", Known(q.sub), IF r.input = q.input THEN Answer("ok", <<q.input>>)
                                       ELSE Answer("conflict", <<>>))
     /\ UNCHANGED <<log, minted>>

DoesRereadAdmitted(c) ==
  LET q == call[c].req
      r == row[q.sub]
  IN /\ Runs(c, "reread", {"admit"})
     /\ Ends(c, IF call[c].saw /\ r.input # q.input THEN Answer("conflict", <<>>)
                ELSE Answer("ok", <<r.input>>))
     /\ UNCHANGED <<row, log, minted>>

DoesReadMark(c) ==
  /\ Runs(c, "read", {"claim"})
  /\ Now(c, "update", row[call[c].req.sub].resume, call[c].due)
  /\ UNCHANGED <<row, log, minted>>

DoesUpdateClaimed(c) ==
  LET q == call[c].req
      r == row[q.sub]
      n == Claimed(r, q.attempt)
  IN /\ Runs(c, "update", {"claim"})
     /\ \/ /\ r.status = "queued" /\ row' = [row EXCEPT ![q.sub] = n]
           /\ Now(c, "reread", call[c].saw, Answer("ok", <<n.attempt, n.count, r.resume>>))
        \/ r.status # "queued" /\ row' = row /\ Ends(c, Answer("lost", <<>>))
     /\ UNCHANGED <<log, minted>>

DoesRereadClaimed(c) ==
  LET r == row[call[c].req.sub]
  IN /\ Runs(c, "reread", {"claim"})
     /\ Ends(c, Answer("ok", <<r.attempt, r.count, call[c].saw>>))
     /\ UNCHANGED <<row, log, minted>>

DoesUpdateCas(c) ==
  LET q == call[c].req
  IN /\ Runs(c, "update", CasOps)
     /\ \/ Applies(q) /\ row' = [row EXCEPT ![q.sub] = Set(q)] /\ Ends(c, Answer("ok", <<>>))
        \/ ~ Applies(q) /\ row' = row /\ Ends(c, Answer("lost", <<>>))
     /\ UNCHANGED <<log, minted>>

LEMMA Statements ==
  ASSUME Invariant, NEW c \in Clients
  PROVE  /\ Insert(c) => DoesInsert(c)
         /\ RereadAdmitted(c) => DoesRereadAdmitted(c)
         /\ ReadMark(c) => DoesReadMark(c)
         /\ UpdateClaimed(c) => DoesUpdateClaimed(c)
         /\ RereadClaimed(c) => DoesRereadClaimed(c)
         /\ UpdateCas(c) => DoesUpdateCas(c)
  <1>1. Insert(c) => DoesInsert(c)
    <2> SUFFICES ASSUME Insert(c) PROVE DoesInsert(c)
      OBVIOUS
    <2> DEFINE q == call[c].req
               r == IF Known(q.sub) THEN row[q.sub] ELSE Contract!Admitted(q.input)
               due == IF r.input = q.input THEN Answer("ok", <<q.input>>)
                      ELSE Answer("conflict", <<>>)
    <2>1. call' = [call EXCEPT ![c].pc = "reread", ![c].saw = Known(q.sub), ![c].due = due]
      BY Zenon DEF Insert
    <2>2. Now(c, "reread", Known(q.sub), due)
      BY <2>1, Moves, Zenon DEF Invariant, Now
    <2> QED
      BY <2>2, Zenon DEF Insert, DoesInsert, Statement, At, Runs, Write
  <1>2. RereadAdmitted(c) => DoesRereadAdmitted(c)
    BY Ended, Zenon DEF RereadAdmitted, DoesRereadAdmitted, Statement, At, Runs
  <1>3. ReadMark(c) => DoesReadMark(c)
    <2> SUFFICES ASSUME ReadMark(c) PROVE DoesReadMark(c)
      OBVIOUS
    <2>1. call' = [call EXCEPT ![c].pc = "update", ![c].saw = row[call[c].req.sub].resume]
      BY Zenon DEF ReadMark
    <2>2. Now(c, "update", row[call[c].req.sub].resume, call[c].due)
      BY <2>1, Moves, Zenon DEF Invariant, Now
    <2> QED
      BY <2>2, Zenon DEF ReadMark, DoesReadMark, Statement, At, Runs
  <1>4. UpdateClaimed(c) => DoesUpdateClaimed(c)
    <2> SUFFICES ASSUME UpdateClaimed(c) PROVE DoesUpdateClaimed(c)
      OBVIOUS
    <2> DEFINE q == call[c].req
               r == row[q.sub]
               n == Claimed(r, q.attempt)
               due == Answer("ok", <<n.attempt, n.count, r.resume>>)
    <2>1. CASE r.status = "queued"
      <3>1. call' = [call EXCEPT ![c].pc = "reread", ![c].due = due]
        BY <2>1, Zenon DEF UpdateClaimed
      <3>2. Now(c, "reread", call[c].saw, due)
        BY <3>1, Moves, Zenon DEF Invariant, Now
      <3> QED
        BY <2>1, <3>2, Zenon DEF UpdateClaimed, DoesUpdateClaimed, Statement, At, Runs, Write
    <2>2. CASE r.status # "queued"
      BY <2>2, Ended, Zenon DEF UpdateClaimed, DoesUpdateClaimed, Statement, At, Runs
    <2> QED
      BY <2>1, <2>2, Zenon
  <1>5. RereadClaimed(c) => DoesRereadClaimed(c)
    BY Ended, Zenon DEF RereadClaimed, DoesRereadClaimed, Statement, At, Runs
  <1>6. UpdateCas(c) => DoesUpdateCas(c)
    BY Ended, Zenon DEF UpdateCas, DoesUpdateCas, Statement, At, Runs, Write
  <1> QED
    BY <1>1, <1>2, <1>3, <1>4, <1>5, <1>6, Zenon

DoesBegin(c) ==
  /\ call[c].pc = "begin" /\ call[c].req.op \in TxOps /\ conn = "free" /\ conn' = c
  /\ Now(c, "tx", call[c].saw, call[c].due)
  /\ UNCHANGED <<row, log, minted>>

DoesReadStatus(c) ==
  LET status == row[call[c].req.sub].status
  IN /\ Inside(c, "tx", "cancel")
     /\ \/ /\ status \in {"queued", "waiting", "running"}
           /\ Stages(c, "write", status, call[c].staged) /\ conn' = conn
        \/ /\ status \notin {"queued", "waiting", "running"}
           /\ Ends(c, Answer("lost", <<>>)) /\ conn' = "free"
     /\ UNCHANGED <<row, log>>

DoesDecide(c) ==
  LET r == row[call[c].req.sub]
  IN /\ Inside(c, "write", "cancel")
     /\ Stages(c, "commit", call[c].status,
               IF call[c].status = "running" THEN <<[r EXCEPT !.flag = TRUE]>>
               ELSE <<[r EXCEPT !.status = "settled", !.resume = FALSE]>>)
     /\ UNCHANGED <<row, log, conn>>

DoesCommitCancel(c) ==
  /\ Inside(c, "commit", "cancel")
  /\ row' = [row EXCEPT ![call[c].req.sub] = call[c].staged[1]]
  /\ Ends(c, Answer("ok", <<call[c].status>>))
  /\ conn' = "free" /\ log' = log

DoesInsertRecord(c) ==
  LET staged == call[c].staged
      recs == call[c].req.recs
      id == recs[Len(staged) + 1]
  IN /\ Inside(c, "tx", "append")
     /\ \/ /\ \E i \in 1 .. Len(log \o staged) : (log \o staged)[i] = id
           /\ Ends(c, Error) /\ conn' = "free"
        \/ /\ \A i \in 1 .. Len(log \o staged) : (log \o staged)[i] # id
           /\ Stages(c, IF Len(staged) + 1 = Len(recs) THEN "commit" ELSE "tx",
                     call[c].status, Append(staged, id))
           /\ conn' = conn
     /\ UNCHANGED <<row, log>>

DoesCommitAppend(c) ==
  /\ Inside(c, "commit", "append")
  /\ log' = log \o call[c].staged
  /\ Ends(c, Answer("ok", <<>>))
  /\ conn' = "free" /\ row' = row

LEMMA Transactions ==
  ASSUME Invariant, NEW c \in Clients
  PROVE  /\ Begin(c) => DoesBegin(c)
         /\ ReadStatus(c) => DoesReadStatus(c)
         /\ Decide(c) => DoesDecide(c)
         /\ CommitCancel(c) => DoesCommitCancel(c)
         /\ InsertRecord(c) => DoesInsertRecord(c)
         /\ CommitAppend(c) => DoesCommitAppend(c)
  <1>1. Begin(c) => DoesBegin(c)
    <2>1. Goto(c, "tx") => Now(c, "tx", call[c].saw, call[c].due)
      BY Moves, Zenon DEF Invariant, Goto, Now
    <2> QED
      BY <2>1, Zenon DEF Begin, DoesBegin, At
  <1>2. ReadStatus(c) => DoesReadStatus(c)
    <2> SUFFICES ASSUME ReadStatus(c) PROVE DoesReadStatus(c)
      OBVIOUS
    <2> DEFINE status == row[call[c].req.sub].status
    <2>0. Inside(c, "tx", "cancel")
      BY Zenon DEF ReadStatus, InTx, At, Inside
    <2>1. CASE status \in {"queued", "waiting", "running"}
      <3>1. /\ call' = [call EXCEPT ![c].pc = "write", ![c].status = status]
            /\ UNCHANGED <<row, log, conn>>
        BY <2>1, Zenon DEF ReadStatus
      <3>2. Stages(c, "write", status, call[c].staged)
        BY <3>1, Moves, Zenon DEF Invariant, Stages
      <3> QED
        BY <2>0, <2>1, <3>1, <3>2, Zenon DEF DoesReadStatus
    <2>2. CASE status \notin {"queued", "waiting", "running"}
      BY <2>0, <2>2, Ended, Zenon DEF ReadStatus, DoesReadStatus, Rollback
    <2> QED
      BY <2>1, <2>2, Zenon
  <1>3. Decide(c) => DoesDecide(c)
    <2> SUFFICES ASSUME Decide(c) PROVE DoesDecide(c)
      OBVIOUS
    <2> DEFINE r == row[call[c].req.sub]
               staged == IF call[c].status = "running" THEN <<[r EXCEPT !.flag = TRUE]>>
                         ELSE <<[r EXCEPT !.status = "settled", !.resume = FALSE]>>
    <2>1. call' = [call EXCEPT ![c].pc = "commit", ![c].staged = staged]
      BY Zenon DEF Decide
    <2>2. Stages(c, "commit", call[c].status, staged)
      BY <2>1, Moves, Zenon DEF Invariant, Stages
    <2> QED
      BY <2>2, Zenon DEF Decide, DoesDecide, InTx, At, Inside
  <1>4. CommitCancel(c) => DoesCommitCancel(c)
    BY Ended, Zenon DEF CommitCancel, DoesCommitCancel, InTx, At, Inside, Write
  <1>5. InsertRecord(c) => DoesInsertRecord(c)
    <2> SUFFICES ASSUME InsertRecord(c) PROVE DoesInsertRecord(c)
      OBVIOUS
    <2> DEFINE staged == call[c].staged
               recs == call[c].req.recs
               id == recs[Len(staged) + 1]
               p == IF Len(staged) + 1 = Len(recs) THEN "commit" ELSE "tx"
    <2>0. Inside(c, "tx", "append")
      BY Zenon DEF InsertRecord, InTx, At, Inside
    <2>1. CASE \E i \in 1 .. Len(log \o staged) : (log \o staged)[i] = id
      BY <2>0, <2>1, Ended, Zenon DEF InsertRecord, DoesInsertRecord, Rollback
    <2>2. CASE \A i \in 1 .. Len(log \o staged) : (log \o staged)[i] # id
      <3>1. /\ call' = [call EXCEPT ![c].staged = Append(staged, id), ![c].pc = p]
            /\ UNCHANGED <<row, log, conn>>
        BY <2>2, Zenon DEF InsertRecord
      <3>2. Stages(c, p, call[c].status, Append(staged, id))
        BY <3>1, Moves, Zenon DEF Invariant, Stages
      <3> QED
        BY <2>0, <2>2, <3>1, <3>2, Zenon DEF DoesInsertRecord
    <2> QED
      BY <2>1, <2>2, Zenon
  <1>6. CommitAppend(c) => DoesCommitAppend(c)
    BY Ended, Zenon DEF CommitAppend, DoesCommitAppend, InTx, At, Inside
  <1> QED
    BY <1>1, <1>2, <1>3, <1>4, <1>5, <1>6, Zenon

DoesFail(c) ==
  /\ call[c].pc \notin {"idle", "done"} /\ conn \in {"free", c} /\ conn' = "free"
  /\ Ends(c, Error)
  /\ UNCHANGED <<row, log, minted>>

DoesReturn(c) == call[c].pc = "done" /\ Becomes(c, Idle) /\ UNCHANGED <<row, log, conn, minted>>

(* The steps of a client that leave the tables, the connection and the ids
   alone, or only decide what its transaction will do. *)
Step(c) ==
  \/ \E q \in Contract!Requests :
       StartAdmit(c, q) \/ StartClaim(c, q) \/ StartCas(c, q) \/ StartTx(c, q)
  \/ DoesInsert(c) \/ DoesRereadAdmitted(c) \/ DoesReadMark(c)
  \/ DoesUpdateClaimed(c) \/ DoesRereadClaimed(c) \/ DoesUpdateCas(c)
  \/ DoesBegin(c) \/ DoesReadStatus(c) \/ DoesDecide(c) \/ DoesCommitCancel(c)
  \/ DoesInsertRecord(c) \/ DoesCommitAppend(c) \/ DoesFail(c) \/ DoesReturn(c)

LEMMA Steps ==
  ASSUME Invariant, [Next]_vars
  PROVE  (\E c \in Clients : Step(c)) \/ UNCHANGED vars
  <1>1. ASSUME NEW c \in Clients, StatementFails(c)
        PROVE  DoesFail(c)
    BY <1>1, Ended, Zenon DEF StatementFails, DoesFail
  <1>2. ASSUME NEW c \in Clients, Return(c)
        PROVE  DoesReturn(c)
    <2>1. call' = [call EXCEPT ![c] = Idle]
      BY <1>2, Zenon DEF Return
    <2>2. Becomes(c, Idle)
      BY <2>1, Moves, Zenon DEF Invariant
    <2> QED
      BY <1>2, <2>2, Zenon DEF Return, DoesReturn
  <1>3. CASE Next
    <2>1. PICK c \in Clients :
            \/ InvokeCall(c)
            \/ Insert(c) \/ RereadAdmitted(c)
            \/ ReadMark(c) \/ UpdateClaimed(c) \/ RereadClaimed(c)
            \/ UpdateCas(c)
            \/ Begin(c) \/ ReadStatus(c) \/ Decide(c) \/ CommitCancel(c)
            \/ InsertRecord(c) \/ CommitAppend(c)
            \/ StatementFails(c) \/ Return(c)
      BY <1>3, Zenon DEF Next
    <2> QED
      BY <1>1, <1>2, <2>1, Started, Statements, Transactions, Zenon DEF Step
  <1> QED
    BY <1>3, Zenon

----------------------------------------------------------------------------
(* What the writes make of a row. *)

LEMMA AdmittedRow ==
  ASSUME NEW i \in Inputs
  PROVE  LET v == Contract!Admitted(i)
         IN /\ v \in Rows /\ v.status = "queued" /\ v.attempt = 0 /\ v.count = 0
            /\ v.resume = FALSE /\ v.input = i
  <1> DEFINE u == Contract!Absent
             w == [u EXCEPT !.status = "queued"]
             v == [w EXCEPT !.input = i]
  <1>1. u \in Rows /\ u.attempt = 0 /\ u.count = 0 /\ u.resume = FALSE
    BY DEF Contract!Absent, Rows, Statuses
  <1>2. Contract!Admitted(i) = v
    BY DEF Contract!Admitted
  <1> HIDE DEF u
  <1>3. w \in Rows /\ w.status = "queued" /\ w.attempt = 0 /\ w.count = 0 /\ w.resume = FALSE
    BY <1>1 DEF Rows, Statuses
  <1> HIDE DEF w
  <1>4. /\ v \in Rows /\ v.status = "queued" /\ v.attempt = 0 /\ v.count = 0
        /\ v.resume = FALSE /\ v.input = i
    BY <1>3 DEF Rows
  <1> QED
    BY <1>2, <1>4, Zenon

LEMMA ClaimedRow ==
  ASSUME NEW r \in Rows, NEW a \in 0 .. MaxClaims, r.count < MaxClaims
  PROVE  LET v == Claimed(r, a)
         IN /\ v \in Rows /\ v.status = "running" /\ v.attempt = a
            /\ v.count = (IF r.resume THEN r.count ELSE r.count + 1)
            /\ v.resume = FALSE /\ v.flag = r.flag /\ v.input = r.input
  <1> DEFINE n == IF r.resume THEN r.count ELSE r.count + 1
             u == [r EXCEPT !.status = "running"]
             w == [u EXCEPT !.attempt = a]
             x == [w EXCEPT !.count = n]
             v == [x EXCEPT !.resume = FALSE]
  <1>1. Claimed(r, a) = v
    BY DEF Claimed, Rows
  <1>2. n \in 0 .. MaxClaims
    BY DEF Rows
  <1>3. /\ u \in Rows /\ u.status = "running" /\ u.flag = r.flag /\ u.input = r.input
    BY DEF Rows, Statuses
  <1> HIDE DEF n, u
  <1>4. /\ w \in Rows /\ w.status = "running" /\ w.attempt = a /\ w.flag = r.flag
        /\ w.input = r.input
    BY <1>3 DEF Rows
  <1> HIDE DEF w
  <1>5. /\ x \in Rows /\ x.status = "running" /\ x.attempt = a /\ x.count = n
        /\ x.flag = r.flag /\ x.input = r.input
    BY <1>2, <1>4 DEF Rows
  <1> HIDE DEF x
  <1>6. /\ v \in Rows /\ v.status = "running" /\ v.attempt = a /\ v.count = n
        /\ v.resume = FALSE /\ v.flag = r.flag /\ v.input = r.input
    BY <1>5 DEF Rows
  <1> QED
    BY <1>1, <1>6, Zenon DEF n

(* The row v that a client leaves of the row r, at its request q, when it
   neither admits nor claims it. *)
Kept(q, r, v) ==
  /\ r.status # "absent" /\ v.status # "absent"
  /\ v.input = r.input /\ v.count = r.count /\ v.attempt \in {0, r.attempt}
  /\ v.resume => v.status \in {"waiting", "queued"}
  /\ v.status = "running" => r.status = "running" /\ v.attempt = r.attempt
  /\ r.status = "queued" => v.status = "settled" \/ (v.status = "queued" /\ v.resume = r.resume)
  /\ r.status = "settled" => v.status = "settled"
  /\ r.status = "running" =>
       \/ v.status = "running" /\ v.attempt = r.attempt
       \/ q.op \in CasOps /\ q.attempt = r.attempt

LEMMA SetRow ==
  ASSUME NEW q \in Contract!Requests, q.op \in CasOps, row[q.sub] \in Rows, Applies(q),
         row[q.sub].resume => row[q.sub].status \in {"waiting", "queued"}
  PROVE  Set(q) \in Rows /\ Kept(q, row[q.sub], Set(q))
  <1> DEFINE r == row[q.sub]
             u == [r EXCEPT !.attempt = 0]
             queued == [u EXCEPT !.status = "queued"]
             w == [u EXCEPT !.status = "waiting"]
             waiting == [w EXCEPT !.resume = TRUE]
  <1>1. r \in Rows
    OBVIOUS
  <1>2. u \in Rows /\ u.attempt = 0 /\ u.count = r.count /\ u.resume = r.resume /\ u.input = r.input
    BY <1>1 DEF Rows
  <1>3. CASE q.op = "release"
    <2>1. Set(q) = queued
      BY <1>1, <1>3 DEF Set, Rows
    <2>2. Owns(q) => r.status = "running" /\ r.attempt = q.attempt
      BY DEF Owns, Contract!Owns
    <2>3. r.status = "running" /\ r.attempt = q.attempt
      BY <1>3, <2>2 DEF Applies
    <2> HIDE DEF r, u
    <2>4. /\ queued \in Rows /\ queued.status = "queued" /\ queued.attempt = 0
          /\ queued.count = r.count /\ queued.resume = r.resume /\ queued.input = r.input
      BY <1>2 DEF Rows, Statuses
    <2> HIDE DEF queued
    <2> QED
      BY <2>1, <2>3, <2>4 DEF Kept, r
  <1>4. CASE q.op = "wait"
    <2>1. Set(q) = waiting
      BY <1>1, <1>4 DEF Set, Rows
    <2>2. Owns(q) => r.status = "running" /\ r.attempt = q.attempt
      BY DEF Owns, Contract!Owns
    <2>3. r.status = "running" /\ r.attempt = q.attempt
      BY <1>4, <2>2 DEF Applies
    <2> HIDE DEF r, u
    <2>4. /\ w \in Rows /\ w.status = "waiting" /\ w.attempt = 0
          /\ w.count = r.count /\ w.input = r.input
      BY <1>2 DEF Rows, Statuses
    <2> HIDE DEF w
    <2>5. /\ waiting \in Rows /\ waiting.status = "waiting" /\ waiting.attempt = 0
          /\ waiting.count = r.count /\ waiting.input = r.input
      BY <2>4 DEF Rows
    <2> HIDE DEF waiting
    <2> QED
      BY <2>1, <2>3, <2>5 DEF Kept, r
  <1>5. CASE q.op \in {"resume", "reserve", "finalize"}
    <2> DEFINE to == CASE q.op = "resume" -> "queued" [] q.op = "reserve" -> "terminalizing"
                       [] q.op = "finalize" -> "settled"
               v == [r EXCEPT !.status = to]
    <2>1. Set(q) = v /\ to \in Statuses
      BY <1>1, <1>5 DEF Set, Rows, Statuses
    <2>2. Owns(q) => r.status = "running" /\ r.attempt = q.attempt
      BY DEF Owns, Contract!Owns
    <2>3. CASE q.op = "resume"
      BY <1>1, <2>1, <2>3 DEF Applies, Rows, Statuses, Kept
    <2>4. CASE q.op = "finalize"
      BY <1>1, <2>1, <2>4 DEF Applies, Rows, Statuses, Kept
    <2>5. CASE q.op = "reserve"
      BY <1>1, <2>1, <2>2, <2>5 DEF Applies, Rows, Statuses, Kept, CasOps
    <2> QED
      BY <1>5, <2>3, <2>4, <2>5
  <1>6. CASE q.op = "renew"
    <2>1. Set(q) = r
      BY <1>6 DEF Set
    <2>2. Owns(q) => r.status = "running" /\ r.attempt = q.attempt
      BY DEF Owns, Contract!Owns
    <2>3. r.status = "running" /\ r.attempt = q.attempt
      BY <1>6, <2>2 DEF Applies
    <2> QED
      BY <1>1, <2>1, <2>3 DEF Kept
  <1> QED
    BY <1>3, <1>4, <1>5, <1>6 DEF CasOps

LEMMA CancelledRow ==
  ASSUME NEW q, q.op = "cancel", NEW r \in Rows, r.status \in {"queued", "waiting", "running"},
         r.resume => r.status \in {"waiting", "queued"},
         NEW v, v = IF r.status = "running" THEN [r EXCEPT !.flag = TRUE]
                    ELSE [r EXCEPT !.status = "settled", !.resume = FALSE]
  PROVE  v \in Rows /\ Kept(q, r, v)
  <1>1. CASE r.status = "running"
    BY <1>1 DEF Rows, Kept
  <1>2. CASE r.status # "running"
    <2> DEFINE u == [r EXCEPT !.status = "settled"]
               w == [u EXCEPT !.resume = FALSE]
    <2>1. v = w
      BY <1>2
    <2>2. /\ u \in Rows /\ u.status = "settled" /\ u.attempt = r.attempt /\ u.count = r.count
          /\ u.input = r.input
      BY DEF Rows, Statuses
    <2> HIDE DEF u
    <2>3. /\ w \in Rows /\ w.status = "settled" /\ w.attempt = r.attempt /\ w.count = r.count
          /\ w.input = r.input /\ w.resume = FALSE
      BY <2>2 DEF Rows
    <2> HIDE DEF w
    <2> QED
      BY <1>2, <2>1, <2>3 DEF Kept
  <1> QED
    BY <1>1, <1>2

(* What a step of client c does to the rows: nothing, an admission, a claim,
   or a change of a row that is there, all of the row its request names. *)
RowStep(c) ==
  LET q == call[c].req
      r == row[q.sub]
      v == (row')[q.sub]
  IN \/ row' = row
     \/ /\ q.sub \in Subs /\ row' = [row EXCEPT ![q.sub] = v] /\ v \in Rows /\ minted' = minted
        /\ \/ /\ call[c].pc = "insert" /\ r.status = "absent"
              /\ v = Contract!Admitted(q.input) /\ q.input \in Inputs
           \/ /\ call[c].pc = "update" /\ Claiming(c) /\ r.status = "queued"
              /\ v = Claimed(r, q.attempt) /\ r.count < MaxClaims /\ q.attempt \in 0 .. MaxClaims
           \/ Kept(q, r, v) /\ ~ Claiming(c)

LEMMA InCall ==
  ASSUME Invariant, NEW c \in Clients, call[c].pc # "idle"
  PROVE  /\ call[c].req \in Contract!Requests /\ call[c].req.sub \in Subs
         /\ row[call[c].req.sub] \in Rows
         /\ row[call[c].req.sub].resume => row[call[c].req.sub].status \in {"waiting", "queued"}
  <1>1. Idle.pc = "idle"
    BY DEF Idle
  <1>2. call[c].req \in Contract!Requests
    BY <1>1, Zenon DEF Invariant, Requested
  <1>3. call[c].req.sub \in Subs
    BY <1>2, RequestKinds, Zenon
  <1> QED
    BY <1>2, <1>3 DEF Invariant, RowsFit

LEMMA AdmitInputs ==
  ASSUME NEW q \in Contract!Requests, q.op = "admit"
  PROVE  q.input \in Inputs
  BY DEF Contract!Requests, Contract!Req

LEMMA Written ==
  ASSUME Invariant, NEW s \in Subs, NEW v, row' = [row EXCEPT ![s] = v]
  PROVE  (row')[s] = v /\ \A t \in Subs \ {s} : (row')[t] = row[t]
  BY DEF Invariant, RowsFit

LEMMA RowSteps ==
  ASSUME Invariant, NEW c \in Clients, Step(c)
  PROVE  RowStep(c)
  <1> DEFINE q == call[c].req
             r == row[q.sub]
  <1>1. CASE DoesInsert(c)
    <2>0. call[c].pc = "insert" /\ q.op = "admit" /\ minted' = minted
      BY <1>1, Zenon DEF DoesInsert, Runs
    <2>1. /\ q \in Contract!Requests /\ q.sub \in Subs /\ r \in Rows /\ q.input \in Inputs
      BY <2>0, InCall, AdmitInputs
    <2>2. CASE Known(q.sub)
      <3>1. row' = [row EXCEPT ![q.sub] = row[q.sub]]
        BY <1>1, <2>2, Zenon DEF DoesInsert
      <3>2. row' = row
        BY <3>1 DEF Invariant, RowsFit
      <3> QED
        BY <3>2 DEF RowStep
    <2>3. CASE ~ Known(q.sub)
      <3>1. row' = [row EXCEPT ![q.sub] = Contract!Admitted(q.input)]
        BY <1>1, <2>3, Zenon DEF DoesInsert
      <3>2. (row')[q.sub] = Contract!Admitted(q.input)
        BY <2>1, <3>1, Written, Zenon
      <3>3. (row')[q.sub] \in Rows
        BY <2>1, <3>2, AdmittedRow, Zenon
      <3>4. r.status = "absent"
        BY <2>3 DEF Known
      <3> QED
        BY <2>0, <2>1, <3>1, <3>2, <3>3, <3>4, Zenon DEF RowStep
    <2> QED
      BY <2>2, <2>3
  <1>2. CASE DoesUpdateClaimed(c)
    <2>0. call[c].pc = "update" /\ q.op = "claim" /\ minted' = minted
      BY <1>2 DEF DoesUpdateClaimed, Runs
    <2>1. q \in Contract!Requests /\ q.sub \in Subs /\ r \in Rows
      BY <2>0, InCall
    <2>2. CASE row' # row
      <3>1. /\ r.status = "queued" /\ row' = [row EXCEPT ![q.sub] = Claimed(r, q.attempt)]
        BY <1>2, <2>2, Zenon DEF DoesUpdateClaimed
      <3>2. (row')[q.sub] = Claimed(r, q.attempt)
        BY <2>1, <3>1, Written, Zenon
      <3>3. /\ q.attempt \in 0 .. MaxClaims /\ minted \in 0 .. MaxClaims
            /\ Claiming(c) /\ r.count < minted /\ r.count \in 0 .. MaxClaims
        BY <2>0, <2>1, RequestKinds DEF Invariant, Minting, RowsFit, Claiming, Rows
      <3>4. r.count < MaxClaims
        BY <3>3
      <3>5. (row')[q.sub] \in Rows
        BY <2>1, <3>2, <3>3, <3>4, ClaimedRow, Zenon
      <3> QED
        BY <2>0, <2>1, <3>1, <3>2, <3>3, <3>4, <3>5, Zenon DEF RowStep
    <2> QED
      BY <2>2 DEF RowStep
  <1>3. CASE DoesUpdateCas(c)
    <2>0. call[c].pc = "update" /\ q.op \in CasOps /\ minted' = minted
      BY <1>3 DEF DoesUpdateCas, Runs
    <2>1. /\ q \in Contract!Requests /\ q.sub \in Subs /\ r \in Rows
          /\ r.resume => r.status \in {"waiting", "queued"}
      BY <2>0, InCall
    <2>2. CASE row' # row
      <3>1. Applies(q) /\ row' = [row EXCEPT ![q.sub] = Set(q)]
        BY <1>3, <2>2, Zenon DEF DoesUpdateCas
      <3>2. (row')[q.sub] = Set(q)
        BY <2>1, <3>1, Written, Zenon
      <3>3. Set(q) \in Rows /\ Kept(q, r, Set(q))
        BY <2>0, <2>1, <3>1, SetRow, Zenon
      <3>4. ~ Claiming(c)
        BY <2>0 DEF CasOps, Claiming
      <3> QED
        BY <2>0, <2>1, <3>1, <3>2, <3>3, <3>4, Zenon DEF RowStep
    <2> QED
      BY <2>2 DEF RowStep
  <1>4. CASE DoesCommitCancel(c)
    <2> DEFINE v == IF r.status = "running" THEN [r EXCEPT !.flag = TRUE]
                    ELSE [r EXCEPT !.status = "settled", !.resume = FALSE]
    <2>0. call[c].pc = "commit" /\ q.op = "cancel" /\ minted' = minted
      BY <1>4 DEF DoesCommitCancel, Inside
    <2>1. /\ q \in Contract!Requests /\ q.sub \in Subs /\ r \in Rows
          /\ r.resume => r.status \in {"waiting", "queued"}
      BY <2>0, InCall
    <2>2. At(c, "commit", {"cancel"})
      BY <2>0 DEF At
    <2>3. /\ r.status \in {"queued", "waiting", "running"}
          /\ call[c].staged = IF r.status = "running" THEN <<[r EXCEPT !.flag = TRUE]>>
                              ELSE <<[r EXCEPT !.status = "settled", !.resume = FALSE]>>
      BY <2>0, <2>2, Zenon DEF Invariant, CancelIsCurrent
    <2>4. call[c].staged[1] = v
      BY <2>3
    <2>5. v \in Rows /\ Kept(q, r, v)
      BY <2>0, <2>1, <2>3, CancelledRow, Zenon
    <2> HIDE DEF v
    <2>6. row' = [row EXCEPT ![q.sub] = v]
      BY <1>4, <2>4, Zenon DEF DoesCommitCancel
    <2>7. (row')[q.sub] = v
      BY <2>1, <2>6, Written, Zenon
    <2>8. ~ Claiming(c)
      BY <2>0 DEF Claiming
    <2> QED
      BY <2>0, <2>1, <2>5, <2>6, <2>7, <2>8, Zenon DEF RowStep
  <1>5. CASE row' = row
    BY <1>5 DEF RowStep
  <1> QED
    BY <1>1, <1>2, <1>3, <1>4, <1>5, Zenon
    DEF Step, StartAdmit, StartClaim, StartCas, StartTx, Starts, DoesRereadAdmitted, DoesReadMark,
        DoesRereadClaimed, DoesBegin, DoesReadStatus, DoesDecide, DoesInsertRecord,
        DoesCommitAppend, DoesFail, DoesReturn

----------------------------------------------------------------------------
(* Each part of the invariant is kept. *)

LEMMA Others ==
  ASSUME NEW c \in Clients, NEW v, Becomes(c, v)
  PROVE  /\ (call')[c] = v /\ \A d \in Clients \ {c} : (call')[d] = call[d]
         /\ call' = [d \in Clients |-> (call')[d]]
  BY DEF Becomes

LEMMA IdleLocal ==
  /\ Idle = Local("idle", Contract!Quiet.req, FALSE, "absent", <<>>, NoAnswer, NoAnswer)
  /\ Idle.req.op = "renew" /\ Idle.req.attempt = 0
  /\ Idle.pc = "idle" /\ Idle.answer = NoAnswer
  BY DEF Idle, Local, Contract!Quiet, Contract!Req

LEMMA ShapeKept ==
  ASSUME Invariant, NEW c \in Clients, Step(c)
  PROVE  Shape'
  <1>1. ASSUME NEW p, NEW q, NEW sw, NEW st, NEW sg, NEW du, NEW an,
               Becomes(c, Local(p, q, sw, st, sg, du, an))
        PROVE  Shape'
    <2> DEFINE v == Local(p, q, sw, st, sg, du, an)
    <2>1. v = Local(v.pc, v.req, v.saw, v.status, v.staged, v.due, v.answer)
      BY DEF Local
    <2> HIDE DEF v
    <2>2. /\ (call')[c] = v /\ \A d \in Clients \ {c} : (call')[d] = call[d]
          /\ call' = [d \in Clients |-> (call')[d]]
      BY <1>1, Others, Zenon DEF v
    <2> QED
      BY <2>1, <2>2, Zenon DEF Invariant, Shape
  <1> QED
    BY <1>1, IdleLocal, Zenon
    DEF Step, StartAdmit, StartClaim, StartCas, StartTx, Starts, DoesRereadAdmitted, DoesReadMark,
        DoesRereadClaimed, DoesBegin, DoesReadStatus, DoesDecide, DoesInsertRecord,
        DoesCommitAppend, DoesFail, DoesReturn, DoesInsert, DoesUpdateClaimed, DoesUpdateCas,
        DoesCommitCancel, Now, Ends, Stages

(* The pcs of a call of each kind, of one client. *)
RequestedAt(u) ==
  \/ u = Idle
  \/ /\ u.req \in Contract!Requests
     /\ \/ u.pc = "insert" /\ u.req.op \in {"admit"}
        \/ u.pc = "reread" /\ u.req.op \in {"admit", "claim"}
        \/ u.pc = "read" /\ u.req.op \in {"claim"}
        \/ u.pc = "update" /\ u.req.op \in {"claim"} \cup CasOps
        \/ u.pc = "begin" /\ u.req.op \in TxOps
        \/ u.pc = "tx" /\ u.req.op \in TxOps
        \/ u.pc = "write" /\ u.req.op \in {"cancel"}
        \/ u.pc = "commit" /\ u.req.op \in TxOps
        \/ u.pc = "done"

LEMMA RequestedKept ==
  ASSUME Invariant, NEW c \in Clients, Step(c)
  PROVE  Requested'
  <1>0. ASSUME NEW v, Becomes(c, v), RequestedAt(v)
        PROVE  Requested'
    <2>1. (call')[c] = v /\ \A d \in Clients \ {c} : (call')[d] = call[d]
      BY <1>0, Others, Zenon
    <2>2. \A d \in Clients : RequestedAt(call[d])
      BY Zenon DEF Invariant, Requested, RequestedAt, At
    <2>3. \A d \in Clients : RequestedAt((call')[d])
      BY <1>0, <2>1, <2>2, Zenon
    <2> QED
      BY <2>3, Zenon DEF Requested, RequestedAt, At
  <1>1. ASSUME NEW p, NEW q, NEW sw, NEW st, NEW sg, NEW du, NEW an,
               Becomes(c, Local(p, q, sw, st, sg, du, an)), q \in Contract!Requests,
               \/ p = "insert" /\ q.op \in {"admit"}
               \/ p = "reread" /\ q.op \in {"admit", "claim"}
               \/ p = "read" /\ q.op \in {"claim"}
               \/ p = "update" /\ q.op \in {"claim"} \cup CasOps
               \/ p = "begin" /\ q.op \in TxOps
               \/ p = "tx" /\ q.op \in TxOps
               \/ p = "write" /\ q.op \in {"cancel"}
               \/ p = "commit" /\ q.op \in TxOps
               \/ p = "done"
        PROVE  Requested'
    <2> DEFINE v == Local(p, q, sw, st, sg, du, an)
    <2>1. v.pc = p /\ v.req = q
      BY DEF Local
    <2> HIDE DEF v
    <2>2. RequestedAt(v)
      BY <1>1, <2>1, Zenon DEF RequestedAt
    <2> QED
      BY <1>0, <1>1, <2>2, Zenon DEF v
  <1>2. call[c].pc # "idle" => call[c].req \in Contract!Requests
    BY InCall
  <1>3. CASE \E q \in Contract!Requests :
               StartAdmit(c, q) \/ StartClaim(c, q) \/ StartCas(c, q) \/ StartTx(c, q)
    <2>1. PICK q \in Contract!Requests :
            StartAdmit(c, q) \/ StartClaim(c, q) \/ StartCas(c, q) \/ StartTx(c, q)
      BY <1>3
    <2> DEFINE at(p) == Becomes(c, Local(p, q, FALSE, "absent", <<>>, NoAnswer, NoAnswer))
    <2>2. \/ at("insert") /\ q.op = "admit"
          \/ at("read") /\ q.op = "claim"
          \/ at("update") /\ q.op \in CasOps
          \/ at("begin") /\ q.op \in TxOps
      BY <2>1, Zenon DEF StartAdmit, StartClaim, StartCas, StartTx, Starts
    <2> HIDE DEF at
    <2>3. /\ q.op = "admit" => q.op \in {"admit"}
          /\ q.op = "claim" => q.op \in {"claim"}
          /\ q.op \in CasOps => q.op \in {"claim"} \cup CasOps
      OBVIOUS
    <2> QED
      BY <1>1, <2>2, <2>3, Zenon DEF at
  <1>4. CASE \/ DoesRereadAdmitted(c) \/ DoesRereadClaimed(c) \/ DoesUpdateCas(c)
             \/ DoesCommitCancel(c) \/ DoesCommitAppend(c) \/ DoesFail(c)
    <2>1. call[c].pc # "idle" /\ \E answer : Ends(c, answer)
      BY <1>4 DEF DoesRereadAdmitted, DoesRereadClaimed, DoesUpdateCas,
                  DoesCommitCancel, DoesCommitAppend, DoesFail, Runs, Inside
    <2> QED
      BY <1>1, <1>2, <2>1, Zenon DEF Ends
  <1>5. CASE DoesInsert(c) \/ DoesReadMark(c) \/ DoesUpdateClaimed(c)
    <2>1. /\ call[c].pc # "idle"
          /\ \/ call[c].req.op \in {"admit", "claim"} /\ \E sw, du : Now(c, "reread", sw, du)
             \/ call[c].req.op \in {"claim"} \cup CasOps /\ \E sw, du : Now(c, "update", sw, du)
             \/ \E answer : Ends(c, answer)
      BY <1>5 DEF DoesInsert, DoesReadMark, DoesUpdateClaimed, Runs
    <2> QED
      BY <1>1, <1>2, <2>1, Zenon DEF Ends, Now
  <1>6. CASE DoesBegin(c) \/ DoesReadStatus(c) \/ DoesDecide(c) \/ DoesInsertRecord(c)
    <2>1. /\ call[c].pc # "idle"
          /\ \/ call[c].req.op \in TxOps /\ \E sw, du : Now(c, "tx", sw, du)
             \/ call[c].req.op \in {"cancel"} /\ \E st, sg : Stages(c, "write", st, sg)
             \/ call[c].req.op \in TxOps /\ \E st, sg : Stages(c, "commit", st, sg)
             \/ call[c].req.op \in TxOps /\ \E st, sg : Stages(c, "tx", st, sg)
             \/ \E answer : Ends(c, answer)
      BY <1>6 DEF DoesBegin, DoesReadStatus, DoesDecide, DoesInsertRecord, Inside, TxOps
    <2> QED
      BY <1>1, <1>2, <2>1, Zenon DEF Ends, Now, Stages
  <1>7. CASE DoesReturn(c)
    BY <1>0, <1>7, Zenon DEF DoesReturn, RequestedAt
  <1> QED
    BY <1>3, <1>4, <1>5, <1>6, <1>7, Zenon DEF Step

(* The locals of the clients after a step of c. *)
LEMMA AfterStarts ==
  ASSUME NEW c \in Clients, NEW q, NEW p, Starts(c, q, p)
  PROVE  /\ (call')[c].pc = p /\ (call')[c].req = q /\ (call')[c].saw = FALSE
         /\ (call')[c].staged = <<>> /\ (call')[c].answer = NoAnswer
         /\ \A d \in Clients \ {c} : (call')[d] = call[d]
  BY Others DEF Starts, Local

LEMMA AfterNow ==
  ASSUME NEW c \in Clients, NEW p, NEW saw, NEW due, Now(c, p, saw, due)
  PROVE  /\ (call')[c].pc = p /\ (call')[c].req = call[c].req /\ (call')[c].saw = saw
         /\ (call')[c].status = call[c].status /\ (call')[c].staged = call[c].staged
         /\ (call')[c].due = due /\ (call')[c].answer = call[c].answer
         /\ \A d \in Clients \ {c} : (call')[d] = call[d]
  BY Others DEF Now, Local

LEMMA AfterEnds ==
  ASSUME NEW c \in Clients, NEW answer, Ends(c, answer)
  PROVE  /\ (call')[c].pc = "done" /\ (call')[c].req = call[c].req
         /\ (call')[c].answer = answer
         /\ \A d \in Clients \ {c} : (call')[d] = call[d]
  BY Others DEF Ends, Local

LEMMA AfterStages ==
  ASSUME NEW c \in Clients, NEW p, NEW status, NEW staged, Stages(c, p, status, staged)
  PROVE  /\ (call')[c].pc = p /\ (call')[c].req = call[c].req /\ (call')[c].saw = call[c].saw
         /\ (call')[c].status = status /\ (call')[c].staged = staged
         /\ (call')[c].answer = call[c].answer
         /\ \A d \in Clients \ {c} : (call')[d] = call[d]
  BY Others DEF Stages, Local

LEMMA HeldKept ==
  ASSUME Invariant, NEW c \in Clients, Step(c)
  PROVE  Held'
  <1> DEFINE In(pc) == pc \in TxPcs
  <1>0. /\ conn \in Clients \cup {"free"} /\ \A d \in Clients : conn = d <=> In(call[d].pc)
    BY DEF Invariant, Held
  <1>1. ASSUME conn' \in Clients \cup {"free"},
               \A d \in Clients : conn' = d <=> In((call')[d].pc)
        PROVE  Held'
    BY <1>1 DEF Held
  <1>2. ASSUME conn' = conn, In((call')[c].pc) <=> In(call[c].pc),
               \A d \in Clients \ {c} : (call')[d] = call[d]
        PROVE  Held'
    BY <1>0, <1>1, <1>2, Zenon
  <1>3. ASSUME conn' = "free", conn \in {c, "free"}, ~ In((call')[c].pc),
               \A d \in Clients \ {c} : (call')[d] = call[d]
        PROVE  Held'
    BY <1>0, <1>1, <1>3
  <1>4. ASSUME conn = "free", conn' = c, In((call')[c].pc),
               \A d \in Clients \ {c} : (call')[d] = call[d]
        PROVE  Held'
    BY <1>0, <1>1, <1>4
  <1>5. /\ In("tx") /\ In("write") /\ In("commit") /\ ~ In("idle") /\ ~ In("done")
        /\ ~ In("begin") /\ ~ In("insert") /\ ~ In("reread") /\ ~ In("read") /\ ~ In("update")
    BY DEF TxPcs
  <1>a. CASE \E q \in Contract!Requests :
               StartAdmit(c, q) \/ StartClaim(c, q) \/ StartCas(c, q) \/ StartTx(c, q)
    <2>0. PICK q : \/ Starts(c, q, "insert") \/ Starts(c, q, "read")
                   \/ Starts(c, q, "update") \/ Starts(c, q, "begin")
      BY <1>a, Zenon DEF StartAdmit, StartClaim, StartCas, StartTx
    <2>1. PICK p \in {"insert", "read", "update", "begin"} : Starts(c, q, p)
      BY <2>0
    <2>2. (call')[c].pc = p /\ \A d \in Clients \ {c} : (call')[d] = call[d]
      BY <2>1, AfterStarts, Zenon
    <2>3. call[c].pc = "idle" /\ conn' = conn
      BY <2>1 DEF Starts
    <2>4. In((call')[c].pc) <=> In(call[c].pc)
      BY <1>5, <2>2, <2>3
    <2> QED
      BY <1>2, <2>2, <2>3, <2>4, Zenon
  <1>b. CASE \/ DoesInsert(c) \/ DoesRereadAdmitted(c) \/ DoesReadMark(c)
             \/ DoesUpdateClaimed(c) \/ DoesRereadClaimed(c) \/ DoesUpdateCas(c)
    <2>1. /\ conn' = conn /\ call[c].pc \in {"insert", "reread", "read", "update"}
          /\ \/ \E p \in {"reread", "update"} : \E sw, du : Now(c, p, sw, du)
             \/ \E answer : Ends(c, answer)
      BY <1>b DEF DoesInsert, DoesRereadAdmitted, DoesReadMark, DoesUpdateClaimed,
                  DoesRereadClaimed, DoesUpdateCas, Runs
    <2>2. /\ (call')[c].pc \in {"reread", "update", "done"}
          /\ \A d \in Clients \ {c} : (call')[d] = call[d]
      BY <2>1, AfterNow, AfterEnds
    <2>3. In((call')[c].pc) <=> In(call[c].pc)
      BY <1>5, <2>1, <2>2
    <2> QED
      BY <1>2, <2>1, <2>2, <2>3, Zenon
  <1>c. CASE DoesBegin(c)
    <2>1. conn = "free" /\ conn' = c /\ Now(c, "tx", call[c].saw, call[c].due)
      BY <1>c DEF DoesBegin
    <2>2. (call')[c].pc = "tx" /\ \A d \in Clients \ {c} : (call')[d] = call[d]
      BY <2>1, AfterNow, Zenon
    <2>3. In((call')[c].pc)
      BY <1>5, <2>2, Zenon
    <2> QED
      BY <1>4, <2>1, <2>2, <2>3
  <1>d. CASE DoesReadStatus(c) \/ DoesDecide(c) \/ DoesInsertRecord(c)
    <2>1. /\ conn \in {c, "free"} /\ call[c].pc \in {"tx", "write"}
          /\ \/ conn' = conn /\ \E p \in {"tx", "write", "commit"} : \E st, sg : Stages(c, p, st, sg)
             \/ conn' = "free" /\ \E answer : Ends(c, answer)
      BY <1>d DEF DoesReadStatus, DoesDecide, DoesInsertRecord, Inside
    <2>2. /\ \A d \in Clients \ {c} : (call')[d] = call[d]
          /\ \/ conn' = conn /\ (call')[c].pc \in {"tx", "write", "commit"}
             \/ conn' = "free" /\ (call')[c].pc = "done"
      BY <2>1, AfterStages, AfterEnds
    <2>3. CASE conn' = conn /\ (call')[c].pc \in {"tx", "write", "commit"}
      BY <1>2, <1>5, <2>1, <2>2, <2>3
    <2>4. CASE conn' = "free" /\ (call')[c].pc = "done"
      BY <1>3, <1>5, <2>1, <2>2, <2>4
    <2> QED
      BY <2>2, <2>3, <2>4
  <1>e. CASE DoesCommitCancel(c) \/ DoesCommitAppend(c) \/ DoesFail(c)
    <2>1. conn \in {c, "free"} /\ conn' = "free" /\ \E answer : Ends(c, answer)
      BY <1>e DEF DoesCommitCancel, DoesCommitAppend, DoesFail, Inside
    <2>2. (call')[c].pc = "done" /\ \A d \in Clients \ {c} : (call')[d] = call[d]
      BY <2>1, AfterEnds, Zenon
    <2> QED
      BY <1>3, <1>5, <2>1, <2>2, Zenon
  <1>f. CASE DoesReturn(c)
    <2>1. /\ call[c].pc = "done" /\ conn' = conn /\ (call')[c].pc = "idle"
          /\ \A d \in Clients \ {c} : (call')[d] = call[d]
      BY <1>f, Others, IdleLocal DEF DoesReturn
    <2>2. In((call')[c].pc) <=> In(call[c].pc)
      BY <1>5, <2>1, Zenon
    <2> QED
      BY <1>2, <2>1, <2>2, Zenon
  <1> QED
    BY <1>a, <1>b, <1>c, <1>d, <1>e, <1>f, Zenon DEF Step

LEMMA UndecidedKept ==
  ASSUME Invariant, NEW c \in Clients, Step(c)
  PROVE  Undecided'
  <1>0. \A d \in Clients : call[d].pc # "done" => call[d].answer = NoAnswer
    BY Zenon DEF Invariant, Undecided
  <1>1. ASSUME (call')[c].pc # "done" => (call')[c].answer = NoAnswer,
               \A d \in Clients \ {c} : (call')[d] = call[d]
        PROVE  Undecided'
    BY <1>0, <1>1, Zenon DEF Undecided
  <1>a. CASE \E q \in Contract!Requests :
               StartAdmit(c, q) \/ StartClaim(c, q) \/ StartCas(c, q) \/ StartTx(c, q)
    <2>1. \E q, p : Starts(c, q, p)
      BY <1>a, Zenon DEF StartAdmit, StartClaim, StartCas, StartTx
    <2> QED
      BY <1>1, <2>1, AfterStarts, Zenon
  <1>b. CASE \E answer : Ends(c, answer)
    BY <1>1, <1>b, AfterEnds, Zenon
  <1>c. CASE /\ call[c].pc # "done"
             /\ \/ \E p, sw, du : Now(c, p, sw, du)
                \/ \E p, st, sg : Stages(c, p, st, sg)
    BY <1>0, <1>1, <1>c, AfterNow, AfterStages, Zenon
  <1>d. CASE DoesReturn(c)
    BY <1>1, <1>d, Others, IdleLocal, Zenon DEF DoesReturn
  <1>e. CASE \/ DoesInsert(c) \/ DoesRereadAdmitted(c) \/ DoesReadMark(c)
             \/ DoesUpdateClaimed(c) \/ DoesRereadClaimed(c) \/ DoesUpdateCas(c)
    <2>1. \/ \E answer : Ends(c, answer)
          \/ call[c].pc # "done" /\ \E p, sw, du : Now(c, p, sw, du)
      BY <1>e DEF DoesInsert, DoesRereadAdmitted, DoesReadMark, DoesUpdateClaimed,
                  DoesRereadClaimed, DoesUpdateCas, Runs
    <2> QED
      BY <1>b, <1>c, <2>1, Zenon
  <1>f. CASE \/ DoesBegin(c) \/ DoesReadStatus(c) \/ DoesDecide(c) \/ DoesCommitCancel(c)
             \/ DoesInsertRecord(c) \/ DoesCommitAppend(c) \/ DoesFail(c)
    <2>1. \/ \E answer : Ends(c, answer)
          \/ /\ call[c].pc # "done"
             /\ (\E p, sw, du : Now(c, p, sw, du)) \/ (\E p, st, sg : Stages(c, p, st, sg))
      BY <1>f DEF DoesBegin, DoesReadStatus, DoesDecide, DoesCommitCancel, DoesInsertRecord,
                  DoesCommitAppend, DoesFail, Inside
    <2> QED
      BY <1>b, <1>c, <2>1, Zenon
  <1> QED
    BY <1>a, <1>d, <1>e, <1>f, Zenon DEF Step

(* One row after a step of c: as it was, admitted, claimed, or kept. *)
AdmitsAt(c, s) ==
  LET v == (row')[s]
  IN /\ s = call[c].req.sub /\ call[c].pc = "insert" /\ row[s].status = "absent"
     /\ v.status = "queued" /\ v.attempt = 0 /\ v.count = 0 /\ v.resume = FALSE

ClaimsAt(c, s) ==
  LET v == (row')[s]
      r == row[s]
  IN /\ s = call[c].req.sub /\ call[c].pc = "update" /\ Claiming(c) /\ r.status = "queued"
     /\ v.status = "running" /\ v.attempt = call[c].req.attempt
     /\ v.count = (IF r.resume THEN r.count ELSE r.count + 1)
     /\ v.resume = FALSE /\ v.input = r.input

KeepsAt(c, s) == s = call[c].req.sub /\ Kept(call[c].req, row[s], (row')[s]) /\ ~ Claiming(c)

LEMMA RowAt ==
  ASSUME Invariant, NEW c \in Clients, Step(c), NEW s \in Subs
  PROVE  /\ row' \in [Subs -> Rows]
         /\ (row')[s] \in Rows
         /\ \/ (row')[s] = row[s]
            \/ minted' = minted /\ (AdmitsAt(c, s) \/ ClaimsAt(c, s) \/ KeepsAt(c, s))
  <1> DEFINE q == call[c].req
             v == (row')[q.sub]
  <1>1. row \in [Subs -> Rows]
    BY DEF Invariant, RowsFit
  <1>2. CASE row' = row
    BY <1>1, <1>2
  <1>3. CASE row' # row
    <2>1. /\ q.sub \in Subs /\ row' = [row EXCEPT ![q.sub] = v] /\ v \in Rows /\ minted' = minted
          /\ \/ /\ call[c].pc = "insert" /\ row[q.sub].status = "absent"
                /\ v = Contract!Admitted(q.input) /\ q.input \in Inputs
             \/ /\ call[c].pc = "update" /\ Claiming(c) /\ row[q.sub].status = "queued"
                /\ v = Claimed(row[q.sub], q.attempt) /\ row[q.sub].count < MaxClaims
                /\ q.attempt \in 0 .. MaxClaims
             \/ Kept(q, row[q.sub], v) /\ ~ Claiming(c)
      BY <1>3, RowSteps, Zenon DEF RowStep
    <2>2. row' \in [Subs -> Rows]
      BY <1>1, <2>1
    <2>3. CASE s # q.sub
      BY <1>1, <2>1, <2>2, <2>3
    <2>4. CASE s = q.sub
      <3>1. row[s] \in Rows /\ (row')[s] \in Rows
        BY <1>1, <2>2
      <3>2. CASE v = Contract!Admitted(q.input) /\ q.input \in Inputs
                   /\ call[c].pc = "insert" /\ row[q.sub].status = "absent"
        BY <2>1, <2>2, <2>4, <3>1, <3>2, AdmittedRow, Zenon DEF AdmitsAt
      <3>3. CASE /\ call[c].pc = "update" /\ Claiming(c) /\ row[q.sub].status = "queued"
                 /\ v = Claimed(row[q.sub], q.attempt) /\ row[q.sub].count < MaxClaims
                 /\ q.attempt \in 0 .. MaxClaims
        <4>1. /\ v.status = "running" /\ v.attempt = q.attempt
              /\ v.count = (IF row[s].resume THEN row[s].count ELSE row[s].count + 1)
              /\ v.resume = FALSE /\ v.input = row[s].input
          <5> DEFINE n == Claimed(row[s], q.attempt)
          <5>1. v = n /\ q.attempt \in 0 .. MaxClaims /\ row[s].count < MaxClaims
            BY <2>4, <3>3, Zenon
          <5>2. /\ n.status = "running" /\ n.attempt = q.attempt
                /\ n.count = (IF row[s].resume THEN row[s].count ELSE row[s].count + 1)
                /\ n.resume = FALSE /\ n.input = row[s].input
            BY <3>1, <5>1, ClaimedRow
          <5> HIDE DEF n
          <5> QED
            BY <5>1, <5>2
        <4>2. ClaimsAt(c, s)
          BY <2>4, <3>3, <4>1, Zenon DEF ClaimsAt
        <4> QED
          BY <2>1, <2>2, <3>1, <4>2, Zenon
      <3>4. CASE Kept(q, row[q.sub], v) /\ ~ Claiming(c)
        BY <2>1, <2>2, <2>4, <3>1, <3>4, Zenon DEF KeepsAt
      <3> QED
        BY <2>1, <3>2, <3>3, <3>4, Zenon
    <2> QED
      BY <2>3, <2>4
  <1> QED
    BY <1>2, <1>3

LEMMA MintedStep ==
  ASSUME Invariant, NEW c \in Clients, Step(c)
  PROVE  \/ minted' = minted
         \/ /\ minted' = minted + 1 /\ minted < MaxClaims /\ row' = row
            /\ \E q \in Contract!Requests : StartClaim(c, q)
  <1>1. CASE \E q \in Contract!Requests : StartClaim(c, q)
    BY <1>1 DEF StartClaim, Starts
  <1>2. CASE ~ \E q \in Contract!Requests : StartClaim(c, q)
    BY <1>2, Zenon
    DEF Step, StartAdmit, StartCas, StartTx, DoesRereadAdmitted, DoesReadMark,
        DoesRereadClaimed, DoesBegin, DoesReadStatus, DoesDecide, DoesInsertRecord,
        DoesCommitAppend, DoesFail, DoesReturn, DoesInsert, DoesUpdateClaimed, DoesUpdateCas,
        DoesCommitCancel, Inside
  <1> QED
    BY <1>1, <1>2

LEMMA RowsFitKept ==
  ASSUME Invariant, NEW c \in Clients, Step(c)
  PROVE  RowsFit'
  <1>1. minted' \in 0 .. MaxClaims /\ minted <= minted' /\ minted \in 0 .. MaxClaims
    BY MintedStep DEF Invariant, RowsFit
  <1>2. row' \in [Subs -> Rows]
    <2>1. CASE Subs = {}
      <3>1. \A s : s \notin Subs
        BY <2>1
      <3>2. row' = row
        BY <3>1, RowSteps, Zenon DEF RowStep
      <3> QED
        BY <3>2 DEF Invariant, RowsFit
    <2>2. CASE Subs # {}
      <3>1. PICK s : s \in Subs
        BY <2>2
      <3> QED
        BY <3>1, RowAt, Zenon
    <2> QED
      BY <2>1, <2>2
  <1>3. ASSUME NEW s \in Subs
        PROVE  LET v == (row')[s]
               IN /\ v.resume => v.status \in {"waiting", "queued"}
                  /\ v.status = "running" => v.attempt # 0
                  /\ v.attempt <= minted' /\ v.count <= minted'
    <2> DEFINE v == (row')[s]
               r == row[s]
    <2>1. /\ r.resume => r.status \in {"waiting", "queued"}
          /\ r.status = "running" => r.attempt # 0
          /\ r.attempt <= minted /\ r.count <= minted /\ r \in Rows
      BY DEF Invariant, RowsFit
    <2>2. CASE v = r
      BY <1>1, <2>1, <2>2 DEF Rows
    <2>3. CASE minted' = minted /\ AdmitsAt(c, s)
      BY <1>1, <2>3 DEF AdmitsAt
    <2>4. CASE minted' = minted /\ ClaimsAt(c, s)
      <3>1. call[c].req.attempt = minted /\ r.count < minted
        BY <2>4 DEF ClaimsAt, Invariant, Minting
      <3>2. call[c].req.attempt # 0
        BY <2>4, InCall, RequestKinds DEF ClaimsAt, Claiming
      <3> QED
        BY <1>1, <2>1, <2>4, <3>1, <3>2 DEF ClaimsAt, Rows
    <2>5. CASE minted' = minted /\ KeepsAt(c, s)
      BY <1>1, <2>1, <2>5 DEF KeepsAt, Kept, Rows
    <2> QED
      BY <2>2, <2>3, <2>4, <2>5, RowAt
  <1> QED
    BY <1>1, <1>2, <1>3 DEF RowsFit

(* The request of each client after a step of c: the same, none, or a new one. *)
LEMMA RequestAfter ==
  ASSUME Invariant, NEW c \in Clients, Step(c)
  PROVE  /\ \A d \in Clients \ {c} : (call')[d] = call[d]
         /\ \/ (call')[c].req = call[c].req /\ call[c].pc # "idle"
            \/ (call')[c] = Idle
            \/ /\ (call')[c].req \in Contract!Requests /\ call[c].pc = "idle"
               /\ LET q == (call')[c].req
                  IN StartAdmit(c, q) \/ StartClaim(c, q) \/ StartCas(c, q) \/ StartTx(c, q)
  <1>1. CASE \E q \in Contract!Requests :
               StartAdmit(c, q) \/ StartClaim(c, q) \/ StartCas(c, q) \/ StartTx(c, q)
    <2>1. PICK q \in Contract!Requests :
            StartAdmit(c, q) \/ StartClaim(c, q) \/ StartCas(c, q) \/ StartTx(c, q)
      BY <1>1
    <2>2. \E p : Starts(c, q, p)
      BY <2>1, Zenon DEF StartAdmit, StartClaim, StartCas, StartTx
    <2>3. (call')[c].req = q /\ \A d \in Clients \ {c} : (call')[d] = call[d]
      BY <2>2, AfterStarts, Zenon
    <2>4. call[c].pc = "idle"
      BY <2>2, Zenon DEF Starts
    <2> QED
      BY <2>1, <2>3, <2>4, Zenon
  <1>2. CASE /\ call[c].pc # "idle"
             /\ \/ \E answer : Ends(c, answer)
                \/ \E p, sw, du : Now(c, p, sw, du)
                \/ \E p, st, sg : Stages(c, p, st, sg)
    BY <1>2, AfterEnds, AfterNow, AfterStages, Zenon
  <1>3. CASE DoesReturn(c)
    BY <1>3, Others, Zenon DEF DoesReturn
  <1>4. CASE \/ DoesInsert(c) \/ DoesRereadAdmitted(c) \/ DoesReadMark(c)
             \/ DoesUpdateClaimed(c) \/ DoesRereadClaimed(c) \/ DoesUpdateCas(c)
    <2>1. /\ call[c].pc # "idle"
          /\ (\E answer : Ends(c, answer)) \/ (\E p, sw, du : Now(c, p, sw, du))
      BY <1>4 DEF DoesInsert, DoesRereadAdmitted, DoesReadMark, DoesUpdateClaimed,
                  DoesRereadClaimed, DoesUpdateCas, Runs
    <2> QED
      BY <1>2, <2>1, Zenon
  <1>5. CASE \/ DoesBegin(c) \/ DoesReadStatus(c) \/ DoesDecide(c) \/ DoesCommitCancel(c)
             \/ DoesInsertRecord(c) \/ DoesCommitAppend(c) \/ DoesFail(c)
    <2>1. /\ call[c].pc # "idle"
          /\ \/ \E answer : Ends(c, answer)
             \/ \E p, sw, du : Now(c, p, sw, du)
             \/ \E p, st, sg : Stages(c, p, st, sg)
      BY <1>5 DEF DoesBegin, DoesReadStatus, DoesDecide, DoesCommitCancel, DoesInsertRecord,
                  DoesCommitAppend, DoesFail, Inside
    <2> QED
      BY <1>2, <2>1, Zenon
  <1> QED
    BY <1>1, <1>3, <1>4, <1>5, Zenon DEF Step

LEMMA NamedKept ==
  ASSUME Invariant, NEW c \in Clients, Step(c)
  PROVE  Named'
  <1> SUFFICES ASSUME NEW d \in Clients, (call')[d] # Idle,
                      (call')[d].req.op \notin {"admit", "append"}
               PROVE  (row')[(call')[d].req.sub].status # "absent"
    BY DEF Named, Known
  <1>0. ASSUME NEW s \in Subs, row[s].status # "absent"
        PROVE  (row')[s].status # "absent"
    BY <1>0, RowAt DEF AdmitsAt, ClaimsAt, KeepsAt, Kept
  <1>1. ASSUME (call')[d].req = call[d].req, call[d].pc # "idle"
        PROVE  (row')[(call')[d].req.sub].status # "absent"
    <2>1. call[d].req.sub \in Subs
      BY <1>1, InCall
    <2>2. call[d] # Idle
      BY <1>1, IdleLocal
    <2>3. row[call[d].req.sub].status # "absent"
      BY <1>1, <2>2 DEF Invariant, Named, Known
    <2> QED
      BY <1>0, <1>1, <2>1, <2>3, Zenon
  <1>2. CASE d # c
    <2>1. (call')[d] = call[d]
      BY <1>2, RequestAfter
    <2>2. call[d].pc # "idle"
      BY <2>1, Zenon DEF Invariant, Requested, At
    <2> QED
      BY <1>1, <2>1, <2>2
  <1>3. CASE d = c
    <2> DEFINE q == (call')[c].req
    <2>1. CASE q = call[c].req /\ call[c].pc # "idle"
      BY <1>1, <1>3, <2>1
    <2>2. CASE /\ q \in Contract!Requests
               /\ StartAdmit(c, q) \/ StartClaim(c, q) \/ StartCas(c, q) \/ StartTx(c, q)
      <3>1. row[q.sub].status # "absent"
        BY <1>3, <2>2 DEF StartAdmit, StartClaim, StartCas, StartTx, Known, TxOps
      <3>2. q.sub \in Subs
        BY <2>2, RequestKinds
      <3> QED
        BY <1>0, <1>3, <3>1, <3>2
    <2> QED
      BY <1>3, <2>1, <2>2, RequestAfter, Zenon
  <1> QED
    BY <1>2, <1>3

(* The requests of the others name no attempt that is being claimed. *)
LEMMA LearnedBefore ==
  ASSUME Invariant, NEW a \in Learned, NEW d \in Clients, Claiming(d)
  PROVE  a < minted
  BY DEF Learned, Claiming, Invariant, Minting, RowsFit

LEMMA ClaimMinted ==
  ASSUME Invariant, NEW d \in Clients, Claiming(d)
  PROVE  d = Loop /\ call[d].req.attempt = minted /\ minted # 0 /\ call[d].pc # "idle"
  <1>1. call[d] # Idle
    BY IdleLocal DEF Claiming
  <1>2. call[d].pc # "idle"
    BY <1>1, Zenon DEF Invariant, Requested, At
  <1>3. call[d].req.attempt # 0
    BY <1>2, InCall, RequestKinds DEF Claiming
  <1> QED
    BY <1>2, <1>3 DEF Invariant, Minting

(* The pc of a claim that goes on. *)
LEMMA ClaimGoes ==
  ASSUME Invariant, NEW c \in Clients, Step(c), (call')[c].req = call[c].req,
         call[c].pc # "idle", call[c].req.op = "claim"
  PROVE  \/ DoesReadMark(c) /\ (call')[c].pc = "update" /\ (call')[c].saw = row[call[c].req.sub].resume
         \/ /\ DoesUpdateClaimed(c) /\ (call')[c].pc = "reread" /\ (call')[c].saw = call[c].saw
            /\ row[call[c].req.sub].status = "queued"
            /\ LET n == Claimed(row[call[c].req.sub], call[c].req.attempt)
               IN /\ row' = [row EXCEPT ![call[c].req.sub] = n]
                  /\ (call')[c].due = Answer("ok", <<n.attempt, n.count, row[call[c].req.sub].resume>>)
         \/ (call')[c].pc = "done"
         \/ (call')[c].pc = "idle"
  <1>1. CASE \/ \E answer : Ends(c, answer)
             \/ \E q \in Contract!Requests :
                  StartAdmit(c, q) \/ StartClaim(c, q) \/ StartCas(c, q) \/ StartTx(c, q)
             \/ DoesReturn(c)
    BY <1>1, AfterEnds, Others, IdleLocal, Zenon
    DEF StartAdmit, StartClaim, StartCas, StartTx, Starts, DoesReturn
  <1>2. CASE DoesReadMark(c)
    <2>1. Now(c, "update", row[call[c].req.sub].resume, call[c].due)
      BY <1>2, Zenon DEF DoesReadMark
    <2>2. (call')[c].pc = "update" /\ (call')[c].saw = row[call[c].req.sub].resume
      BY <2>1, AfterNow
    <2> QED
      BY <1>2, <2>2, Zenon
  <1>3. CASE DoesUpdateClaimed(c)
    <2> DEFINE r == row[call[c].req.sub]
               n == Claimed(r, call[c].req.attempt)
               due == Answer("ok", <<n.attempt, n.count, r.resume>>)
    <2>1. CASE Ends(c, Answer("lost", <<>>))
      BY <1>1, <2>1
    <2>2. CASE /\ r.status = "queued" /\ row' = [row EXCEPT ![call[c].req.sub] = n]
               /\ Now(c, "reread", call[c].saw, due)
      <3>1. (call')[c].pc = "reread" /\ (call')[c].saw = call[c].saw /\ (call')[c].due = due
        <4> HIDE DEF due
        <4> QED
          BY <2>2, AfterNow
      <3> QED
        BY <1>3, <2>2, <3>1, Zenon
    <2> QED
      BY <1>3, <2>1, <2>2, Zenon DEF DoesUpdateClaimed
  <1>4. CASE DoesInsert(c) \/ DoesRereadAdmitted(c) \/ DoesRereadClaimed(c) \/ DoesUpdateCas(c)
    BY <1>1, <1>4 DEF DoesInsert, DoesRereadAdmitted, DoesRereadClaimed, DoesUpdateCas, Runs, CasOps
  <1>5. CASE \/ DoesBegin(c) \/ DoesReadStatus(c) \/ DoesDecide(c) \/ DoesCommitCancel(c)
             \/ DoesInsertRecord(c) \/ DoesCommitAppend(c)
    BY <1>5 DEF DoesBegin, DoesReadStatus, DoesDecide, DoesCommitCancel, DoesInsertRecord,
                DoesCommitAppend, Inside, TxOps
  <1>6. CASE DoesFail(c)
    BY <1>1, <1>6, Zenon DEF DoesFail
  <1> QED
    BY <1>1, <1>2, <1>3, <1>4, <1>5, <1>6, Zenon DEF Step

LEMMA MintingKept ==
  ASSUME Invariant, NEW c \in Clients, Step(c)
  PROVE  Minting'
  <1> DEFINE ops(d) == (call')[d].req.op
             att(d) == (call')[d].req.attempt
  <1>0. /\ minted \in Nat /\ row \in [Subs -> Rows]
        /\ \A s \in Subs : row[s].attempt <= minted /\ row[s].count <= minted
                           /\ row[s].attempt \in Nat /\ row[s].count \in Nat
        /\ \A d \in Clients :
             /\ call[d].req.attempt \in 0 .. minted
             /\ Claiming(d) =>
                  /\ d = Loop /\ call[d].req.attempt = minted
                  /\ \A e \in Clients \ {d} : call[e].req.attempt < minted
                  /\ call[d].pc \in {"read", "update"} =>
                       \A s \in Subs : row[s].attempt < minted /\ row[s].count < minted
    BY DEF Invariant, Minting, RowsFit, Rows
  <1>1. \A d \in Clients \ {c} : (call')[d] = call[d]
    BY RequestAfter
  <1>2. SUFFICES ASSUME NEW d \in Clients
                 PROVE  /\ att(d) \in 0 .. minted'
                        /\ ops(d) = "claim" =>
                             /\ d = Loop /\ att(d) = minted'
                             /\ \A e \in Clients \ {d} : att(e) < minted'
                             /\ (call')[d].pc \in {"read", "update"} =>
                                  \A s \in Subs : (row')[s].attempt < minted'
                                                  /\ (row')[s].count < minted'
    BY DEF Minting, Claiming
  <1>3. CASE \E q \in Contract!Requests : StartClaim(c, q)
    <2>1. PICK q \in Contract!Requests : StartClaim(c, q)
      BY <1>3
    <2>2. /\ c = Loop /\ minted' = minted + 1 /\ q.attempt = minted + 1 /\ row' = row
          /\ (call')[c].req = q
      BY <2>1, AfterStarts DEF StartClaim, Starts
    <2>3. \A e \in Clients \ {c} : att(e) \in 0 .. minted /\ (ops(e) = "claim" => e = Loop)
      BY <1>0, <1>1 DEF Claiming
    <2> QED
      BY <1>0, <2>2, <2>3
  <1>4. CASE ~ \E q \in Contract!Requests : StartClaim(c, q)
    <2>1. minted' = minted
      BY <1>4, MintedStep
    <2>2. \A e \in Clients :
             /\ att(e) \in 0 .. minted
             /\ ops(e) = "claim" => Claiming(e) /\ att(e) = minted /\ e = Loop
             /\ (\E l \in Clients \ {e} : Claiming(l)) => att(e) < minted
      <3> SUFFICES ASSUME NEW e \in Clients
                   PROVE  /\ att(e) \in 0 .. minted
                          /\ ops(e) = "claim" => Claiming(e) /\ att(e) = minted /\ e = Loop
                          /\ (\E l \in Clients \ {e} : Claiming(l)) => att(e) < minted
        OBVIOUS
      <3>0. (\E l \in Clients \ {e} : Claiming(l)) => minted > 0
        BY <1>0, ClaimMinted
      <3>1. CASE (call')[e].req = call[e].req
        <4>1. att(e) = call[e].req.attempt /\ (ops(e) = "claim" => Claiming(e))
          BY <3>1 DEF Claiming
        <4>2. call[e].req.attempt \in 0 .. minted
          BY <1>0
        <4>3. Claiming(e) => e = Loop /\ call[e].req.attempt = minted
          BY <1>0
        <4>4. ASSUME NEW l \in Clients \ {e}, Claiming(l)
              PROVE  call[e].req.attempt < minted
          BY <1>0, <4>4
        <4> HIDE DEF att, ops
        <4> QED
          BY <4>1, <4>2, <4>3, <4>4
      <3>2. CASE (call')[e] = Idle
        <4>1. att(e) = 0 /\ ops(e) # "claim"
          BY <3>2, IdleLocal
        <4> HIDE DEF att, ops
        <4> QED
          BY <1>0, <3>0, <4>1
      <3>3. CASE /\ e = c /\ (call')[c].req \in Contract!Requests
                 /\ LET q == (call')[c].req IN StartAdmit(c, q) \/ StartCas(c, q) \/ StartTx(c, q)
        <4> DEFINE q == (call')[c].req
        <4>1. q.op # "claim" /\ q.attempt \in Learned \cup {0}
          BY <3>3, RequestKinds DEF StartAdmit, StartCas, StartTx, CasOps, TxOps
        <4>2. q.attempt \in 0 .. minted
          BY <1>0, <4>1 DEF Learned
        <4>3. (\E l \in Clients \ {e} : Claiming(l)) => q.attempt < minted
          BY <1>0, <3>0, <4>1, LearnedBefore
        <4> QED
          BY <3>3, <4>1, <4>2, <4>3
      <3> QED
        BY <1>1, <1>4, <3>1, <3>2, <3>3, RequestAfter
    <2>3. ASSUME ops(d) = "claim", (call')[d].pc \in {"read", "update"}, NEW s \in Subs
          PROVE  (row')[s].attempt < minted /\ (row')[s].count < minted
      <3>1. Claiming(d) /\ d = Loop
        BY <2>2, <2>3
      <3>2. minted > 0 /\ call[d].pc # "idle"
        BY <1>0, <3>1, ClaimMinted
      <3>3. call[d].pc \in {"read", "update"} /\ (d = c => ~ ClaimsAt(c, s) \/ (row')[s] = row[s])
        <4>1. CASE d # c
          BY <1>1, <2>3, <4>1
        <4>2. CASE d = c
          <5>1. (call')[c].req = call[c].req
            <6>1. (call')[c] # Idle
              BY <2>3, <4>2, IdleLocal
            <6>2. call[c].pc # "idle"
              BY <3>2, <4>2
            <6> QED
              BY <6>1, <6>2, RequestAfter
          <5>2. DoesReadMark(c)
            <6>1. (call')[c].pc \notin {"reread", "done", "idle"}
              BY <2>3, <4>2
            <6> QED
              BY <3>1, <3>2, <4>2, <5>1, <6>1, ClaimGoes, Zenon DEF Claiming
          <5>3. call[c].pc = "read" /\ row' = row
            BY <5>2 DEF DoesReadMark, Runs
          <5> QED
            BY <4>2, <5>3
        <4> QED
          BY <4>1, <4>2
      <3>4. row[s].attempt < minted /\ row[s].count < minted
        BY <1>0, <3>1, <3>3
      <3>5. CASE (row')[s] = row[s]
        BY <3>4, <3>5
      <3>6. CASE AdmitsAt(c, s)
        BY <3>2, <3>6 DEF AdmitsAt
      <3>7. CASE ClaimsAt(c, s)
        <4>1. c = Loop
          BY <3>7, ClaimMinted DEF ClaimsAt
        <4> QED
          BY <3>1, <3>3, <3>4, <3>7, <4>1
      <3>8. CASE KeepsAt(c, s)
        BY <3>2, <3>4, <3>8 DEF KeepsAt, Kept
      <3> QED
        BY <3>5, <3>6, <3>7, <3>8, RowAt
    <2>4. ASSUME ops(d) = "claim", NEW e \in Clients \ {d}
          PROVE  att(e) < minted
      BY <2>2, <2>4
    <2> QED
      BY <2>1, <2>2, <2>3, <2>4
  <1> QED
    BY <1>3, <1>4

LEMMA ClaimKept ==
  ASSUME Invariant, NEW c \in Clients, Step(c)
  PROVE  ClaimIsCurrent'
  <1> SUFFICES ASSUME NEW d \in Clients, (call')[d].req.op = "claim"
               PROVE  LET v == (row')[(call')[d].req.sub]
                      IN /\ (call')[d].pc \in {"read", "update"} => v.status \in {"queued", "settled"}
                         /\ (call')[d].pc = "update" /\ v.status = "queued" =>
                              (call')[d].saw = v.resume
                         /\ (call')[d].pc = "reread" =>
                              /\ v.status = "running" /\ v.attempt = (call')[d].req.attempt
                              /\ (call')[d].due
                                   = Answer("ok", <<v.attempt, v.count, (call')[d].saw>>)
    BY DEF ClaimIsCurrent, Claiming
  <1> DEFINE q == (call')[d].req
             r == row[q.sub]
             v == (row')[q.sub]
  <1>1. CASE d # c
    <2>1. (call')[d] = call[d] /\ Claiming(d)
      BY <1>1, RequestAfter DEF Claiming
    <2>2. /\ d = Loop /\ q.attempt = minted /\ q.sub \in Subs
      BY <2>1, ClaimMinted, InCall
    <2>3. /\ call[d].pc \in {"read", "update"} => r.status \in {"queued", "settled"}
          /\ call[d].pc = "update" /\ r.status = "queued" => call[d].saw = r.resume
          /\ call[d].pc = "reread" =>
               /\ r.status = "running" /\ r.attempt = q.attempt
               /\ call[d].due = Answer("ok", <<r.attempt, r.count, call[d].saw>>)
      BY <2>1, Zenon DEF Invariant, ClaimIsCurrent
    <2>4. call[c].req.attempt < minted /\ ~ Claiming(c) /\ minted \in Nat
          /\ call[c].req.attempt \in Nat
      BY <1>1, <2>1, <2>2, ClaimMinted DEF Invariant, Minting, RowsFit
    <2>5. ~ ClaimsAt(c, q.sub)
      BY <2>4 DEF ClaimsAt
    <2>6. CASE call[d].pc \in {"read", "update", "reread"}
      <3>1. r.status \in {"queued", "settled", "running"}
        BY <2>3, <2>6
      <3>2. v = r \/ KeepsAt(c, q.sub)
        <4>1. ~ AdmitsAt(c, q.sub)
          BY <3>1 DEF AdmitsAt
        <4> QED
          BY <2>2, <2>5, <4>1, RowAt, Zenon
      <3>3. r.status = "running" /\ KeepsAt(c, q.sub) =>
              v.status = "running" \/ call[c].req.attempt = r.attempt
        BY DEF KeepsAt, Kept
      <3>4. KeepsAt(c, q.sub) =>
              /\ v.count = r.count
              /\ v.status = "running" => v.attempt = r.attempt
              /\ r.status = "queued" =>
                   v.status = "settled" \/ (v.status = "queued" /\ v.resume = r.resume)
              /\ r.status = "settled" => v.status = "settled"
        BY DEF KeepsAt, Kept
      <3>5. CASE call[d].pc \in {"read", "update"}
        BY <2>1, <2>3, <3>2, <3>4, <3>5
      <3>6. CASE call[d].pc = "reread"
        <4>1. r.status = "running" /\ r.attempt = minted
          BY <2>2, <2>3, <3>6
        <4>2. v.status = "running" /\ v.attempt = r.attempt /\ v.count = r.count
          BY <2>4, <3>2, <3>3, <3>4, <4>1
        <4> QED
          BY <2>1, <2>3, <3>6, <4>2
      <3> QED
        BY <2>6, <3>5, <3>6
    <2> QED
      BY <2>1, <2>6
  <1>2. CASE d = c
    <2>1. CASE \E a \in Contract!Requests : StartClaim(c, a)
      <3>1. PICK a \in Contract!Requests : StartClaim(c, a)
        BY <2>1
      <3>2. (call')[c].req = a /\ (call')[c].pc = "read" /\ row' = row /\ row[a.sub].status = "queued"
        <4>1. Starts(c, a, "read") /\ row[a.sub].status = "queued"
          BY <3>1, Zenon DEF StartClaim
        <4>2. row' = row
          BY <4>1, Zenon DEF Starts
        <4>3. (call')[c].req = a
          BY <4>1, AfterStarts, Zenon
        <4>4. (call')[c].pc = "read"
          <5>1. PICK p : p = "read"
            OBVIOUS
          <5>2. Starts(c, a, p)
            BY <4>1, <5>1, Zenon
          <5>3. (call')[c].pc = p
            BY <5>2, AfterStarts, Zenon
          <5> QED
            BY <5>1, <5>3
        <4> QED
          BY <4>1, <4>2, <4>3, <4>4
      <3> QED
        BY <1>2, <3>2
    <2>2. CASE q = call[c].req /\ call[c].pc # "idle"
      <3>0. q.sub \in Subs /\ Claiming(c)
        BY <1>2, <2>2, InCall DEF Claiming
      <3>1. CASE /\ DoesReadMark(c) /\ (call')[c].pc = "update"
                 /\ (call')[c].saw = row[call[c].req.sub].resume
        <4>1. call[c].pc = "read" /\ row' = row
          BY <3>1 DEF DoesReadMark, Runs
        <4>2. r.status \in {"queued", "settled"}
          BY <1>2, <2>2, <3>0, <4>1 DEF Invariant, ClaimIsCurrent
        <4> QED
          BY <1>2, <2>2, <3>1, <4>1, <4>2
      <3>2. CASE /\ DoesUpdateClaimed(c) /\ (call')[c].pc = "reread"
                 /\ (call')[c].saw = call[c].saw
                 /\ row[call[c].req.sub].status = "queued"
                 /\ LET n == Claimed(row[call[c].req.sub], call[c].req.attempt)
                    IN /\ row' = [row EXCEPT ![call[c].req.sub] = n]
                       /\ (call')[c].due
                            = Answer("ok", <<n.attempt, n.count, row[call[c].req.sub].resume>>)
        <4> DEFINE n == Claimed(row[call[c].req.sub], call[c].req.attempt)
        <4>1. call[c].pc = "update"
          BY <3>2 DEF DoesUpdateClaimed, Runs
        <4>2. call[c].saw = r.resume
          BY <1>2, <2>2, <3>0, <3>2, <4>1 DEF Invariant, ClaimIsCurrent
        <4>3. /\ r \in Rows /\ q.attempt \in 0 .. MaxClaims /\ r.count < MaxClaims
          <5>1. r \in Rows /\ q.attempt \in 0 .. MaxClaims
            BY <1>2, <2>2, <3>0, InCall, RequestKinds
          <5>2. r.count < minted /\ minted \in 0 .. MaxClaims
            BY <1>2, <2>2, <3>0, <4>1 DEF Invariant, Minting, RowsFit
          <5> QED
            BY <5>1, <5>2 DEF Rows
        <4>4. v = n
          <5>1. row' = [row EXCEPT ![q.sub] = n]
            BY <1>2, <2>2, <3>2, Zenon
          <5>2. row \in [Subs -> Rows]
            BY DEF Invariant, RowsFit
          <5> HIDE DEF n, q
          <5> QED
            BY <3>0, <5>1, <5>2
        <4>5. n.status = "running" /\ n.attempt = q.attempt
          <5> DEFINE k == Claimed(r, q.attempt)
          <5>1. k.status = "running" /\ k.attempt = q.attempt
            BY <4>3, ClaimedRow
          <5>2. k = n
            BY <1>2, <2>2
          <5> QED
            BY <5>1, <5>2, Zenon
        <4>6. (call')[c].due = Answer("ok", <<n.attempt, n.count, (call')[c].saw>>)
          BY <1>2, <2>2, <3>2, <4>2, Zenon
        <4> HIDE DEF n, v
        <4>7. /\ (call')[d].pc = "reread"
              /\ v.status = "running" /\ v.attempt = (call')[d].req.attempt
              /\ (call')[d].due = Answer("ok", <<v.attempt, v.count, (call')[d].saw>>)
          BY <1>2, <3>2, <4>4, <4>5, <4>6, Zenon
        <4> QED
          BY <4>7 DEF v
      <3>3. CASE (call')[c].pc \in {"done", "idle"}
        BY <1>2, <3>3
      <3> QED
        BY <1>2, <2>2, <3>1, <3>2, <3>3, ClaimGoes
    <2>3. (call')[c] # Idle
      BY <1>2, IdleLocal
    <2>4. ~ StartAdmit(c, q) /\ ~ StartCas(c, q) /\ ~ StartTx(c, q)
      BY DEF StartAdmit, StartCas, StartTx, CasOps, TxOps
    <2> QED
      BY <1>2, <2>1, <2>2, <2>3, <2>4, RequestAfter
  <1> QED
    BY <1>1, <1>2

(* Which step takes a client to a pc. *)
LEMMA Reaches ==
  ASSUME Invariant, NEW c \in Clients, Step(c)
  PROVE  /\ (call')[c].pc = "reread" /\ (call')[c].req.op = "admit" => DoesInsert(c)
         /\ (call')[c].pc = "write" => DoesReadStatus(c) /\ conn' = conn
         /\ (call')[c].pc = "commit" =>
              DoesDecide(c) \/ (DoesInsertRecord(c) /\ conn' = conn)
         /\ (call')[c].pc = "begin" => \E q \in Contract!Requests : StartTx(c, q)
         /\ (call')[c].pc = "tx" => DoesBegin(c) \/ (DoesInsertRecord(c) /\ conn' = conn)
  <1> DEFINE pc == (call')[c].pc
             Far == {"reread", "write", "commit", "begin", "tx"}
  <1>1. CASE \/ \E answer : Ends(c, answer)
             \/ DoesReturn(c)
    <2>1. pc \notin Far
      BY <1>1, AfterEnds, Others, IdleLocal DEF DoesReturn
    <2> QED
      BY <2>1
  <1>2. CASE DoesReadMark(c)
    <2>1. pc = "update"
      BY <1>2, AfterNow DEF DoesReadMark
    <2> QED
      BY <2>1
  <1>3. CASE DoesUpdateClaimed(c)
    <2>1. CASE \E saw, due : Now(c, "reread", saw, due)
      <3>1. pc = "reread" /\ (call')[c].req.op = "claim"
        BY <1>3, <2>1, AfterNow DEF DoesUpdateClaimed, Runs
      <3> QED
        BY <3>1
    <2> QED
      BY <1>1, <1>3, <2>1, Zenon DEF DoesUpdateClaimed
  <1>4. CASE DoesInsert(c)
    <2>1. pc = "reread"
      BY <1>4, AfterNow DEF DoesInsert
    <2> QED
      BY <1>4, <2>1
  <1>5. CASE DoesBegin(c)
    <2>1. pc = "tx"
      BY <1>5, AfterNow DEF DoesBegin
    <2> QED
      BY <1>5, <2>1
  <1>6. CASE DoesReadStatus(c)
    <2>1. CASE conn' = conn /\ \E st, sg : Stages(c, "write", st, sg)
      <3>1. pc = "write"
        BY <2>1, AfterStages
      <3> QED
        BY <1>6, <2>1, <3>1
    <2> QED
      BY <1>1, <1>6, <2>1, Zenon DEF DoesReadStatus
  <1>7. CASE DoesDecide(c)
    <2>1. \E st, sg : Stages(c, "commit", st, sg)
      BY <1>7, Zenon DEF DoesDecide
    <2>2. pc = "commit"
      BY <2>1, AfterStages
    <2> QED
      BY <1>7, <2>2
  <1>8. CASE DoesInsertRecord(c)
    <2>1. CASE conn' = conn /\ \E p \in {"commit", "tx"} : \E st, sg : Stages(c, p, st, sg)
      <3>1. pc \in {"commit", "tx"}
        BY <2>1, AfterStages
      <3> QED
        BY <1>8, <2>1, <3>1
    <2>2. (\E answer : Ends(c, answer))
            \/ (conn' = conn /\ \E p \in {"commit", "tx"} : \E st, sg : Stages(c, p, st, sg))
      BY <1>8 DEF DoesInsertRecord
    <2> QED
      BY <1>1, <2>1, <2>2, Zenon
  <1>9. CASE \E q \in Contract!Requests :
               StartAdmit(c, q) \/ StartClaim(c, q) \/ StartCas(c, q) \/ StartTx(c, q)
    <2>1. PICK q \in Contract!Requests :
            StartAdmit(c, q) \/ StartClaim(c, q) \/ StartCas(c, q) \/ StartTx(c, q)
      BY <1>9
    <2>2. CASE StartTx(c, q)
      <3>1. pc = "begin"
        BY <2>2, AfterStarts DEF StartTx
      <3> QED
        BY <2>2, <3>1
    <2>3. CASE Starts(c, q, "insert") \/ Starts(c, q, "read") \/ Starts(c, q, "update")
      <3>1. pc \in {"insert", "read", "update"}
        BY <2>3, AfterStarts
      <3> QED
        BY <3>1
    <2> QED
      BY <2>1, <2>2, <2>3, Zenon DEF StartAdmit, StartClaim, StartCas
  <1>a. CASE \/ DoesRereadAdmitted(c) \/ DoesRereadClaimed(c) \/ DoesUpdateCas(c)
             \/ DoesCommitCancel(c) \/ DoesCommitAppend(c) \/ DoesFail(c)
    <2>1. \E answer : Ends(c, answer)
      BY <1>a, Zenon DEF DoesRereadAdmitted, DoesRereadClaimed, DoesUpdateCas,
                         DoesCommitCancel, DoesCommitAppend, DoesFail
    <2> QED
      BY <1>1, <2>1, Zenon
  <1> QED
    BY <1>1, <1>2, <1>3, <1>4, <1>5, <1>6, <1>7, <1>8, <1>9, <1>a, Zenon DEF Step

LEMMA AdmitKept ==
  ASSUME Invariant, NEW c \in Clients, Step(c)
  PROVE  AdmitIsCurrent'
  <1> SUFFICES ASSUME NEW d \in Clients, (call')[d].pc = "reread", (call')[d].req.op = "admit"
               PROVE  LET v == (row')[(call')[d].req.sub]
                      IN /\ v.status # "absent"
                         /\ (call')[d].due = IF v.input = (call')[d].req.input
                                             THEN Answer("ok", <<v.input>>)
                                             ELSE Answer("conflict", <<>>)
                         /\ ~ (call')[d].saw => v.input = (call')[d].req.input
    BY DEF AdmitIsCurrent, At, Known
  <1>1. CASE d # c
    <2> DEFINE q == call[d].req
    <2>1. (call')[d] = call[d]
      BY <1>1, RequestAfter
    <2>2. /\ row[q.sub].status # "absent"
          /\ call[d].due = IF row[q.sub].input = q.input THEN Answer("ok", <<row[q.sub].input>>)
                           ELSE Answer("conflict", <<>>)
          /\ ~ call[d].saw => row[q.sub].input = q.input
      BY <2>1 DEF Invariant, AdmitIsCurrent, At, Known
    <2>3. q.sub \in Subs
      BY <2>1, InCall
    <2>4. (row')[q.sub].status # "absent" /\ (row')[q.sub].input = row[q.sub].input
      BY <2>2, <2>3, RowAt DEF AdmitsAt, ClaimsAt, KeepsAt, Kept
    <2> QED
      BY <2>1, <2>2, <2>4, Zenon
  <1>2. CASE d = c
    <2> DEFINE q == call[c].req
               r == IF Known(q.sub) THEN row[q.sub] ELSE Contract!Admitted(q.input)
               due == IF r.input = q.input THEN Answer("ok", <<q.input>>)
                      ELSE Answer("conflict", <<>>)
    <2>1. DoesInsert(c)
      BY <1>2, Reaches
    <2>2. /\ call[c].pc = "insert" /\ q.op = "admit"
          /\ row' = [row EXCEPT ![q.sub] = r]
          /\ Now(c, "reread", Known(q.sub), due)
      BY <2>1, Zenon DEF DoesInsert, Runs
    <2>3. (call')[c].req = q /\ (call')[c].saw = Known(q.sub) /\ (call')[c].due = due
      <3> HIDE DEF due
      <3> QED
        BY <2>2, AfterNow
    <2>4. q.sub \in Subs /\ q.input \in Inputs
      BY <2>2, InCall, AdmitInputs
    <2>5. (row')[q.sub] = r
      <3> HIDE DEF r
      <3> QED
        BY <2>2, <2>4, Written
    <2>6. /\ r.status # "absent" /\ (~ Known(q.sub) => r.input = q.input)
      BY <2>4, AdmittedRow DEF Known
    <2>7. due = IF r.input = q.input THEN Answer("ok", <<r.input>>) ELSE Answer("conflict", <<>>)
      <3> HIDE DEF r
      <3> QED
        OBVIOUS
    <2> HIDE DEF r, due
    <2> QED
      BY <1>2, <2>3, <2>5, <2>6, <2>7
  <1> QED
    BY <1>1, <1>2

(* Only the holder of the connection, or a client that finds it free, writes. *)
LEMMA WritesAlone ==
  ASSUME Invariant, NEW c \in Clients, Step(c), row' # row \/ log' # log
  PROVE  conn \in {c, "free"}
  BY DEF Step, StartAdmit, StartClaim, StartCas, StartTx, Starts, DoesRereadAdmitted, DoesReadMark,
         DoesRereadClaimed, DoesBegin, DoesReadStatus, DoesDecide, DoesInsertRecord,
         DoesCommitAppend, DoesFail, DoesReturn, DoesInsert, DoesUpdateClaimed, DoesUpdateCas,
         DoesCommitCancel, Runs, Inside

LEMMA OthersCannotWrite ==
  ASSUME Invariant, NEW c \in Clients, Step(c), NEW d \in Clients \ {c}, call[d].pc \in TxPcs
  PROVE  row' = row /\ log' = log
  <1>1. conn = d
    BY DEF Invariant, Held
  <1> QED
    BY <1>1, WritesAlone

LEMMA CancelKept ==
  ASSUME Invariant, NEW c \in Clients, Step(c)
  PROVE  CancelIsCurrent'
  <1> DEFINE Staged(r) == IF r.status = "running" THEN <<[r EXCEPT !.flag = TRUE]>>
                          ELSE <<[r EXCEPT !.status = "settled", !.resume = FALSE]>>
  <1> SUFFICES ASSUME NEW d \in Clients, (call')[d].pc \in {"write", "commit"},
                      (call')[d].req.op = "cancel"
               PROVE  LET v == (row')[(call')[d].req.sub]
                      IN /\ v.status \in {"queued", "waiting", "running"}
                         /\ (call')[d].status = v.status
                         /\ (call')[d].pc = "commit" => (call')[d].staged = Staged(v)
    BY DEF CancelIsCurrent, At
  <1>0. ASSUME NEW e \in Clients, call[e].pc \in {"write", "commit"}, call[e].req.op = "cancel"
        PROVE  LET r == row[call[e].req.sub]
               IN /\ r.status \in {"queued", "waiting", "running"} /\ call[e].status = r.status
                  /\ call[e].pc = "commit" => call[e].staged = Staged(r)
    BY <1>0 DEF Invariant, CancelIsCurrent, At
  <1> HIDE DEF Staged
  <1>1. CASE d # c
    <2>1. (call')[d] = call[d]
      BY <1>1, RequestAfter
    <2>2. row' = row
      BY <1>1, <2>1, OthersCannotWrite DEF TxPcs
    <2> QED
      BY <1>0, <2>1, <2>2
  <1>2. CASE d = c /\ (call')[c].pc = "write"
    <2> DEFINE r == row[call[c].req.sub]
    <2>1. DoesReadStatus(c) /\ conn' = conn
      BY <1>2, Reaches
    <2>2. row' = row /\ call[c].pc = "tx"
      BY <2>1 DEF DoesReadStatus, Inside
    <2>4. CASE /\ r.status \in {"queued", "waiting", "running"}
               /\ Stages(c, "write", r.status, call[c].staged)
      <3>1. (call')[c].status = r.status /\ (call')[c].req = call[c].req
        <4>1. PICK p, st, sg : st = r.status /\ Stages(c, p, st, sg)
          BY <2>4
        <4>2. (call')[c].status = st /\ (call')[c].req = call[c].req
          BY <4>1, AfterStages
        <4> QED
          BY <4>1, <4>2
      <3> QED
        BY <1>2, <2>2, <2>4, <3>1
    <2>5. CASE Ends(c, Answer("lost", <<>>))
      <3>1. (call')[c].pc = "done"
        BY <2>5, AfterEnds, Zenon
      <3> QED
        BY <1>2, <3>1
    <2> QED
      BY <2>1, <2>4, <2>5, Zenon DEF DoesReadStatus
  <1>3. CASE d = c /\ (call')[c].pc = "commit"
    <2> DEFINE r == row[call[c].req.sub]
    <2>1. ~ DoesInsertRecord(c)
      <3>1. DoesInsertRecord(c) => (call')[c].req.op = "append" \/ (call')[c].pc = "done"
        BY AfterStages, AfterEnds DEF DoesInsertRecord, Inside
      <3> QED
        BY <1>2, <1>3, <3>1
    <2>2. DoesDecide(c)
      BY <1>3, <2>1, Reaches
    <2>3. /\ row' = row /\ call[c].pc = "write" /\ call[c].req.op = "cancel"
          /\ Stages(c, "commit", call[c].status,
                    IF call[c].status = "running" THEN <<[r EXCEPT !.flag = TRUE]>>
                    ELSE <<[r EXCEPT !.status = "settled", !.resume = FALSE]>>)
      BY <2>2, Zenon DEF DoesDecide, Inside
    <2>4. r.status \in {"queued", "waiting", "running"} /\ call[c].status = r.status
      BY <1>0, <2>3
    <2>5. Stages(c, "commit", r.status, Staged(r))
      BY <2>3, <2>4, Zenon DEF Staged
    <2>6. /\ (call')[c].status = r.status /\ (call')[c].req = call[c].req
          /\ (call')[c].staged = Staged(r)
      <3>1. PICK p, st, sg : st = r.status /\ sg = Staged(r) /\ Stages(c, p, st, sg)
        BY <2>5
      <3>2. /\ (call')[c].status = st /\ (call')[c].req = call[c].req
            /\ (call')[c].staged = sg
        BY <3>1, AfterStages
      <3> QED
        BY <3>1, <3>2
    <2> QED
      BY <1>3, <2>3, <2>4, <2>6
  <1> QED
    BY <1>1, <1>2, <1>3

LEMMA LogStep ==
  ASSUME Invariant, NEW c \in Clients, Step(c)
  PROVE  \/ log' = log
         \/ DoesCommitAppend(c)
  BY Zenon
  DEF Step, StartAdmit, StartClaim, StartCas, StartTx, Starts, DoesRereadAdmitted, DoesReadMark,
      DoesRereadClaimed, DoesBegin, DoesReadStatus, DoesDecide, DoesInsertRecord,
      DoesFail, DoesReturn, DoesInsert, DoesUpdateClaimed, DoesUpdateCas, DoesCommitCancel

(* What AppendIsCurrent says of the records staged of a batch, at pc, with the
   log l. *)
Batched(staged, recs, pc, l) ==
  /\ staged \in Seq(STRING) /\ Len(staged) <= Len(recs)
  /\ \A i \in 1 .. Len(staged) :
       staged[i] = recs[i] /\ \A j \in 1 .. Len(l) : staged[i] # l[j]
  /\ pc = "begin" => staged = <<>>
  /\ IF pc = "commit" THEN Len(staged) = Len(recs) ELSE Len(staged) < Len(recs)

LEMMA BatchRecs ==
  ASSUME NEW q \in Contract!Requests, q.op = "append"
  PROVE  q.recs \in Seq(STRING) /\ Len(q.recs) \in Nat /\ Len(q.recs) > 0
  <1>1. q.recs \in Seq(STRING) /\ q.recs # <<>>
    BY RequestKinds, BatchesOfIds
  <1> QED
    BY <1>1

LEMMA BatchGrows ==
  ASSUME NEW staged, NEW recs \in Seq(STRING), NEW l \in Seq(STRING), Batched(staged, recs, "tx", l),
         \A i \in 1 .. Len(l \o staged) : (l \o staged)[i] # recs[Len(staged) + 1]
  PROVE  Batched(Append(staged, recs[Len(staged) + 1]), recs,
                 IF Len(staged) + 1 = Len(recs) THEN "commit" ELSE "tx", l)
  <1> DEFINE id == recs[Len(staged) + 1]
             new == Append(staged, id)
             pc == IF Len(staged) + 1 = Len(recs) THEN "commit" ELSE "tx"
  <1>1. staged \in Seq(STRING) /\ Len(staged) < Len(recs) /\ Len(staged) \in Nat /\ Len(recs) \in Nat
    BY DEF Batched
  <1>2. id \in STRING
    BY <1>1
  <1>3. \A j \in 1 .. Len(l) : id # l[j]
    <2> SUFFICES ASSUME NEW j \in 1 .. Len(l)
                 PROVE  id # l[j]
      OBVIOUS
    <2>1. j \in 1 .. Len(l \o staged) /\ (l \o staged)[j] = l[j]
      BY <1>1
    <2> QED
      BY <2>1
  <1> HIDE DEF id
  <1>4. new \in Seq(STRING) /\ Len(new) = Len(staged) + 1
    BY <1>1, <1>2
  <1>5. ASSUME NEW i \in 1 .. Len(new)
        PROVE  new[i] = recs[i] /\ \A j \in 1 .. Len(l) : new[i] # l[j]
    <2>1. CASE i \in 1 .. Len(staged)
      <3>1. new[i] = staged[i]
        BY <1>1, <1>2, <2>1
      <3> QED
        BY <2>1, <3>1 DEF Batched
    <2>2. CASE i = Len(staged) + 1
      <3>1. new[i] = id
        BY <1>1, <1>2, <2>2
      <3>2. recs[i] = id
        BY <2>2 DEF id
      <3> QED
        BY <1>3, <3>1, <3>2
    <2> QED
      BY <1>1, <1>4, <2>1, <2>2
  <1>6. pc # "begin" /\ IF pc = "commit" THEN Len(new) = Len(recs) ELSE Len(new) < Len(recs)
    BY <1>1, <1>4
  <1>7. Len(new) <= Len(recs)
    BY <1>1, <1>4
  <1> HIDE DEF new, pc
  <1>8. Batched(new, recs, pc, l)
    BY <1>4, <1>5, <1>6, <1>7 DEF Batched
  <1> QED
    BY <1>8 DEF new, pc, id

LEMMA AppendKept ==
  ASSUME Invariant, NEW c \in Clients, Step(c)
  PROVE  AppendIsCurrent'
  <1>0. /\ log \in Seq(STRING)
        /\ \A d \in Clients : call[d].req.op = "append" /\ call[d].pc \in {"begin", "tx", "commit"} =>
             Batched(call[d].staged, call[d].req.recs, call[d].pc, log)
    BY Zenon DEF Invariant, AppendIsCurrent, Batched
  <1>1. log' \in Seq(STRING)
    <2>1. CASE DoesCommitAppend(c)
      <3>1. log' = log \o call[c].staged /\ call[c].req.op = "append" /\ call[c].pc = "commit"
        BY <2>1 DEF DoesCommitAppend, Inside
      <3>2. call[c].staged \in Seq(STRING)
        BY <1>0, <3>1 DEF Batched
      <3> QED
        BY <1>0, <3>1, <3>2
    <2> QED
      BY <1>0, <2>1, LogStep
  <1>2. ASSUME NEW d \in Clients, (call')[d].req.op = "append",
               (call')[d].pc \in {"begin", "tx", "commit"}
        PROVE  Batched((call')[d].staged, (call')[d].req.recs, (call')[d].pc, log')
    <2>1. CASE d # c
      <3>1. (call')[d] = call[d]
        BY <2>1, RequestAfter
      <3>2. Batched(call[d].staged, call[d].req.recs, call[d].pc, log)
        BY <1>0, <1>2, <3>1
      <3>3. CASE call[d].pc = "begin"
        <4>1. call[d].staged = <<>>
          BY <3>2, <3>3 DEF Batched
        <4>2. Batched(call[d].staged, call[d].req.recs, call[d].pc, log')
          BY <3>2, <4>1 DEF Batched
        <4> QED
          BY <3>1, <4>2
      <3>4. CASE call[d].pc \in {"tx", "commit"}
        <4>1. log' = log
          BY <2>1, <3>4, OthersCannotWrite DEF TxPcs
        <4> QED
          BY <3>1, <3>2, <4>1
      <3> QED
        BY <1>2, <3>1, <3>3, <3>4
    <2>2. CASE d = c /\ (call')[c].pc = "begin"
      <3>1. PICK q \in Contract!Requests : StartTx(c, q)
        BY <2>2, Reaches
      <3>2. (call')[c].req = q /\ (call')[c].staged = <<>>
        BY <3>1, AfterStarts DEF StartTx
      <3>3. Len(q.recs) \in Nat /\ Len(q.recs) > 0
        BY <1>2, <2>2, <3>2, BatchRecs
      <3> QED
        BY <2>2, <3>2, <3>3 DEF Batched
    <2>3. CASE d = c /\ DoesBegin(c)
      <3>1. call[c].pc = "begin" /\ log' = log /\ Now(c, "tx", call[c].saw, call[c].due)
        BY <2>3 DEF DoesBegin
      <3>2. (call')[c].pc = "tx" /\ (call')[c].req = call[c].req /\ (call')[c].staged = call[c].staged
        BY <3>1, AfterNow
      <3>3. Batched(call[c].staged, call[c].req.recs, "begin", log)
        BY <1>0, <1>2, <2>3, <3>1, <3>2
      <3>4. Batched(call[c].staged, call[c].req.recs, "tx", log)
        BY <3>3 DEF Batched
      <3> QED
        BY <2>3, <3>1, <3>2, <3>4
    <2>4. CASE d = c /\ DoesInsertRecord(c) /\ (call')[c].pc \in {"tx", "commit"}
      <3> DEFINE staged == call[c].staged
                 recs == call[c].req.recs
                 id == recs[Len(staged) + 1]
                 pc == IF Len(staged) + 1 = Len(recs) THEN "commit" ELSE "tx"
                 new == Append(staged, id)
      <3>1. call[c].pc = "tx" /\ call[c].req.op = "append" /\ log' = log
        BY <2>4 DEF DoesInsertRecord, Inside
      <3>2. ~ Ends(c, Error)
        <4>1. Ends(c, Error) => (call')[c].pc = "done"
          BY AfterEnds
        <4> QED
          BY <2>4, <4>1
      <3>3. /\ \A i \in 1 .. Len(log \o staged) : (log \o staged)[i] # id
            /\ Stages(c, pc, call[c].status, new)
        BY <2>4, <3>2, Zenon DEF DoesInsertRecord
      <3>4. recs \in Seq(STRING)
        BY <3>1, InCall, BatchRecs
      <3>5. Batched(staged, recs, "tx", log)
        BY <1>0, <3>1
      <3>6. Batched(new, recs, pc, log)
        BY <1>0, <3>3, <3>4, <3>5, BatchGrows
      <3>7. (call')[c].pc = pc /\ (call')[c].req = call[c].req /\ (call')[c].staged = new
        <4> HIDE DEF pc, new
        <4> QED
          BY <3>3, AfterStages
      <3> QED
        BY <2>4, <3>1, <3>6, <3>7, Zenon
    <2>5. CASE d = c /\ DoesDecide(c)
      <3>1. call[c].req.op = "cancel" /\ \E p, st, sg : Stages(c, p, st, sg)
        BY <2>5, Zenon DEF DoesDecide, Inside
      <3>2. (call')[c].req.op = "cancel"
        BY <3>1, AfterStages
      <3> QED
        BY <1>2, <2>5, <3>2
    <2> QED
      BY <1>2, <2>1, <2>2, <2>3, <2>4, <2>5, Reaches
  <1> QED
    BY <1>1, <1>2, Zenon DEF AppendIsCurrent, Batched

----------------------------------------------------------------------------
(* The invariant holds initially and stays. *)

LEMMA InvariantInit ==
  ASSUME Init
  PROVE  Invariant
  <1>1. call = [c \in Clients |-> Idle] /\ row = [s \in Subs |-> Absent] /\ log = <<>>
        /\ conn = "free" /\ minted = 0
    BY DEF Init
  <1>2. /\ Absent.status = "absent" /\ Absent.attempt = 0 /\ Absent.count = 0
        /\ Absent.resume = FALSE /\ Absent \in Rows
    BY DEF Absent, Contract!Absent, Rows, Statuses
  <1>3. /\ Idle = Local(Idle.pc, Idle.req, Idle.saw, Idle.status, Idle.staged, Idle.due, Idle.answer)
    BY DEF Idle, Local
  <1>4. Shape
    BY <1>1, <1>3 DEF Shape
  <1>5. Requested
    BY <1>1, Zenon DEF Requested
  <1>6. \A c \in Clients : call[c] = Idle
    BY <1>1
  <1>7. Held /\ Undecided
    BY <1>1, <1>6, IdleLocal DEF Held, Undecided, TxPcs
  <1>8. RowsFit
    BY <1>1, <1>2 DEF RowsFit
  <1>a. \A c \in Clients :
          call[c].pc = "idle" /\ call[c].req.op = "renew" /\ call[c].req.attempt = 0
    BY <1>6, IdleLocal
  <1>9. Minting /\ Named /\ ClaimIsCurrent
    <2>1. Minting
      BY <1>1, <1>a DEF Minting, Claiming
    <2>2. Named
      BY <1>6 DEF Named
    <2>3. ClaimIsCurrent
      BY <1>a DEF ClaimIsCurrent, Claiming
    <2> QED
      BY <2>1, <2>2, <2>3
  <1>10. AdmitIsCurrent /\ CancelIsCurrent /\ AppendIsCurrent
    <2>1. log \in Seq(STRING)
      BY <1>1
    <2> QED
      BY <1>a, <2>1 DEF AdmitIsCurrent, CancelIsCurrent, AppendIsCurrent, At
  <1> QED
    BY <1>4, <1>5, <1>7, <1>8, <1>9, <1>10 DEF Invariant

LEMMA InvariantStep ==
  ASSUME Invariant, [Next]_vars
  PROVE  Invariant'
  <1>1. CASE UNCHANGED vars
    <2>1. row' = row /\ log' = log /\ conn' = conn /\ call' = call /\ minted' = minted
      BY <1>1 DEF vars
    <2>2. Held' /\ Undecided'
      BY <2>1, Zenon DEF Invariant, Held, Undecided
    <2>9. Shape'
      BY <2>1, Zenon DEF Invariant, Shape
    <2>a. Requested'
      <3>1. \A d \in Clients : RequestedAt(call[d])
        BY Zenon DEF Invariant, Requested, RequestedAt, At
      <3>2. \A d \in Clients : RequestedAt((call')[d])
        BY <2>1, <3>1, Zenon
      <3> QED
        BY <3>2, Zenon DEF Requested, RequestedAt, At
    <2>3. RowsFit'
      BY <2>1 DEF Invariant, RowsFit
    <2>7. Minting'
      BY <2>1, Zenon DEF Invariant, Minting, Claiming
    <2>8. Named'
      BY <2>1, Zenon DEF Invariant, Named, Known
    <2>4. ClaimIsCurrent' /\ AdmitIsCurrent'
      BY <2>1, Zenon DEF Invariant, ClaimIsCurrent, AdmitIsCurrent, Claiming, At, Known
    <2>5. CancelIsCurrent'
      BY <2>1, Zenon DEF Invariant, CancelIsCurrent, At
    <2>6. AppendIsCurrent'
      BY <2>1, Zenon DEF Invariant, AppendIsCurrent
    <2> QED
      BY <2>2, <2>3, <2>4, <2>5, <2>6, <2>7, <2>8, <2>9, <2>a, Zenon DEF Invariant
  <1>2. CASE \E c \in Clients : Step(c)
    BY <1>2, ShapeKept, RequestedKept, HeldKept, UndecidedKept, RowsFitKept, MintingKept, NamedKept,
       ClaimKept, AdmitKept, CancelKept, AppendKept, Zenon
    DEF Invariant
  <1> QED
    BY <1>1, <1>2, Steps

(* Every statement of the store keeps what the calls in progress rely on. *)
THEOREM InvariantHolds == Spec => []Invariant
  BY InvariantInit, InvariantStep, PTL DEF Spec

(* The rows have their types, the connection is a transaction's and only a
   transaction's, and no claimed row carries a resume mark. *)
THEOREM TypeCorrect == Spec => []TypeOK
  <1>1. Invariant => TypeOK
    <2> SUFFICES ASSUME Invariant PROVE TypeOK
      OBVIOUS
    <2>1. row \in [Subs -> Rows] /\ minted \in 0 .. MaxClaims
          /\ \A s \in Subs : row[s].resume => row[s].status \in {"waiting", "queued"}
      BY DEF Invariant, RowsFit
    <2>2. conn \in Clients \cup {"free"}
      BY DEF Invariant, Held
    <2>3. conn # "free" => call[conn].req.op \in TxOps /\ call[conn].pc \in {"tx", "write", "commit"}
      <3> SUFFICES ASSUME conn # "free"
                   PROVE  call[conn].req.op \in TxOps /\ call[conn].pc \in {"tx", "write", "commit"}
        OBVIOUS
      <3>1. conn \in Clients /\ call[conn].pc \in TxPcs
        BY <2>2 DEF Invariant, Held
      <3> QED
        BY <3>1, IdleLocal DEF Invariant, Requested, At, TxPcs, TxOps
    <2> QED
      BY <2>1, <2>2, <2>3, Zenon DEF TypeOK, Rows, Statuses
  <1> QED
    BY <1>1, InvariantHolds, PTL

----------------------------------------------------------------------------

View(stage, q, answer) == [stage |-> stage, req |-> q, answer |-> answer]

(* The contract sees client c so; and so after a step of c. *)
Shows(c, stage, q, answer) == seen[c] = View(stage, q, answer)
Turns(c, stage, q, answer) == seen' = [seen EXCEPT ![c] = View(stage, q, answer)]
Answers(c, stage, answer) == seen' = [seen EXCEPT ![c].stage = stage, ![c].answer = answer]
Goes(c, stage) == seen' = [seen EXCEPT ![c].stage = stage]

(* What the contract sees of the locals of a call. *)
LEMMA SeenLocal ==
  ASSUME NEW p, NEW q, NEW sw, NEW st, NEW sg, NEW du, NEW an
  PROVE  LET v == Seen(Local(p, q, sw, st, sg, du, an))
         IN /\ p \in {"idle", "done"} => v = View(p, q, an)
            /\ p = "reread" => v = View("taken", q, du)
            /\ p \in {"insert", "read", "update", "begin", "tx", "write", "commit"} =>
                 v = View("open", q, an)
  BY DEF Seen, Local, View

LEMMA SeenIdle == Seen(Idle) = Contract!Quiet
  BY DEF Seen, Idle, Contract!Quiet, NoAnswer

LEMMA SeenAfter ==
  ASSUME NEW c \in Clients, NEW v, Becomes(c, v)
  PROVE  seen' = [seen EXCEPT ![c] = Seen(v)]
  <1>1. seen' = [d \in Clients |-> Seen((call')[d])]
    BY Zenon DEF seen, Seen
  <1>2. \A d \in Clients : (call')[d] = IF d = c THEN v ELSE call[d]
    BY DEF Becomes
  <1>3. seen' = [d \in Clients |-> IF d = c THEN Seen(v) ELSE Seen(call[d])]
    BY <1>1, <1>2
  <1> QED
    BY <1>3 DEF seen

(* What the contract sees of a client, by the pc it is at. *)
LEMMA SeenNow ==
  ASSUME Invariant, NEW c \in Clients
  PROVE  LET u == call[c]
         IN /\ u.pc = "idle" => Shows(c, "idle", u.req, u.answer)
            /\ u.pc = "done" => Shows(c, "done", u.req, u.answer)
            /\ u.pc = "reread" => Shows(c, "taken", u.req, u.due)
            /\ u.pc \in {"insert", "read", "update", "begin", "tx", "write", "commit"} =>
                 Shows(c, "open", u.req, NoAnswer)
  <1> DEFINE u == call[c]
  <1>1. seen[c] = Seen(u)
    BY DEF seen
  <1>2. u = Local(u.pc, u.req, u.saw, u.status, u.staged, u.due, u.answer)
    BY DEF Invariant, Shape
  <1>3. u.pc # "done" => u.answer = NoAnswer
    BY DEF Invariant, Undecided
  <1> QED
    BY <1>1, <1>2, <1>3, SeenLocal DEF Shows

(* A step of c that changes what the contract sees of it, field by field. *)
LEMMA SeenChanges ==
  ASSUME NEW c \in Clients, NEW s, NEW q, NEW a, NEW t, NEW b,
         Shows(c, s, q, a), Turns(c, t, q, b)
  PROVE  /\ Answers(c, t, b)
         /\ a = b => Goes(c, t)
         /\ s = t /\ a = b => seen' = seen
  <1> DEFINE u == seen[c]
             v == [u EXCEPT !.stage = t]
  <1>1. [seen EXCEPT ![c].stage = t, ![c].answer = b] = [seen EXCEPT ![c] = [v EXCEPT !.answer = b]]
    OBVIOUS
  <1>2. [seen EXCEPT ![c].stage = t] = [seen EXCEPT ![c] = v]
    OBVIOUS
  <1>0. seen[c] = View(s, q, a) /\ seen' = [seen EXCEPT ![c] = View(t, q, b)]
    BY Zenon DEF Shows, Turns
  <1>3. s = t /\ a = b => [seen EXCEPT ![c] = View(t, q, b)] = seen
    BY <1>0 DEF seen
  <1> HIDE DEF u
  <1>4. v = View(t, q, a)
    <2>1. u = View(s, q, a)
      BY <1>0 DEF u
    <2> QED
      BY <2>1 DEF View
  <1> HIDE DEF v
  <1>5. [v EXCEPT !.answer = b] = View(t, q, b)
    BY <1>4 DEF View
  <1> QED
    BY <1>0, <1>1, <1>2, <1>3, <1>4, <1>5, Zenon DEF v, Answers, Goes

----------------------------------------------------------------------------
(* The actions of the contract, in these terms. *)

LEMMA IsTake ==
  ASSUME NEW c \in Clients, NEW q, NEW a, NEW t \in {"taken", "done"},
         Shows(c, "open", q, a),
         Turns(c, t, q, Contract!Reply(q, row[q.sub])),
         row' = IF Contract!Fits(q, row[q.sub])
                THEN [row EXCEPT ![q.sub] = Contract!Swap(q, row[q.sub])] ELSE row,
         log' = IF q.op = "append" /\ Contract!Fits(q, row[q.sub]) THEN log \o q.recs ELSE log
  PROVE  Contract!Take(c)
  <1>1. seen[c].stage = "open" /\ seen[c].req = q
    BY DEF View, Shows
  <1>2. Answers(c, t, Contract!Reply(q, row[q.sub]))
    BY SeenChanges
  <1> QED
    BY <1>1, <1>2, Zenon DEF Contract!Take, Answers

LEMMA IsFail ==
  ASSUME NEW c \in Clients, NEW s \in {"open", "taken"}, NEW q, NEW a,
         Shows(c, s, q, a), Turns(c, "done", q, Error),
         UNCHANGED <<row, log>>
  PROVE  Contract!Fail(c)
  <1>1. seen[c].stage \in {"open", "taken"}
    BY DEF View, Shows
  <1>2. Answers(c, "done", Error)
    BY SeenChanges
  <1> QED
    BY <1>1, <1>2, Zenon DEF Contract!Fail, Error, Answers

LEMMA IsDeliver ==
  ASSUME NEW c \in Clients, NEW q, NEW a,
         Shows(c, "taken", q, a), Turns(c, "done", q, a),
         UNCHANGED <<row, log>>
  PROVE  Contract!Deliver(c)
  <1>1. seen[c].stage = "taken"
    BY DEF View, Shows
  <1>2. Goes(c, "done")
    BY SeenChanges
  <1> QED
    BY <1>1, <1>2, Zenon DEF Contract!Deliver, Goes

LEMMA IsStutter ==
  ASSUME NEW c \in Clients, NEW s, NEW q, NEW a,
         Shows(c, s, q, a), Turns(c, s, q, a),
         UNCHANGED <<row, log>>
  PROVE  UNCHANGED Contract!vars
  <1>1. seen' = seen
    BY SeenChanges
  <1> QED
    BY <1>1 DEF Contract!vars

(* What the contract answers, call by call. *)
LEMMA Replies ==
  ASSUME NEW q, NEW r
  PROVE  LET n == Contract!Swap(q, r)
         IN /\ q.op = "admit" /\ r.status # "absent" =>
                 Contract!Reply(q, r) = IF r.input = q.input THEN Answer("ok", <<r.input>>)
                                        ELSE Answer("conflict", <<>>)
            /\ q.op = "admit" /\ r.status = "absent" => Contract!Reply(q, r) = Answer("ok", <<n.input>>)
            /\ q.op = "claim" /\ Contract!Fits(q, r) =>
                 Contract!Reply(q, r) = Answer("ok", <<n.attempt, n.count, r.resume>>)
            /\ q.op = "cancel" /\ Contract!Fits(q, r) =>
                 Contract!Reply(q, r) = Answer("ok", <<r.status>>)
            /\ q.op \in CasOps \cup {"append"} /\ Contract!Fits(q, r) =>
                 Contract!Reply(q, r) = Answer("ok", <<>>)
            /\ q.op \in CasOps \cup {"claim", "cancel"} /\ ~ Contract!Fits(q, r) =>
                 Contract!Reply(q, r) = Answer("lost", <<>>)
  <1> DEFINE n == Contract!Swap(q, r)
  <1> HIDE DEF n
  <1>1. Contract!Reply(q, r) =
          CASE q.op = "admit" /\ r.status # "absent" ->
                 IF r.input = q.input THEN Answer("ok", <<r.input>>) ELSE Answer("conflict", <<>>)
            [] Contract!Fits(q, r) ->
                 Answer("ok", Contract!Told(q, IF q.op = "cancel" THEN r ELSE n, r.resume))
            [] ~ Contract!Fits(q, r) /\ q.op = "append" -> Contract!Error
            [] OTHER -> Answer("lost", <<>>)
    BY Zenon DEF Contract!Reply, Answer, n
  <1>2. \A x : Contract!Told(q, x, r.resume) =
                  CASE q.op = "claim"  -> <<x.attempt, x.count, r.resume>>
                    [] q.op = "admit"  -> <<x.input>>
                    [] q.op = "cancel" -> <<x.status>>
                    [] OTHER           -> <<>>
    BY Zenon DEF Contract!Told
  <1>3. CASE q.op = "admit"
    <2>1. Contract!Fits(q, r) <=> r.status = "absent"
      BY <1>3 DEF Contract!Fits
    <2> QED
      BY <1>1, <1>2, <1>3, <2>1 DEF n, CasOps
  <1>4. CASE q.op = "claim"
    BY <1>1, <1>2, <1>4 DEF n, CasOps
  <1>5. CASE q.op = "cancel"
    BY <1>1, <1>2, <1>5 DEF CasOps
  <1>6. CASE q.op \in CasOps
    BY <1>1, <1>2, <1>6 DEF CasOps
  <1>7. CASE q.op = "append"
    BY <1>1, <1>2, <1>7 DEF CasOps
  <1> QED
    BY <1>3, <1>4, <1>5, <1>6, <1>7

(* A step as the contract sees it. *)
ContractStep(c) ==
  \/ \E q \in Contract!Requests : Contract!Invoke(c, q)
  \/ Contract!Take(c) \/ Contract!Fail(c) \/ Contract!Deliver(c) \/ Contract!Return(c)
  \/ UNCHANGED Contract!vars

LEMMA SeenGoes ==
  ASSUME NEW c \in Clients
  PROVE  /\ \A p, saw, due : Now(c, p, saw, due) =>
              /\ p = "reread" => Turns(c, "taken", call[c].req, due)
              /\ p \in {"update", "tx"} =>
                   Turns(c, "open", call[c].req, call[c].answer)
         /\ \A answer : Ends(c, answer) =>
              Turns(c, "done", call[c].req, answer)
         /\ \A p \in {"tx", "write", "commit"} : \A status, staged : Stages(c, p, status, staged) =>
              Turns(c, "open", call[c].req, call[c].answer)
  <1>1. ASSUME NEW p, NEW saw, NEW due, Now(c, p, saw, due)
        PROVE  /\ p = "reread" => Turns(c, "taken", call[c].req, due)
               /\ p \in {"update", "tx"} =>
                    Turns(c, "open", call[c].req, call[c].answer)
    <2> DEFINE v == Local(p, call[c].req, saw, call[c].status, call[c].staged, due, call[c].answer)
    <2>1. /\ p = "reread" => Seen(v) = View("taken", call[c].req, due)
          /\ p \in {"update", "tx"} => Seen(v) = View("open", call[c].req, call[c].answer)
      BY SeenLocal
    <2> HIDE DEF v
    <2>2. seen' = [seen EXCEPT ![c] = Seen(v)]
      BY <1>1, SeenAfter, Zenon DEF Now, v
    <2> QED
      BY <2>1, <2>2, Zenon DEF Turns
  <1>2. ASSUME NEW answer, Ends(c, answer)
        PROVE  Turns(c, "done", call[c].req, answer)
    <2> DEFINE v == Local("done", call[c].req, call[c].saw, call[c].status, call[c].staged,
                          call[c].due, answer)
    <2>1. Seen(v) = View("done", call[c].req, answer)
      BY SeenLocal
    <2> HIDE DEF v
    <2>2. seen' = [seen EXCEPT ![c] = Seen(v)]
      BY <1>2, SeenAfter, Zenon DEF Ends, v
    <2> QED
      BY <2>1, <2>2, Zenon DEF Turns
  <1>3. ASSUME NEW p \in {"tx", "write", "commit"}, NEW status, NEW staged, Stages(c, p, status, staged)
        PROVE  Turns(c, "open", call[c].req, call[c].answer)
    <2> DEFINE v == Local(p, call[c].req, call[c].saw, status, staged, call[c].due, call[c].answer)
    <2>1. Seen(v) = View("open", call[c].req, call[c].answer)
      BY SeenLocal
    <2> HIDE DEF v
    <2>2. seen' = [seen EXCEPT ![c] = Seen(v)]
      BY <1>3, SeenAfter, Zenon DEF Stages, v
    <2> QED
      BY <2>1, <2>2, Zenon DEF Turns
  <1> QED
    BY <1>1, <1>2, <1>3, Zenon

LEMMA RefineStart ==
  ASSUME Invariant, NEW c \in Clients, NEW q \in Contract!Requests,
         StartAdmit(c, q) \/ StartClaim(c, q) \/ StartCas(c, q) \/ StartTx(c, q)
  PROVE  Contract!Invoke(c, q)
  <1>1. PICK p \in {"insert", "read", "update", "begin"} : Starts(c, q, p)
    <2>1. \/ Starts(c, q, "insert") \/ Starts(c, q, "read") \/ Starts(c, q, "update")
          \/ Starts(c, q, "begin")
      BY Zenon DEF StartAdmit, StartClaim, StartCas, StartTx
    <2> QED
      BY <2>1
  <1>2. q.op \in {"admit", "append"} \/ row[q.sub].status # "absent"
    BY DEF StartAdmit, StartClaim, StartCas, StartTx, Known, TxOps
  <1> DEFINE v == Local(p, q, FALSE, "absent", <<>>, NoAnswer, NoAnswer)
  <1>3. Seen(v) = View("open", q, NoAnswer)
    BY DEF Seen, Local, View
  <1>4. /\ call[c].pc = "idle" /\ UNCHANGED <<row, log>>
        /\ Becomes(c, v)
    BY <1>1, Zenon DEF Starts
  <1> HIDE DEF v
  <1>5. seen' = [seen EXCEPT ![c] = [stage |-> "open", req |-> q, answer |-> NoAnswer]]
    BY <1>3, <1>4, SeenAfter, Zenon DEF View
  <1>6. seen[c].stage = "idle"
    <2>1. Shows(c, "idle", call[c].req, call[c].answer)
      BY <1>4, SeenNow, Zenon
    <2> QED
      BY <2>1 DEF Shows, View
  <1> QED
    BY <1>2, <1>4, <1>5, <1>6, Zenon DEF Contract!Invoke, NoAnswer

(* The moment of an admission is its INSERT. *)
LEMMA RefineAdmit ==
  ASSUME Invariant, NEW c \in Clients, DoesInsert(c)
  PROVE  Contract!Take(c)
  <1> DEFINE q == call[c].req
             r == row[q.sub]
             w == IF Known(q.sub) THEN r ELSE Contract!Admitted(q.input)
             due == IF w.input = q.input THEN Answer("ok", <<q.input>>)
                    ELSE Answer("conflict", <<>>)
  <1>1. /\ call[c].pc = "insert" /\ q.op = "admit" /\ log' = log
        /\ row' = [row EXCEPT ![q.sub] = w]
        /\ Now(c, "reread", Known(q.sub), due)
    BY Zenon DEF DoesInsert, Runs
  <1>2. q.sub \in Subs /\ q.input \in Inputs /\ row \in [Subs -> Rows] /\ r \in Rows
    BY <1>1, InCall, AdmitInputs DEF Invariant, RowsFit
  <1>3. Shows(c, "open", q, NoAnswer)
    BY <1>1, SeenNow
  <1>4. Turns(c, "taken", q, due)
    <2> HIDE DEF due
    <2> QED
      BY <1>1, SeenGoes
  <1>5. Contract!Fits(q, r) <=> ~ Known(q.sub)
    BY <1>1 DEF Contract!Fits, Known
  <1>6. Contract!Swap(q, r) = Contract!Admitted(q.input)
    BY <1>1 DEF Contract!Swap
  <1>7. row' = IF Contract!Fits(q, r) THEN [row EXCEPT ![q.sub] = Contract!Swap(q, r)] ELSE row
    <2>1. CASE Known(q.sub)
      <3>1. row' = row
        BY <1>1, <1>2, <2>1
      <3> QED
        BY <1>5, <2>1, <3>1
    <2>2. CASE ~ Known(q.sub)
      BY <1>1, <1>5, <1>6, <2>2, Zenon
    <2> QED
      BY <2>1, <2>2
  <1>8. Contract!Reply(q, r) = due
    <2>1. CASE Known(q.sub)
      <3>1. r.status # "absent"
        BY <2>1 DEF Known
      <3>2. Contract!Reply(q, r) = IF r.input = q.input THEN Answer("ok", <<r.input>>)
                                   ELSE Answer("conflict", <<>>)
        <4>1. q.op = "admit"
          BY <1>1
        <4> HIDE DEF q, r
        <4> QED
          BY <3>1, <4>1, Replies
      <3>3. w = r
        BY <2>1
      <3> QED
        BY <3>2, <3>3, Zenon
    <2>2. CASE ~ Known(q.sub)
      <3> DEFINE n == Contract!Admitted(q.input)
      <3>1. n.input = q.input
        BY <1>2, AdmittedRow
      <3>2. Contract!Reply(q, r) = Answer("ok", <<n.input>>)
        <4>1. q.op = "admit" /\ r.status = "absent"
          BY <1>1, <2>2 DEF Known
        <4>2. Contract!Swap(q, r) = n
          BY <1>6, Zenon
        <4> HIDE DEF q, r, n
        <4>3. Contract!Reply(q, r) = Answer("ok", <<Contract!Swap(q, r).input>>)
          BY <4>1, Replies
        <4> QED
          BY <4>2, <4>3, Zenon
      <3>3. w.input = q.input
        <4>1. w = n
          BY <2>2
        <4> QED
          BY <3>1, <4>1, Zenon
      <3>4. due = Answer("ok", <<q.input>>)
        BY <3>3, Zenon
      <3> HIDE DEF n
      <3> QED
        BY <3>1, <3>2, <3>4, Zenon
    <2> QED
      BY <2>1, <2>2
  <1>9. log' = IF q.op = "append" /\ Contract!Fits(q, r) THEN log \o q.recs ELSE log
    BY <1>1
  <1> QED
    BY <1>3, <1>4, <1>7, <1>8, <1>9, IsTake

(* What an admission or a claim reads back is what its statement decided. *)
LEMMA RefineReread ==
  ASSUME Invariant, NEW c \in Clients, DoesRereadAdmitted(c) \/ DoesRereadClaimed(c)
  PROVE  Contract!Deliver(c)
  <1> DEFINE u == call[c]
             q == u.req
             r == row[q.sub]
  <1>1. u.pc = "reread" /\ UNCHANGED <<row, log>>
    BY Zenon DEF DoesRereadAdmitted, DoesRereadClaimed, Runs
  <1>2. Shows(c, "taken", q, u.due)
    BY <1>1, SeenNow
  <1>3. Ends(c, u.due)
    <2>1. CASE DoesRereadAdmitted(c)
      <3>1. At(c, "reread", {"admit"})
        BY <2>1, Zenon DEF DoesRereadAdmitted, Runs, At
      <3>2. /\ u.due = IF r.input = q.input THEN Answer("ok", <<r.input>>)
                       ELSE Answer("conflict", <<>>)
            /\ ~ u.saw => r.input = q.input
        BY <3>1, Zenon DEF Invariant, AdmitIsCurrent
      <3>3. Ends(c, IF u.saw /\ r.input # q.input THEN Answer("conflict", <<>>)
                    ELSE Answer("ok", <<r.input>>))
        BY <2>1, Zenon DEF DoesRereadAdmitted
      <3>4. CASE r.input = q.input
        BY <3>2, <3>3, <3>4, Zenon
      <3>5. CASE r.input # q.input
        BY <3>2, <3>3, <3>5, Zenon
      <3> QED
        BY <3>4, <3>5, Zenon
    <2>2. CASE DoesRereadClaimed(c)
      <3>1. Claiming(c) /\ u.pc = "reread"
        BY <2>2 DEF DoesRereadClaimed, Runs, Claiming
      <3>2. u.due = Answer("ok", <<r.attempt, r.count, u.saw>>)
        BY <3>1, Zenon DEF Invariant, ClaimIsCurrent
      <3> QED
        BY <2>2, <3>2, Zenon DEF DoesRereadClaimed
    <2> QED
      BY <2>1, <2>2, Zenon
  <1>4. Turns(c, "done", q, u.due)
    BY <1>3, SeenGoes
  <1> QED
    BY <1>1, <1>2, <1>4, IsDeliver, Zenon

(* A statement that only reads, or only stages, is no step of the contract. *)
LEMMA RefineQuiet ==
  ASSUME Invariant, NEW c \in Clients,
         \/ DoesReadMark(c) \/ DoesBegin(c) \/ DoesDecide(c)
         \/ DoesReadStatus(c) /\ row[call[c].req.sub].status \in {"queued", "waiting", "running"}
         \/ DoesInsertRecord(c) /\ ~ Ends(c, Error)
  PROVE  UNCHANGED Contract!vars
  <1> DEFINE u == call[c]
             q == u.req
  <1>1. u.pc \in {"read", "begin", "write", "tx"} /\ UNCHANGED <<row, log>>
    <2>1. /\ u.pc = "read" \/ u.pc = "begin" \/ u.pc = "write" \/ u.pc = "tx"
          /\ UNCHANGED <<row, log>>
      BY Zenon DEF DoesReadMark, DoesBegin, DoesDecide, DoesReadStatus, DoesInsertRecord, Runs, Inside
    <2> QED
      BY <2>1
  <1>2. Shows(c, "open", q, NoAnswer)
    BY <1>1, SeenNow
  <1>3. u.answer = NoAnswer
    BY <1>1 DEF Invariant, Undecided
  <1>4. Turns(c, "open", q, u.answer)
    <2>1. CASE DoesReadMark(c) \/ DoesBegin(c)
      <3>1. PICK p, saw, due : p \in {"update", "tx"} /\ Now(c, p, saw, due)
        BY <2>1 DEF DoesReadMark, DoesBegin
      <3> QED
        BY <3>1, SeenGoes
    <2>2. CASE DoesDecide(c)
      <3>1. PICK p, status, staged : p \in {"tx", "write", "commit"} /\ Stages(c, p, status, staged)
        BY <2>2 DEF DoesDecide
      <3> QED
        BY <3>1, SeenGoes
    <2>3. CASE DoesReadStatus(c) /\ row[call[c].req.sub].status \in {"queued", "waiting", "running"}
      <3>1. PICK p, status, staged : p \in {"tx", "write", "commit"} /\ Stages(c, p, status, staged)
        BY <2>3 DEF DoesReadStatus
      <3> QED
        BY <3>1, SeenGoes
    <2>4. CASE DoesInsertRecord(c) /\ ~ Ends(c, Error)
      <3>1. PICK p, status, staged : p \in {"tx", "write", "commit"} /\ Stages(c, p, status, staged)
        <4>1. PICK p, status, staged :
                (p = "tx" \/ p = "commit") /\ Stages(c, p, status, staged)
          BY <2>4, Zenon DEF DoesInsertRecord
        <4> QED
          BY <4>1
      <3> QED
        BY <3>1, SeenGoes
    <2> QED
      BY <2>1, <2>2, <2>3, <2>4, Zenon
  <1> QED
    BY <1>1, <1>2, <1>3, <1>4, IsStutter, Zenon

(* A call that is lost, and one that is not. *)
LEMMA TakeLost ==
  ASSUME Invariant, NEW c \in Clients, NEW q, q = call[c].req, Shows(c, "open", q, NoAnswer),
         q.op \in CasOps \cup {"claim", "cancel"}, ~ Contract!Fits(q, row[q.sub]),
         Ends(c, Answer("lost", <<>>)), UNCHANGED <<row, log>>
  PROVE  Contract!Take(c)
  <1>1. Contract!Reply(q, row[q.sub]) = Answer("lost", <<>>)
    <2> DEFINE r == row[q.sub]
    <2>1. ~ Contract!Fits(q, r)
      OBVIOUS
    <2> HIDE DEF r
    <2>2. Contract!Reply(q, r) = Answer("lost", <<>>)
      BY <2>1, Replies
    <2> QED
      BY <2>2 DEF r
  <1>2. Turns(c, "done", q, Answer("lost", <<>>))
    BY SeenGoes
  <1>3. Turns(c, "done", q, Contract!Reply(q, row[q.sub]))
    BY <1>1, <1>2, Zenon
  <1>4. q.op # "append"
    BY DEF CasOps
  <1> QED
    BY <1>3, <1>4, IsTake

LEMMA TakeFits ==
  ASSUME Invariant, NEW c \in Clients, NEW q, Shows(c, "open", q, NoAnswer),
         NEW t \in {"taken", "done"}, NEW b, Turns(c, t, q, b),
         b = Contract!Reply(q, row[q.sub]),
         q.op # "append", Contract!Fits(q, row[q.sub]),
         row' = [row EXCEPT ![q.sub] = Contract!Swap(q, row[q.sub])], log' = log
  PROVE  Contract!Take(c)
  <1>1. Turns(c, t, q, Contract!Reply(q, row[q.sub]))
    BY Zenon
  <1> QED
    BY <1>1, IsTake

(* The moment of a claim is its UPDATE. *)
LEMMA RefineClaim ==
  ASSUME Invariant, NEW c \in Clients, DoesUpdateClaimed(c)
  PROVE  Contract!Take(c)
  <1> DEFINE u == call[c]
             q == u.req
             r == row[q.sub]
             n == Claimed(r, q.attempt)
             due == Answer("ok", <<n.attempt, n.count, r.resume>>)
  <1>1. u.pc = "update" /\ q.op = "claim" /\ log' = log
    BY DEF DoesUpdateClaimed, Runs
  <1>2. Shows(c, "open", q, NoAnswer)
    BY <1>1, SeenNow
  <1>3. Contract!Fits(q, r) <=> r.status = "queued"
    BY <1>1 DEF Contract!Fits
  <1>4. CASE r.status = "queued" /\ row' = [row EXCEPT ![q.sub] = n] /\ Now(c, "reread", u.saw, due)
    <2>1. Contract!Swap(q, r) = n
      BY <1>1 DEF Contract!Swap, Claimed
    <2>2. Contract!Reply(q, r) = due
      <3> HIDE DEF q, r, n
      <3>1. Contract!Reply(q, r) = Answer("ok", <<Contract!Swap(q, r).attempt,
                                                  Contract!Swap(q, r).count, r.resume>>)
        <4>1. q.op = "claim" /\ Contract!Fits(q, r)
          BY <1>1, <1>3, <1>4
        <4> QED
          BY <4>1, Replies, Zenon
      <3> QED
        BY <2>1, <3>1, Zenon
    <2>3. Turns(c, "taken", q, due)
      <3> HIDE DEF due
      <3> QED
        BY <1>4, SeenGoes
    <2>4. row' = [row EXCEPT ![q.sub] = Contract!Swap(q, r)]
      BY <1>4, <2>1, Zenon
    <2> HIDE DEF due, n
    <2>5. q.op # "append"
      BY <1>1
    <2> QED
      BY <1>1, <1>2, <1>3, <1>4, <2>2, <2>3, <2>4, <2>5, TakeFits
  <1>5. CASE r.status # "queued" /\ row' = row /\ Ends(c, Answer("lost", <<>>))
    BY <1>1, <1>2, <1>3, <1>5, TakeLost
  <1> QED
    BY <1>4, <1>5, Zenon DEF DoesUpdateClaimed

(* The moment of a compare-and-swap is its UPDATE. *)
LEMMA RefineCas ==
  ASSUME Invariant, NEW c \in Clients, DoesUpdateCas(c)
  PROVE  Contract!Take(c)
  <1> DEFINE u == call[c]
             q == u.req
             r == row[q.sub]
  <1>1. u.pc = "update" /\ q.op \in CasOps /\ log' = log
    BY Zenon DEF DoesUpdateCas, Runs
  <1>2. Shows(c, "open", q, NoAnswer)
    BY <1>1, SeenNow
  <1>3. Contract!Fits(q, r) <=> Applies(q)
    BY <1>1 DEF Contract!Fits, Applies, Owns, CasOps
  <1>4. Contract!Swap(q, r) = Set(q)
    BY <1>1 DEF Contract!Swap, Set, CasOps
  <1>5. CASE Applies(q) /\ row' = [row EXCEPT ![q.sub] = Set(q)] /\ Ends(c, Answer("ok", <<>>))
    <2> DEFINE b == Answer("ok", <<>>)
    <2>1. Contract!Reply(q, r) = b
      <3> HIDE DEF q, r
      <3> QED
        BY <1>1, <1>3, <1>5, Replies
    <2> HIDE DEF b
    <2>2. Turns(c, "done", q, b)
      <3>1. Ends(c, b)
        BY <1>5 DEF b
      <3> QED
        BY <3>1, SeenGoes
    <2>3. row' = [row EXCEPT ![q.sub] = Contract!Swap(q, r)]
      BY <1>4, <1>5, Zenon
    <2>4. q.op # "append"
      BY <1>1 DEF CasOps
    <2> QED
      BY <1>1, <1>2, <1>3, <1>5, <2>1, <2>2, <2>3, <2>4, TakeFits
  <1>6. CASE ~ Applies(q) /\ row' = row /\ Ends(c, Answer("lost", <<>>))
    BY <1>1, <1>2, <1>3, <1>6, TakeLost
  <1> QED
    BY <1>5, <1>6, Zenon DEF DoesUpdateCas

(* The moment of a cancel is its COMMIT, or the SELECT that finds it late. *)
LEMMA RefineCancel ==
  ASSUME Invariant, NEW c \in Clients,
         \/ DoesCommitCancel(c)
         \/ DoesReadStatus(c) /\ row[call[c].req.sub].status \notin {"queued", "waiting", "running"}
  PROVE  Contract!Take(c)
  <1> DEFINE u == call[c]
             q == u.req
             r == row[q.sub]
  <1>1. u.pc \in {"tx", "commit"} /\ q.op = "cancel" /\ log' = log
    <2>1. (u.pc = "tx" \/ u.pc = "commit") /\ q.op = "cancel" /\ log' = log
      BY Zenon DEF DoesCommitCancel, DoesReadStatus, Inside
    <2> QED
      BY <2>1
  <1>2. Shows(c, "open", q, NoAnswer)
    BY <1>1, SeenNow
  <1>3. Contract!Fits(q, r) <=> r.status \in {"queued", "waiting", "running"}
    BY <1>1 DEF Contract!Fits
  <1>4. CASE DoesCommitCancel(c)
    <2> DEFINE n == Contract!Swap(q, r)
               b == Answer("ok", <<r.status>>)
    <2>1. At(c, "commit", {"cancel"}) /\ u.pc = "commit"
      BY <1>4, Zenon DEF DoesCommitCancel, Inside, At
    <2>2. /\ r.status \in {"queued", "waiting", "running"} /\ u.status = r.status
          /\ u.staged = IF r.status = "running" THEN <<[r EXCEPT !.flag = TRUE]>>
                        ELSE <<[r EXCEPT !.status = "settled", !.resume = FALSE]>>
      BY <2>1, Zenon DEF Invariant, CancelIsCurrent
    <2>3. n = IF r.status = "running" THEN [r EXCEPT !.flag = TRUE]
              ELSE [r EXCEPT !.status = "settled", !.resume = FALSE]
      BY <1>1 DEF Contract!Swap
    <2> HIDE DEF n
    <2>4. u.staged = <<n>>
      BY <2>2, <2>3, Zenon
    <2>5. u.staged[1] = n
      BY <2>4
    <2>6. row' = [row EXCEPT ![q.sub] = n]
      BY <1>4, <2>5, Zenon DEF DoesCommitCancel
    <2>7. Contract!Reply(q, r) = b
      <3> HIDE DEF q, r
      <3> QED
        BY <1>1, <1>3, <2>2, Replies DEF b
    <2>8. Ends(c, b)
      BY <1>4, <2>2, Zenon DEF DoesCommitCancel
    <2> HIDE DEF b
    <2>9. Turns(c, "done", q, b)
      BY <2>8, SeenGoes
    <2>10. q.op # "append"
      BY <1>1
    <2> QED
      BY <1>1, <1>2, <1>3, <2>2, <2>6, <2>7, <2>9, <2>10, TakeFits DEF n
  <1>5. CASE DoesReadStatus(c) /\ r.status \notin {"queued", "waiting", "running"}
    <2>1. Ends(c, Answer("lost", <<>>)) /\ UNCHANGED <<row, log>>
      BY <1>5, Zenon DEF DoesReadStatus
    <2> QED
      BY <1>1, <1>2, <1>3, <1>5, <2>1, TakeLost
  <1> QED
    BY <1>4, <1>5, Zenon

(* The moment of an append is its COMMIT: all of the batch, or none. *)
LEMMA RefineAppend ==
  ASSUME Invariant, NEW c \in Clients, DoesCommitAppend(c)
  PROVE  Contract!Take(c)
  <1> DEFINE u == call[c]
             q == u.req
             r == row[q.sub]
             b == Answer("ok", <<>>)
  <1>1. /\ u.pc = "commit" /\ q.op = "append" /\ log' = log \o u.staged /\ row' = row
        /\ Ends(c, b)
    BY Zenon DEF DoesCommitAppend, Inside
  <1>2. Shows(c, "open", q, NoAnswer)
    BY <1>1, SeenNow
  <1>3. q \in Contract!Requests /\ q.sub \in Subs /\ row \in [Subs -> Rows]
    BY <1>1, InCall DEF Invariant, RowsFit
  <1>4. q.recs \in Seq(STRING)
    BY <1>1, <1>3, RequestKinds, BatchesOfIds
  <1>5. /\ u.staged \in Seq(STRING) /\ Len(u.staged) = Len(q.recs)
        /\ \A i \in 1 .. Len(u.staged) :
              u.staged[i] = q.recs[i] /\ \A j \in 1 .. Len(log) : u.staged[i] # log[j]
    BY <1>1 DEF Invariant, AppendIsCurrent
  <1>6. u.staged = q.recs
    BY <1>4, <1>5
  <1>7. Contract!Fits(q, r)
    <2>1. \A i \in 1 .. Len(q.recs) : \A j \in 1 .. Len(log) : q.recs[i] # log[j]
      BY <1>5, <1>6
    <2> QED
      BY <1>1, <2>1 DEF Contract!Fits
  <1>8. Contract!Swap(q, r) = r
    BY <1>1 DEF Contract!Swap
  <1>9. row' = [row EXCEPT ![q.sub] = Contract!Swap(q, r)]
    BY <1>1, <1>3, <1>8
  <1>10. Contract!Reply(q, r) = b
    <2> HIDE DEF q, r
    <2> QED
      BY <1>1, <1>7, Replies
  <1> HIDE DEF b
  <1>11. Turns(c, "done", q, b)
    BY <1>1, SeenGoes
  <1>12. Turns(c, "done", q, Contract!Reply(q, r))
    BY <1>10, <1>11, Zenon
  <1>13. log' = IF q.op = "append" /\ Contract!Fits(q, r) THEN log \o q.recs ELSE log
    BY <1>1, <1>6, <1>7
  <1>14. row' = IF Contract!Fits(q, r) THEN [row EXCEPT ![q.sub] = Contract!Swap(q, r)] ELSE row
    BY <1>7, <1>9
  <1> QED
    BY <1>2, <1>12, <1>13, <1>14, IsTake

(* A call may fail at any of its statements. *)
LEMMA RefineFail ==
  ASSUME Invariant, NEW c \in Clients,
         DoesFail(c) \/ (DoesInsertRecord(c) /\ Ends(c, Error))
  PROVE  Contract!Fail(c)
  <1> DEFINE u == call[c]
             q == u.req
  <1>1. u.pc \notin {"idle", "done"} /\ Ends(c, Error) /\ UNCHANGED <<row, log>>
    <2>1. CASE DoesFail(c)
      BY <2>1, Zenon DEF DoesFail
    <2>2. CASE DoesInsertRecord(c) /\ Ends(c, Error)
      <3>1. u.pc = "tx" /\ UNCHANGED <<row, log>>
        BY <2>2, Zenon DEF DoesInsertRecord, Inside
      <3> QED
        BY <2>2, <3>1
    <2> QED
      BY <2>1, <2>2
  <1>2. u.pc \in {"insert", "read", "update", "reread", "begin", "tx", "write", "commit"}
    BY <1>1, IdleLocal DEF Invariant, Requested, At
  <1>3. \E s \in {"open", "taken"} : \E a : Shows(c, s, q, a)
    BY <1>2, SeenNow
  <1> DEFINE e == Error
  <1>4. Turns(c, "done", q, e)
    <2>1. Ends(c, e)
      BY <1>1
    <2> HIDE DEF e
    <2> QED
      BY <2>1, SeenGoes
  <1> QED
    BY <1>1, <1>3, <1>4, IsFail, Zenon

LEMMA RefineReturn ==
  ASSUME Invariant, NEW c \in Clients, DoesReturn(c)
  PROVE  Contract!Return(c)
  <1>1. call[c].pc = "done" /\ Becomes(c, Idle) /\ UNCHANGED <<row, log>>
    BY Zenon DEF DoesReturn
  <1>2. seen' = [seen EXCEPT ![c] = Contract!Quiet]
    BY <1>1, SeenAfter, SeenIdle, Zenon
  <1>3. seen[c].stage = "done"
    <2>1. Shows(c, "done", call[c].req, call[c].answer)
      BY <1>1, SeenNow, Zenon
    <2> QED
      BY <2>1 DEF Shows, View
  <1> QED
    BY <1>1, <1>2, <1>3, Zenon DEF Contract!Return

----------------------------------------------------------------------------

LEMMA RefineInit ==
  ASSUME Init
  PROVE  Contract!Init
  <1>1. seen = [c \in Clients |-> Contract!Quiet]
    <2>1. \A c \in Clients : Seen(call[c]) = Contract!Quiet
      BY SeenIdle DEF Init
    <2> QED
      BY <2>1 DEF seen
  <1> QED
    BY <1>1 DEF Init, Contract!Init, Absent

LEMMA RefineStep ==
  ASSUME Invariant, [Next]_vars
  PROVE  [Contract!Next]_(Contract!vars)
  <1>1. CASE UNCHANGED vars
    <2>1. row' = row /\ log' = log /\ call' = call
      BY <1>1 DEF vars
    <2>2. seen' = seen
      BY <2>1, Zenon DEF seen
    <2> QED
      BY <2>1, <2>2 DEF Contract!vars
  <1>2. CASE \E c \in Clients : Step(c)
    <2>1. PICK c \in Clients : Step(c)
      BY <1>2, Zenon
    <2>2. ContractStep(c)
      <3>1. CASE \E q \in Contract!Requests :
                   StartAdmit(c, q) \/ StartClaim(c, q) \/ StartCas(c, q) \/ StartTx(c, q)
        BY <3>1, RefineStart, Zenon DEF ContractStep
      <3>2. CASE DoesInsert(c) \/ DoesUpdateClaimed(c) \/ DoesUpdateCas(c) \/ DoesCommitCancel(c)
                 \/ DoesCommitAppend(c)
        BY <3>2, RefineAdmit, RefineClaim, RefineCas, RefineCancel, RefineAppend, Zenon DEF ContractStep
      <3>3. CASE DoesRereadAdmitted(c) \/ DoesRereadClaimed(c)
        BY <3>3, RefineReread, Zenon DEF ContractStep
      <3>4. CASE DoesReadMark(c) \/ DoesBegin(c) \/ DoesDecide(c)
        BY <3>4, RefineQuiet, Zenon DEF ContractStep
      <3>5. CASE DoesReadStatus(c)
        BY <3>5, RefineQuiet, RefineCancel, Zenon DEF ContractStep
      <3>6. CASE DoesInsertRecord(c)
        BY <3>6, RefineQuiet, RefineFail, Zenon DEF ContractStep
      <3>7. CASE DoesFail(c) \/ DoesReturn(c)
        BY <3>7, RefineFail, RefineReturn, Zenon DEF ContractStep
      <3> QED
        BY <2>1, <3>1, <3>2, <3>3, <3>4, <3>5, <3>6, <3>7, Zenon DEF Step
    <2> QED
      BY <2>2, Zenon DEF ContractStep, Contract!Next
  <1> QED
    BY <1>1, <1>2, Steps, Zenon

(* Every call takes effect at one moment, on the state it is told of, whatever
   the statements of other calls do in between: the store is the contract's. *)
THEOREM Implements == Spec => ImplementsContract
  BY RefineInit, RefineStep, InvariantHolds, PTL DEF Spec, ImplementsContract, Contract!Spec
=============================================================================
