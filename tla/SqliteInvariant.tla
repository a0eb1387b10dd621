--------------------------- MODULE SqliteInvariant ---------------------------
(***************************************************************************)
(* The inductive invariant of SqliteStore: what a call has read and uses   *)
(* later is still so when it uses it.  TypeOK and the refinement of the    *)
(* contract both follow from it.                                           *)
(***************************************************************************)
EXTENDS SqliteStore

Statuses == {"absent", "queued", "running", "waiting", "terminalizing", "settled"}

Rows == [status : Statuses, attempt : 0 .. MaxClaims, count : 0 .. MaxClaims,
         resume : BOOLEAN, flag : BOOLEAN, input : Inputs \cup {"none"}]

(* The locals of a call are a record of these fields; what a call has read,
   staged and decided is said below, for where it is used. *)
Local(p, q, sw, st, sg, du, an) ==
  [pc |-> p, req |-> q, saw |-> sw, status |-> st, staged |-> sg, due |-> du, answer |-> an]

Shape ==
  /\ call = [c \in Clients |-> call[c]]
  /\ \A c \in Clients :
       call[c] = Local(call[c].pc, call[c].req, call[c].saw, call[c].status, call[c].staged,
                       call[c].due, call[c].answer)

(* The pcs a call of each kind goes through. *)
Requested ==
  \A c \in Clients :
    \/ call[c] = Idle
    \/ /\ call[c].req \in Contract!Requests
       /\ \/ At(c, "insert", {"admit"}) \/ At(c, "reread", {"admit", "claim"})
          \/ At(c, "read", {"claim"}) \/ At(c, "update", {"claim"} \cup CasOps)
          \/ At(c, "begin", TxOps) \/ At(c, "tx", TxOps)
          \/ At(c, "write", {"cancel"}) \/ At(c, "commit", TxOps)
          \/ call[c].pc = "done"

TxPcs == {"tx", "write", "commit"}

(* The connection is a transaction's from BEGIN to COMMIT, and nobody's else. *)
Held ==
  /\ conn \in Clients \cup {"free"}
  /\ \A c \in Clients : conn = c <=> call[c].pc \in TxPcs

(* A call that has not decided has no answer yet. *)
Undecided == \A c \in Clients : call[c].pc # "done" => call[c].answer = NoAnswer

(* Marks are on parked and requeued rows, a running row is somebody's, and
   every attempt counted was minted. *)
RowsFit ==
  /\ row \in [Subs -> Rows]
  /\ minted \in 0 .. MaxClaims
  /\ \A s \in Subs :
       /\ row[s].resume => row[s].status \in {"waiting", "queued"}
       /\ row[s].status = "running" => row[s].attempt # 0
       /\ row[s].attempt <= minted /\ row[s].count <= minted

(* The attempt of a claim in progress is the last one minted: no row has it
   before the UPDATE, and no other call can name it. *)
Claiming(c) == call[c].req.op = "claim"

Minting ==
  \A c \in Clients :
    /\ call[c].req.attempt \in 0 .. minted
    /\ Claiming(c) =>
         /\ c = Loop /\ call[c].req.attempt = minted
         /\ \A d \in Clients \ {c} : call[d].req.attempt < minted
         /\ call[c].pc \in {"read", "update"} =>
              \A s \in Subs : row[s].attempt < minted /\ row[s].count < minted

(* The row a call names is there, unless it is an admission or an append. *)
Named ==
  \A c \in Clients :
    call[c] # Idle /\ call[c].req.op \notin {"admit", "append"} => Known(call[c].req.sub)

(* A claim: the row it goes for can only be settled under it, and its mark
   is the one it read; once it is claimed, it stays with the attempt. *)
ClaimIsCurrent ==
  \A c \in Clients : Claiming(c) =>
    LET r == row[call[c].req.sub]
    IN /\ call[c].pc \in {"read", "update"} => r.status \in {"queued", "settled"}
       /\ call[c].pc = "update" /\ r.status = "queued" => call[c].saw = r.resume
       /\ call[c].pc = "reread" =>
            /\ r.status = "running" /\ r.attempt = call[c].req.attempt
            /\ call[c].due = Answer("ok", <<r.attempt, r.count, call[c].saw>>)

(* An admission: the input of a row stays. *)
AdmitIsCurrent ==
  \A c \in Clients : At(c, "reread", {"admit"}) =>
    LET r == row[call[c].req.sub]
    IN /\ Known(call[c].req.sub)
       /\ call[c].due = IF r.input = call[c].req.input THEN Answer("ok", <<r.input>>)
                        ELSE Answer("conflict", <<>>)
       /\ ~ call[c].saw => r.input = call[c].req.input

(* A cancel: the status it read, and the row it writes. *)
CancelIsCurrent ==
  \A c \in Clients : At(c, "write", {"cancel"}) \/ At(c, "commit", {"cancel"}) =>
    LET r == row[call[c].req.sub]
    IN /\ r.status \in {"queued", "waiting", "running"} /\ call[c].status = r.status
       /\ call[c].pc = "commit" =>
            call[c].staged = IF r.status = "running" THEN <<[r EXCEPT !.flag = TRUE]>>
                             ELSE <<[r EXCEPT !.status = "settled", !.resume = FALSE]>>

(* An append: what it has inserted is the beginning of its batch, and none of
   it is in the log. *)
AppendIsCurrent ==
  /\ log \in Seq(STRING)
  /\ \A c \in Clients : call[c].req.op = "append" /\ call[c].pc \in {"begin", "tx", "commit"} =>
       LET staged == call[c].staged
           recs == call[c].req.recs
       IN /\ staged \in Seq(STRING) /\ Len(staged) <= Len(recs)
          /\ \A i \in 1 .. Len(staged) :
               staged[i] = recs[i] /\ \A j \in 1 .. Len(log) : staged[i] # log[j]
          /\ call[c].pc = "begin" => staged = <<>>
          /\ IF call[c].pc = "commit" THEN Len(staged) = Len(recs)
             ELSE Len(staged) < Len(recs)

Invariant ==
  /\ Shape /\ Requested /\ Held /\ Undecided /\ RowsFit /\ Minting /\ Named
  /\ ClaimIsCurrent /\ AdmitIsCurrent /\ CancelIsCurrent /\ AppendIsCurrent
=============================================================================
