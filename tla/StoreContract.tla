--------------------------- MODULE StoreContract ---------------------------
(***************************************************************************)
(* What the store promises its callers (store.go): a call takes effect all *)
(* at once, at one moment between its invocation and its answer, as a      *)
(* compare-and-swap on the state it expects; and the answer is that of     *)
(* this moment.  A call that returns an error of another kind may have     *)
(* taken effect or not.                                                    *)
(*                                                                         *)
(* Callers know the ids they use, from a listing or a receipt: only an     *)
(* admission names a row that need not be there.  Calls that only read are *)
(* left out, and so are the times of the lease and of the wait, which no   *)
(* compare looks at.                                                       *)
(***************************************************************************)
EXTENDS Naturals, Sequences

CONSTANTS Subs,      \* submission ids
          Clients,   \* goroutines that call the store
          Inputs,    \* what a submission may ask
          Attempts,  \* attempt ids, numbers from 1
          Batches    \* the sequences of record ids that callers append

VARIABLES row,  \* the rows of the submissions
          log,  \* the record log of a conversation
          call  \* the call each client is in

vars == <<row, log, call>>

(* attempt 0 is the empty attempt id. *)
Absent == [status |-> "absent", attempt |-> 0, count |-> 0, resume |-> FALSE,
           flag |-> FALSE, input |-> "none"]

Admitted(input) == [Absent EXCEPT !.status = "queued", !.input = input]

(* A request names what the parameters of its call name. *)
Req(op, s, a, input, recs) ==
  [op |-> op, sub |-> s, attempt |-> a, input |-> input, recs |-> recs]

NoAnswer == [result |-> "none", value |-> <<>>]
Answer(result, value) == [result |-> result, value |-> value]
Error == Answer("error", <<>>)

----------------------------------------------------------------------------
(* The compare of each operation, its swap, and its answer. *)

Owns(q, r) == r.status = "running" /\ r.attempt = q.attempt

Fits(q, r) ==
  CASE q.op = "admit"    -> r.status = "absent"
    [] q.op = "claim"    -> r.status = "queued"
    [] q.op = "resume"   -> r.status = "waiting"
    [] q.op = "finalize" -> r.status \in {"terminalizing", "settled"}
    [] q.op = "cancel"   -> r.status \in {"queued", "waiting", "running"}
    [] q.op = "append"   -> \A i \in 1 .. Len(q.recs) :
                              \A j \in 1 .. Len(log) : q.recs[i] # log[j]
    [] OTHER             -> Owns(q, r)

(* A claim counts an attempt, unless it resumes a parked submission; it
   consumes the resume mark.  A wait sets it, and a release keeps it. *)
Swap(q, r) ==
  CASE q.op = "admit"    -> Admitted(q.input)
    [] q.op = "claim"    -> [r EXCEPT !.status = "running", !.attempt = q.attempt,
                                      !.count = IF r.resume THEN @ ELSE @ + 1,
                                      !.resume = FALSE]
    [] q.op = "release"  -> [r EXCEPT !.status = "queued", !.attempt = 0]
    [] q.op = "wait"     -> [r EXCEPT !.status = "waiting", !.attempt = 0,
                                      !.resume = TRUE]
    [] q.op = "resume"   -> [r EXCEPT !.status = "queued"]
    [] q.op = "reserve"  -> [r EXCEPT !.status = "terminalizing"]
    [] q.op = "finalize" -> [r EXCEPT !.status = "settled"]
    [] q.op = "cancel"   -> IF r.status = "running" THEN [r EXCEPT !.flag = TRUE]
                            ELSE [r EXCEPT !.status = "settled", !.resume = FALSE]
    [] OTHER             -> r

(* What a caller is told of the row: a claim, who holds it, at which attempt,
   and whether to resume; an admission, what is stored; a cancel, what it
   found. *)
Told(q, r, resume) ==
  CASE q.op = "claim"  -> <<r.attempt, r.count, resume>>
    [] q.op = "admit"  -> <<r.input>>
    [] q.op = "cancel" -> <<r.status>>
    [] OTHER           -> <<>>

Reply(q, r) ==
  CASE q.op = "admit" /\ r.status # "absent" ->
         IF r.input = q.input THEN Answer("ok", <<r.input>>) ELSE Answer("conflict", <<>>)
    [] Fits(q, r) ->
         Answer("ok", Told(q, IF q.op = "cancel" THEN r ELSE Swap(q, r), r.resume))
    [] ~Fits(q, r) /\ q.op = "append" -> Error
    [] OTHER -> Answer("lost", <<>>)

----------------------------------------------------------------------------

Quiet == [stage |-> "idle", req |-> Req("renew", CHOOSE s \in Subs : TRUE, 0, "none", <<>>),
          answer |-> NoAnswer]

Init ==
  /\ row = [s \in Subs |-> Absent]
  /\ log = <<>>
  /\ call = [c \in Clients |-> Quiet]

Invoke(c, q) ==
  /\ call[c].stage = "idle"
  /\ q.op \in {"admit", "append"} \/ row[q.sub].status # "absent"
  /\ call' = [call EXCEPT ![c] = [stage |-> "open", req |-> q, answer |-> NoAnswer]]
  /\ UNCHANGED <<row, log>>

(* The moment of the call. *)
Take(c) ==
  /\ call[c].stage = "open"
  /\ LET q == call[c].req
         r == row[q.sub]
     IN /\ row' = IF Fits(q, r) THEN [row EXCEPT ![q.sub] = Swap(q, r)] ELSE row
        /\ log' = IF q.op = "append" /\ Fits(q, r) THEN log \o q.recs ELSE log
        /\ \E stage \in {"taken", "done"} :
             call' = [call EXCEPT ![c].stage = stage, ![c].answer = Reply(q, r)]

Fail(c) ==
  /\ call[c].stage \in {"open", "taken"}
  /\ call' = [call EXCEPT ![c].stage = "done", ![c].answer = Error]
  /\ UNCHANGED <<row, log>>

Deliver(c) ==
  /\ call[c].stage = "taken"
  /\ call' = [call EXCEPT ![c].stage = "done"]
  /\ UNCHANGED <<row, log>>

Return(c) ==
  /\ call[c].stage = "done"
  /\ call' = [call EXCEPT ![c] = Quiet]
  /\ UNCHANGED <<row, log>>

Requests ==
  {Req("admit", s, 0, input, <<>>) : s \in Subs, input \in Inputs}
    \cup {Req(op, s, a, "none", <<>>) : op \in {"claim", "release", "wait", "reserve", "renew"},
                                         s \in Subs, a \in Attempts}
    \cup {Req(op, s, 0, "none", <<>>) : op \in {"resume", "finalize", "cancel"}, s \in Subs}
    \cup {Req("append", s, 0, "none", recs) : s \in Subs, recs \in Batches}

Next ==
  \E c \in Clients :
    \/ \E q \in Requests : Invoke(c, q)
    \/ Take(c) \/ Fail(c) \/ Deliver(c) \/ Return(c)

Spec == Init /\ [][Next]_vars
=============================================================================
