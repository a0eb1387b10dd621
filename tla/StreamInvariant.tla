--------------------------- MODULE StreamInvariant ---------------------------
(***************************************************************************)
(* The inductive invariant of StreamTail: what has to be true of the run,  *)
(* the wake and the reader at every step for a stream to deliver a prefix  *)
(* of the log, to miss no announcement and to end after the settled        *)
(* records.                                                                *)
(***************************************************************************)
EXTENDS StreamTail

Settles(rec, s) == rec.kind = "settled" /\ rec.sub = s
Written(recs, s) == \E i \in 1 .. Len(recs) : Settles(recs[i], s)

----------------------------------------------------------------------------
(* The writers. *)

(* No id is in use that was not minted: the next one is new to the log, to
   the pens, to the events under way and to the child. *)
IdsMinted ==
  /\ \A i \in 1 .. Len(log) : log[i].id <= minted
  /\ \A w \in Writers : pen[w].rec.id <= minted
  /\ \A i \in 1 .. Len(events) : events[i] <= minted
  /\ child.id <= minted /\ run.task <= minted

(* A child lives under the id its spawn record is to have. *)
ChildHasId == child.pc = "live" => child.id # 0

(* The row of the run in flight. *)
RunHasRow ==
  /\ run.pc \in {"drive", "call"} => row[run.sub] = "running"
  /\ run.pc \in {"record", "finalize"} => row[run.sub] = "terminalizing"

(* Only a drive has events, and between drives nothing is being written. *)
RunQuiet ==
  /\ run.pc \notin {"drive", "call"} => events = <<>> /\ run.task = 0
  /\ run.pc \in {"none", "record"} => pen["run"].pc = "idle"

(* Before the row is settled its record is in the log, or is about to be
   appended under an id that nobody else brings. *)
SettledUnderWay ==
  run.pc = "finalize" =>
    \/ Written(log, run.sub) /\ pen["run"].pc # "append"
    \/ /\ pen["run"].pc = "append"
       /\ Settles(pen["run"].rec, run.sub)
       /\ ~Recorded(pen["run"].rec.id)
       /\ child.id # pen["run"].rec.id
       /\ pen["wake"].pc = "append" => pen["wake"].rec.id # pen["run"].rec.id

SettledWritten == \A s \in Subs : row[s] = "settled" => Written(log, s)

----------------------------------------------------------------------------
(* The reader. *)

Sent    == Len(delivered)
Fetched == Len(tail.batch)

(* What was sent, and then what waits to be sent, is the log from its first
   record on, and the offset is the id of the last one sent. *)
OffsetTrue ==
  InOrder =>
    /\ Sent + Fetched <= Len(log)
    /\ \A i \in 1 .. Sent : delivered[i] = log[i]
    /\ \A i \in 1 .. Fetched : tail.batch[i] = log[Sent + i]
    /\ tail.after = IF Sent = 0 THEN 0 ELSE log[Sent].id
    /\ tail.pc # "write" => Fetched = 0

(* After the read, whatever is beyond what it found is being announced. *)
NothingBeyond ==
  InOrder /\ tail.pc \in {"write", "select"} /\ ~tail.woken =>
    \/ Sent + Fetched = Len(log)
    \/ \E w \in Writers : pen[w].pc = "notify"

(* The statuses the scan is done with. *)
Passed == {"absent"} \cup {ScanOrder[i] : i \in 1 .. tail.pos - 1}

(* No submission that was there when the scan began is in a status that the
   scan has passed, and none is left behind by a scan that found nothing. *)
ScanTrue ==
  ~tail.slipped =>
    /\ tail.pc = "scan" /\ tail.pos > 1 =>
         \A s \in tail.admitted : row[s] \notin Passed
    /\ tail.pc # "scan" /\ ~tail.busy =>
         \A s \in tail.admitted : row[s] = "settled"

(* A look at the log of an idle session that finds nothing is the last. *)
LastLook ==
  /\ tail.pc = "closed" => ~tail.busy /\ ~tail.got
  /\ tail.pc = "write" /\ ~tail.got => Fetched = 0
  /\ InOrder /\ ~tail.slipped /\ ~tail.busy /\ ~tail.got
       /\ tail.pc \in {"write", "closed"} =>
     \A s \in tail.admitted : Written(delivered, s)

WritersTrue ==
  IdsMinted /\ ChildHasId /\ RunHasRow /\ RunQuiet /\ SettledUnderWay /\ SettledWritten
ReaderTrue == OffsetTrue /\ NothingBeyond /\ ScanTrue /\ LastLook

Invariant == TypeOK /\ WritersTrue /\ ReaderTrue
=============================================================================
