---------------------------- MODULE StreamProofs ----------------------------
(*****************************************************************************)
(* Proofs about StreamTail, for every value of its constants: that the       *)
(* types are kept, that the invariant of the writers (ids, rows and records  *)
(* agree) is kept by each step, and on top of it the invariant of the        *)
(* reader, from which follow the prefix, the announcements and the clean     *)
(* close.                                                                    *)
(*****************************************************************************)
EXTENDS StreamInvariant, SequenceFacts

----------------------------------------------------------------------------
(* Search and ReadRecords. *)

(* What the type of the log says of its records. *)
LEMMA LogType ==
  ASSUME TypeOK
  PROVE  /\ log \in Seq(Records) /\ Len(log) \in Nat
         /\ \A i \in 1 .. Len(log) : log[i] \in Records /\ log[i].id \in Nat \ {0}
<1>1. log \in Seq(Records)
  BY DEF TypeOK
<1>2. \A i \in 1 .. Len(log) : log[i] \in Records
  BY <1>1
<1>. QED
  BY <1>1, <1>2 DEF Records

Ranges == [lo : Nat, hi : Nat]

Halves(r, after) ==
  /\ r \in [0 .. Len(log) -> Ranges]
  /\ r[0] = [lo |-> 0, hi |-> Len(log)]
  /\ \A i \in 1 .. Len(log) : r[i] = Halve(r[i - 1], after)

(* The middle of a range is in the range, and below its end. *)
LEMMA MiddleType ==
  ASSUME NEW a \in Nat, NEW b \in Nat
  PROVE  /\ (a + b) \div 2 \in Nat
         /\ a < b => a <= (a + b) \div 2 /\ (a + b) \div 2 < b
  OBVIOUS

(* A step of the binary search stays within the log. *)
LEMMA HalveType ==
  ASSUME NEW r \in Ranges, NEW after
  PROVE  Halve(r, after) \in Ranges
  BY MiddleType DEF Halve, Ranges

(* The search is as many halvings as the log has records. *)
LEMMA SearchDef ==
  ASSUME TypeOK, NEW after
  PROVE  \E r : Halves(r, after) /\ Search(after) = r[Len(log)].lo
<1>. DEFINE n == Len(log)
            base == [lo |-> 0, hi |-> n]
            step == [i \in 1 .. n |-> [q \in Ranges |-> Halve(q, after)]]
            range[i \in 0 .. n] == IF i = 0 THEN base ELSE Halve(range[i - 1], after)
<1>1. n \in Nat /\ base \in Ranges
  BY DEF TypeOK, Ranges
<1>2. step \in [1 .. n -> [Ranges -> Ranges]]
  BY HalveType
<1>3. Search(after) = range[n].lo
  BY DEF Search
<1>. HIDE DEF n, base, step, range
<1>4. PICK f : Iterates(f, n, Ranges, base, step)
  BY <1>1, <1>2, Iteration
<1>5. \A i \in 1 .. n : f[i] = Halve(f[i - 1], after)
  <2>. TAKE i \in 1 .. n
  <2>1. f[i - 1] \in Ranges
    BY <1>1, <1>4 DEF Iterates
  <2>. QED
    BY <1>4, <2>1 DEF Iterates, step
<1>6. f = [i \in 0 .. n |-> IF i = 0 THEN base ELSE Halve(f[i - 1], after)]
  BY <1>1, <1>4, <1>5 DEF Iterates
<1>7. range = [i \in 0 .. n |-> IF i = 0 THEN base ELSE Halve(range[i - 1], after)]
  BY <1>6 DEF range
<1>8. /\ range[0] = base
      /\ \A i \in 1 .. n : range[i] = Halve(range[i - 1], after)
  <2>1. 0 \in 0 .. n /\ \A i \in 1 .. n : i \in 0 .. n /\ i # 0
    BY <1>1
  <2>. QED
    BY <1>7, <2>1
<1>9. \A i \in 0 .. n : range[i] \in Ranges
  BY <1>1, <1>8, HalveType, Along
<1>10. range \in [0 .. n -> Ranges]
  BY <1>7, <1>9
<1>. QED
  BY <1>3, <1>8, <1>10 DEF Halves, n, base

(* The binary search of MemoryStore.ReadRecords (memory.go:80) ends after the
   last record that is not newer than the offset, when the ids of the log are
   in order. *)
LEMMA SearchFinds ==
  ASSUME TypeOK, NEW after \in Nat
  PROVE  /\ Search(after) \in 0 .. Len(log)
         /\ InOrder => \A i \in 1 .. Len(log) : i <= Search(after) <=> log[i].id <= after
<1>. DEFINE n == Len(log)
<1>1. n \in Nat /\ \A i \in 1 .. n : log[i].id \in Nat
  BY LogType
<1>2. PICK r : Halves(r, after) /\ Search(after) = r[n].lo
  BY SearchDef
<1>. HIDE DEF n
<1>. DEFINE Narrowed(i) ==
              /\ r[i].lo <= r[i].hi /\ r[i].hi <= n
              /\ r[i].hi - r[i].lo <= n - i
              /\ InOrder => /\ \A j \in 1 .. n : j <= r[i].lo => log[j].id <= after
                            /\ \A j \in 1 .. n : j > r[i].hi => log[j].id > after
            P == {i \in 0 .. n : Narrowed(i)}
<1>3. 0 \in P
  BY <1>1, <1>2 DEF Halves, n
<1>4. \A i \in 0 .. n - 1 : i \in P => i + 1 \in P
  <2>. TAKE i \in 0 .. n - 1
  <2>. HAVE i \in P
  <2>. DEFINE lo == r[i].lo
              hi == r[i].hi
              h  == (lo + hi) \div 2
  <2>1. /\ i + 1 \in 0 .. n /\ i + 1 \in 1 .. n /\ (i + 1) - 1 = i /\ i \in 0 .. n
    BY <1>1
  <2>2. r[i + 1] = Halve(r[i], after) /\ r[i] \in Ranges
    BY <1>2, <2>1 DEF Halves, n
  <2>3. lo \in Nat /\ hi \in Nat /\ r[i] = [lo |-> lo, hi |-> hi]
    BY <2>2 DEF Ranges
  <2>4. CASE lo >= hi
    <3>1. r[i + 1] = r[i] /\ lo = hi
      BY <2>2, <2>3, <2>4 DEF Halve
    <3>. QED
      BY <1>1, <2>1, <2>3, <3>1
  <2>5. CASE lo < hi
    <3>1. h \in Nat /\ lo <= h /\ h < hi
      BY <2>3, <2>5, MiddleType
    <3>2. h + 1 \in 1 .. n
      BY <1>1, <2>3, <3>1
    <3>3. CASE log[h + 1].id > after
      <4>1. r[i + 1].lo = lo /\ r[i + 1].hi = h
        BY <2>2, <2>3, <2>5, <3>3 DEF Halve
      <4>2. InOrder => \A j \in 1 .. n : j > h => log[j].id > after
        BY <1>1, <3>1, <3>2, <3>3 DEF InOrder, n
      <4>3. Narrowed(i + 1)
        BY <1>1, <2>1, <2>3, <2>5, <3>1, <4>1, <4>2
      <4>. QED
        BY <2>1, <4>3
    <3>4. CASE ~(log[h + 1].id > after)
      <4>1. r[i + 1].lo = h + 1 /\ r[i + 1].hi = hi
        BY <2>2, <2>3, <2>5, <3>4 DEF Halve
      <4>2. ASSUME InOrder, NEW j \in 1 .. n, j <= h + 1
            PROVE  log[j].id <= after
        <5>1. CASE j = h + 1
          BY <3>4, <5>1, <1>1, <3>2
        <5>2. CASE j < h + 1
          <6>1. log[j].id < log[h + 1].id
            BY <3>2, <4>2, <5>2 DEF InOrder, n
          <6>. QED
            BY <1>1, <3>2, <3>4, <6>1
        <5>. QED
          BY <3>1, <4>2, <5>1, <5>2
      <4>3. Narrowed(i + 1)
        BY <1>1, <2>1, <2>3, <2>5, <3>1, <4>1, <4>2
      <4>. QED
        BY <2>1, <4>3
    <3>. QED
      BY <3>3, <3>4
  <2>. QED
    BY <2>3, <2>4, <2>5
<1>. HIDE DEF P
<1>5. n \in P
  <2>1. \A i \in 0 .. n : i \in P
    BY <1>1, <1>3, <1>4, InductionUpTo
  <2>. QED
    BY <1>1, <2>1
<1>6. r[n].lo \in Nat /\ r[n].hi \in Nat
  BY <1>1, <1>2 DEF Halves, n, Ranges
<1>7. Narrowed(n)
  BY <1>5 DEF P
<1>8. r[n].lo = r[n].hi
  BY <1>1, <1>6, <1>7
<1>9. Search(after) \in 0 .. n
  BY <1>1, <1>2, <1>6, <1>7
<1>10. ASSUME InOrder, NEW j \in 1 .. n
       PROVE  j <= Search(after) <=> log[j].id <= after
  BY <1>1, <1>2, <1>6, <1>7, <1>8, <1>10
<1>. QED
  BY <1>9, <1>10 DEF n

(* A read returns records. *)
LEMMA ReadRecordsType ==
  ASSUME TypeOK, NEW after \in Nat
  PROVE  ReadRecords(after) \in Seq(Records)
<1>1. log \in Seq(Records) /\ Len(log) \in Nat
  BY LogType
<1>2. Search(after) \in 0 .. Len(log)
  BY SearchFinds
<1>3. SubSeq(log, Search(after) + 1, Len(log)) \in Seq(Records)
  BY <1>1, <1>2, SubSeqProperties
<1>4. Only(log, Newer(after)) \in Seq(Records)
  <2>1. Only(log, Newer(after)) \in Seq(Records \cap Newer(after))
    BY <1>1, OnlyType
  <2>2. Records \cap Newer(after) \subseteq Records
    OBVIOUS
  <2>. QED
    BY <2>1, <2>2, SeqMonotonic
<1>. QED
  BY <1>1, <1>3, <1>4 DEF ReadRecords

(* From the offset of the k-th record, a read returns the records after it,
   with either adapter, when the ids of the log are in order. *)
LEMMA ReadsTheRest ==
  ASSUME TypeOK, InOrder, NEW k \in 0 .. Len(log), NEW after,
         after = IF k = 0 THEN 0 ELSE log[k].id
  PROVE  ReadRecords(after) = SubSeq(log, k + 1, Len(log))
<1>. DEFINE n == Len(log)
<1>1. /\ log \in Seq(Records) /\ n \in Nat
      /\ \A i \in 1 .. n : log[i] \in Records /\ log[i].id \in Nat \ {0}
  BY LogType
<1>2. after \in Nat /\ (after = 0 <=> k = 0)
  BY <1>1
<1>3. \A i, j \in 1 .. n : i < j => log[i].id < log[j].id
  BY DEF InOrder
<1>4. \A i \in 1 .. n : i <= k <=> log[i].id <= after
  BY <1>1, <1>3
<1>. HIDE DEF n
<1>5. CASE Memory
  <2>1. CASE k = 0
    BY <1>1, <1>2, <1>5, <2>1, SubSeqFull DEF ReadRecords, n
  <2>2. CASE k # 0
    <3>. DEFINE m == Search(after)
    <3>1. m \in 0 .. n /\ \A i \in 1 .. n : i <= m <=> log[i].id <= after
      BY <1>2, SearchFinds DEF n
    <3>. HIDE DEF m
    <3>2. \A i \in 1 .. n : i <= m <=> i <= k
      BY <1>4, <3>1
    <3>3. m = k
      <4>1. m # 0 => m <= k
        BY <1>1, <3>1, <3>2
      <4>2. k # 0 => k <= m
        BY <1>1, <3>1, <3>2 DEF n
      <4>. QED
        BY <3>1, <4>1, <4>2
    <3>. QED
      BY <1>2, <1>5, <2>2, <3>3 DEF ReadRecords, m
  <2>. QED
    BY <2>1, <2>2
<1>6. CASE ~Memory
  <2>1. \A i \in 1 .. n : log[i] \in Newer(after) <=> log[i].id > after
    BY <1>1 DEF Newer, ToSet, n
  <2>2. \A i \in 1 .. k : log[i] \notin Newer(after)
    BY <1>1, <1>2, <1>4, <2>1 DEF n
  <2>3. \A i \in k + 1 .. n : log[i] \in Newer(after)
    BY <1>1, <1>2, <1>4, <2>1 DEF n
  <2>4. Only(log, Newer(after)) = SubSeq(log, k + 1, n)
    BY <1>1, <2>2, <2>3, OnlyTheLast DEF n
  <2>. QED
    BY <1>6, <2>4 DEF ReadRecords, n
<1>. QED
  BY <1>5, <1>6

----------------------------------------------------------------------------
(* Types. *)

(* A record is built of an id, a kind and a submission. *)
LEMMA RecordType ==
  ASSUME TypeOK, NEW i \in Nat \ {0}, NEW k \in Kinds, NEW s \in Subs
  PROVE  [id |-> i, kind |-> k, sub |-> s] \in Records
  BY DEF Records

(* The constants that Init uses are of their types. *)
LEMMA ConstantTypes ==
  /\ 1 \in Subs
  /\ NoPen.rec \in Records /\ NoPen \in [pc : {"idle", "append", "notify"}, rec : Records]
<1>1. 1 \in Subs
  BY StreamAssumption DEF Subs
<1>. QED
  BY <1>1 DEF NoPen, Records, Kinds

(* A round of the reader starts in a state of its type. *)
LEMMA RoundType ==
  ASSUME NEW after \in Nat
  PROVE  Round(after) \in
           [pc : {"scan", "channel", "read", "write", "select", "closed"},
            pos : 1 .. 4, busy : BOOLEAN, after : Nat, batch : Seq(Records),
            got : BOOLEAN, woken : BOOLEAN, admitted : SUBSET Subs,
            slipped : BOOLEAN]
<1>1. <<>> \in Seq(Records) /\ {} \in SUBSET Subs
  BY EmptySeq
<1>. QED
  BY <1>1 DEF Round

(* The initial state is of its type. *)
LEMMA InitType == Init => TypeOK
<1>. SUFFICES ASSUME Init PROVE TypeOK
  OBVIOUS
<1>1. row \in [Subs -> Statuses]
  BY DEF Init, Statuses
<1>2. log \in Seq(Records)
  <2>1. [id |-> 1, kind |-> "created", sub |-> 1] \in Records
    BY ConstantTypes DEF NoPen
  <2>. QED
    BY <2>1 DEF Init
<1>3. run \in [sub : Subs, pc : {"none", "drive", "call", "record", "finalize"},
              suspended : BOOLEAN, task : Nat]
  BY ConstantTypes DEF Init, NoRun
<1>4. child \in [pc : {"none", "live", "settling", "answered", "told"}, id : Nat, sub : Subs]
  BY ConstantTypes DEF Init, NoChild
<1>5. pen \in [Writers -> [pc : {"idle", "append", "notify"}, rec : Records]]
  BY ConstantTypes DEF Init
<1>6. minted \in Nat /\ events \in Seq(Nat) /\ delivered \in Seq(Records)
  BY DEF Init
<1>7. spent \in [DOMAIN Bounds -> Nat]
  BY DEF Init
<1>8. tail = Round(0)
  BY DEF Init
<1>. QED
  BY <1>1, <1>2, <1>3, <1>4, <1>5, <1>6, <1>7, <1>8, RoundType DEF TypeOK

RunType   == [sub : Subs, pc : {"none", "drive", "call", "record", "finalize"},
              suspended : BOOLEAN, task : Nat]
ChildType == [pc : {"none", "live", "settling", "answered", "told"},
              id : Nat, sub : Subs]
PenType   == [Writers -> [pc : {"idle", "append", "notify"}, rec : Records]]
TailType  == [pc : {"scan", "channel", "read", "write", "select", "closed"},
              pos : 1 .. 4, busy : BOOLEAN, after : Nat, batch : Seq(Records),
              got : BOOLEAN, woken : BOOLEAN, admitted : SUBSET Subs,
              slipped : BOOLEAN]

(* TypeOK, one variable at a time. *)
LEMMA TypeParts ==
  ASSUME TypeOK
  PROVE  /\ row \in [Subs -> Statuses] /\ log \in Seq(Records) /\ minted \in Nat
         /\ run \in RunType /\ events \in Seq(Nat) /\ child \in ChildType
         /\ pen \in PenType /\ spent \in [DOMAIN Bounds -> Nat]
         /\ tail \in TailType /\ delivered \in Seq(Records)
  BY DEF TypeOK, RunType, ChildType, PenType, TailType

(* TypeOK of the next state, from one variable at a time. *)
LEMMA TypeNext ==
  ASSUME row' \in [Subs -> Statuses], log' \in Seq(Records), minted' \in Nat,
         run' \in RunType, events' \in Seq(Nat), child' \in ChildType,
         pen' \in PenType, spent' \in [DOMAIN Bounds -> Nat],
         tail' \in TailType, delivered' \in Seq(Records)
  PROVE  TypeOK'
  BY DEF TypeOK, RunType, ChildType, PenType, TailType

(* Spending a bound. *)
LEMMA SpendType ==
  ASSUME TypeOK, NEW b \in DOMAIN Bounds, Spend(b)
  PROVE  spent' \in [DOMAIN Bounds -> Nat]
  BY TypeParts DEF Spend

(* A writer that takes up a record. *)
LEMMA TakeType ==
  ASSUME TypeOK, NEW w \in Writers, NEW rec \in Records, Take(w, rec)
  PROVE  pen' \in PenType
  BY TypeParts DEF Take, PenType

(* A writer that mints an id for its record. *)
LEMMA BuildType ==
  ASSUME TypeOK, NEW w \in Writers, NEW k \in Kinds, NEW s \in Subs, Build(w, k, s)
  PROVE  pen' \in PenType /\ minted' \in Nat
<1>1. minted + 1 \in Nat \ {0} /\ minted' = minted + 1
  BY TypeParts DEF Build
<1>. QED
  BY <1>1, RecordType, TakeType DEF Build

(* A writer that appends its record, or puts it down. *)
LEMMA PenIdleType ==
  ASSUME TypeOK, NEW w \in Writers
  PROVE  /\ [pen EXCEPT ![w] = NoPen] \in PenType
         /\ [pen EXCEPT ![w].pc = "notify"] \in PenType
         /\ pen[w].rec \in Records
  BY TypeParts, ConstantTypes DEF PenType

(* A submission that changes status. *)
LEMMA RowMoves ==
  ASSUME TypeOK, NEW s \in Subs, NEW st \in Statuses
  PROVE  [row EXCEPT ![s] = st] \in [Subs -> Statuses]
  BY TypeParts

(* A scan that ends. *)
LEMMA ScannedType ==
  ASSUME NEW t \in TailType, NEW b \in BOOLEAN
  PROVE  [t EXCEPT !.pc = "channel", !.busy = b, !.pos = 1] \in TailType
<1>1. [t EXCEPT !.pc = "channel"] \in TailType
  BY DEF TailType
<1>2. [[t EXCEPT !.pc = "channel"] EXCEPT !.busy = b] \in TailType
  BY <1>1 DEF TailType
<1>3. [[[t EXCEPT !.pc = "channel"] EXCEPT !.busy = b] EXCEPT !.pos = 1] \in TailType
  BY <1>2, 1 \in 1 .. 4 DEF TailType
<1>. QED
  BY <1>3

(* Every step keeps the types; the id that a call has minted for its child is
   a number (ChildHasId). *)
LEMMA TypeStep == TypeOK /\ ChildHasId /\ [Next]_vars => TypeOK'
<1>. SUFFICES ASSUME TypeOK, ChildHasId, [Next]_vars PROVE TypeOK'
  OBVIOUS
<1>. USE TypeNext
<1>0. /\ row \in [Subs -> Statuses] /\ log \in Seq(Records) /\ minted \in Nat
      /\ run \in RunType /\ events \in Seq(Nat) /\ child \in ChildType
      /\ pen \in PenType /\ spent \in [DOMAIN Bounds -> Nat]
      /\ tail \in TailType /\ delivered \in Seq(Records)
  BY TypeParts
<1>. USE <1>0
<1>. USE DEF desk, reader
<1>1. CASE Dispatch
  <2>1. row' \in [Subs -> Statuses]
    BY <1>1, RowMoves DEF Dispatch, Statuses
  <2>. QED
    BY <1>1, <2>1 DEF Dispatch
<1>2. CASE AgentEvent
  <2>1. events' \in Seq(Nat) /\ spent' \in [DOMAIN Bounds -> Nat]
    BY <1>2, SpendType DEF AgentEvent, Bounds
  <2>. QED
    BY <1>2, <2>1 DEF AgentEvent
<1>3. CASE CallTask
  <2>1. events' \in Seq(Nat) /\ spent' \in [DOMAIN Bounds -> Nat]
    BY <1>3, SpendType DEF CallTask, Bounds
  <2>2. run' \in RunType
    BY <1>3 DEF CallTask, Step, RunType
  <2>. QED
    BY <1>3, <2>1, <2>2 DEF CallTask
<1>4. CASE Reconnect
  <2>1. (IF delivered = <<>> THEN 0 ELSE Last(delivered).id) \in Nat
    <3>1. CASE delivered # <<>>
      <4>1. Last(delivered) \in Records
        <5>1. Len(delivered) \in 1 .. Len(delivered)
          BY <3>1, EmptySeq
        <5>. QED
          BY <5>1 DEF Last
      <4>. QED
        BY <3>1, <4>1 DEF Records
    <3>. QED
      BY <3>1
  <2>2. tail' \in TailType
    BY <1>4, <2>1, RoundType DEF Reconnect, TailType
  <2>3. spent' \in [DOMAIN Bounds -> Nat]
    BY <1>4, SpendType DEF Reconnect, Bounds
  <2>. QED
    BY <1>4, <2>2, <2>3 DEF Reconnect
<1>5. CASE ClaimSubmission
  <2>1. PICK s \in Subs : /\ row' = [row EXCEPT ![s] = "running"]
                          /\ run' = [NoRun EXCEPT !.sub = s, !.pc = "drive"]
    BY <1>5 DEF ClaimSubmission
  <2>2. row' \in [Subs -> Statuses]
    BY <2>1, RowMoves DEF Statuses
  <2>3. run' \in RunType
    BY <2>1 DEF NoRun, RunType
  <2>. QED
    BY <1>5, <2>2, <2>3 DEF ClaimSubmission
<1>6. CASE DriveEnds
  <2>1. run.sub \in Subs
    BY DEF RunType
  <2>2. row' \in [Subs -> Statuses]
    BY <1>6, <2>1, RowMoves DEF DriveEnds, BackToQueued, Statuses
  <2>3. run' \in RunType
    <3>1. run' = NoRun \/ run' = [run EXCEPT !.pc = "record"]
      BY <1>6 DEF DriveEnds, Step
    <3>2. NoRun \in RunType
      BY ConstantTypes DEF NoRun, RunType
    <3>3. [run EXCEPT !.pc = "record"] \in RunType
      BY DEF RunType
    <3>. QED
      BY <3>1, <3>2, <3>3
  <2>4. spent' \in [DOMAIN Bounds -> Nat]
    BY <1>6, SpendType DEF DriveEnds, Bounds
  <2>5. tail' \in TailType
    BY <1>6 DEF DriveEnds, BackToQueued, TailType
  <2>. QED
    BY <1>6, <2>2, <2>3, <2>4, <2>5 DEF DriveEnds
<1>7. CASE FinalizeSettlement
  <2>1. run.sub \in Subs
    BY DEF RunType
  <2>2. row' \in [Subs -> Statuses]
    BY <1>7, <2>1, RowMoves DEF FinalizeSettlement, Statuses
  <2>3. run' \in RunType
    BY <1>7, ConstantTypes DEF FinalizeSettlement, NoRun, RunType
  <2>. QED
    BY <1>7, <2>2, <2>3 DEF FinalizeSettlement
<1>8. CASE ConsumeEvent
  <2>1. events' \in Seq(Nat) /\ Head(events) \in Nat
    BY <1>8 DEF ConsumeEvent
  <2>2. run.sub \in Subs
    BY DEF RunType
  <2>3. pen' \in PenType /\ minted' \in Nat
    <3>1. CASE Head(events) = 0
      BY <1>8, <2>2, <3>1, BuildType DEF ConsumeEvent, Writers, Kinds
    <3>2. CASE Head(events) # 0
      <4>1. [id |-> Head(events), kind |-> "spawn", sub |-> run.sub] \in Records
        BY <2>1, <2>2, <3>2, RecordType DEF Kinds
      <4>. QED
        BY <1>8, <3>2, <4>1, TakeType DEF ConsumeEvent, Writers
    <3>. QED
      BY <3>1, <3>2
  <2>. QED
    BY <1>8, <2>1, <2>3 DEF ConsumeEvent
<1>9. CASE AuthorSettled
  <2>1. run.sub \in Subs
    BY DEF RunType
  <2>2. pen' \in PenType /\ minted' \in Nat
    BY <1>9, <2>1, BuildType DEF AuthorSettled, Writers, Kinds
  <2>3. run' \in RunType
    BY <1>9 DEF AuthorSettled, Step, RunType
  <2>. QED
    BY <1>9, <2>2, <2>3 DEF AuthorSettled
<1>10. CASE ExecuteTask
  <2>1. run' \in RunType /\ minted' \in Nat
    <3>1. minted + 1 \in Nat /\ minted' = minted + 1
      BY <1>10 DEF ExecuteTask
    <3>. QED
      BY <1>10, <3>1 DEF ExecuteTask, RunType
  <2>. QED
    BY <1>10, <2>1 DEF ExecuteTask
<1>11. CASE DispatchChild
  <2>1. run.task \in Nat /\ run.sub \in Subs
    BY DEF RunType
  <2>2. child' \in ChildType
    BY <1>11, <2>1 DEF DispatchChild, ChildType
  <2>3. run' \in RunType
    BY <1>11 DEF DispatchChild, RunType
  <2>4. events' \in Seq(Nat)
    BY <1>11, <2>1 DEF DispatchChild
  <2>. QED
    BY <1>11, <2>2, <2>3, <2>4 DEF DispatchChild
<1>12. ASSUME NEW w \in Writers, AppendRecords(w) PROVE TypeOK'
  <2>1. pen[w].rec \in Records
    BY PenIdleType
  <2>2. log' \in Seq(Records)
    <3>1. log' = Append(log, pen[w].rec) \/ log' = log
      BY <1>12 DEF AppendRecords
    <3>2. Append(log, pen[w].rec) \in Seq(Records)
      BY <2>1
    <3>. QED
      BY <3>1, <3>2
  <2>3. pen' \in PenType
    BY <1>12, PenIdleType DEF AppendRecords
  <2>. QED
    BY <1>12, <2>2, <2>3 DEF AppendRecords
<1>13. ASSUME NEW w \in Writers, NotifyAppend(w) PROVE TypeOK'
  <2>1. pen' \in PenType
    BY <1>13, PenIdleType DEF NotifyAppend
  <2>2. tail' \in TailType
    <3>1. (tail.pc \in {"read", "write", "select"}) \in BOOLEAN
      OBVIOUS
    <3>. QED
      BY <1>13, <3>1 DEF NotifyAppend, TailType
  <2>. QED
    BY <1>13, <2>1, <2>2 DEF NotifyAppend
<1>14. CASE WakeParent
  <2>1. child' \in ChildType
    BY <1>14 DEF WakeParent, ChildType
  <2>2. child.id \in Nat /\ child.sub \in Subs
    BY DEF ChildType
  <2>3. pen' \in PenType /\ minted' \in Nat
    <3>1. CASE child.pc = "settling"
      BY <1>14, <2>2, <3>1, BuildType DEF WakeParent, Writers, Kinds
    <3>2. CASE child.pc # "settling"
      <4>1. child.id # 0 => [id |-> child.id, kind |-> "spawn", sub |-> child.sub] \in Records
        BY <2>2, RecordType DEF Kinds
      <4>2. /\ minted' = minted
            /\ \/ pen' = pen
               \/ /\ child.id # 0
                  /\ Take("wake", [id |-> child.id, kind |-> "spawn", sub |-> child.sub])
        BY <1>14, <3>2 DEF WakeParent, ChildHasId
      <4>. QED
        BY <4>1, <4>2, TakeType DEF Writers
    <3>. QED
      BY <3>1, <3>2
  <2>. QED
    BY <1>14, <2>1, <2>3 DEF WakeParent
<1>15. CASE ResumeParent
  <2>1. child.sub \in Subs /\ child' \in ChildType
    BY <1>15, ConstantTypes DEF ResumeParent, NoChild, ChildType
  <2>2. row' \in [Subs -> Statuses]
    BY <1>15, <2>1, RowMoves DEF ResumeParent, BackToQueued, Statuses
  <2>3. tail' \in TailType
    BY <1>15 DEF ResumeParent, BackToQueued, TailType
  <2>. QED
    BY <1>15, <2>1, <2>2, <2>3 DEF ResumeParent
<1>16. CASE ScanStatus
  <2>1. Admitted \in SUBSET Subs /\ Len(ScanOrder) = 4
    BY DEF Admitted, ScanOrder
  <2>2. tail' \in TailType
    <3>. DEFINE found   == \E s \in Subs : row[s] = ScanOrder[tail.pos]
                started == IF tail.pos = 1
                           THEN [tail EXCEPT !.admitted = Admitted, !.slipped = FALSE]
                           ELSE tail
    <3>1. found \in BOOLEAN
      OBVIOUS
    <3>2. started \in TailType /\ started.pos = tail.pos /\ tail.pos \in 1 .. 4
      BY <2>1 DEF TailType
    <3>3. tail' = IF found \/ tail.pos = 4
                  THEN [started EXCEPT !.pc = "channel", !.busy = found, !.pos = 1]
                  ELSE [started EXCEPT !.pos = @ + 1]
      BY <1>16, <2>1 DEF ScanStatus
    <3>. HIDE DEF found, started
    <3>4. [started EXCEPT !.pc = "channel", !.busy = found, !.pos = 1] \in TailType
      BY <3>1, <3>2, ScannedType
    <3>5. tail.pos # 4 => [started EXCEPT !.pos = started.pos + 1] \in TailType
      <4>1. tail.pos # 4 => started.pos + 1 \in 1 .. 4
        BY <3>2
      <4>. QED
        BY <3>2, <4>1 DEF TailType
    <3>. QED
      BY <3>3, <3>4, <3>5
  <2>. QED
    BY <1>16, <2>2 DEF ScanStatus
<1>17. CASE AppendWait
  <2>1. tail' \in TailType
    BY <1>17 DEF AppendWait, TailType
  <2>. QED
    BY <1>17, <2>1 DEF AppendWait
<1>18. CASE ReadLog
  <2>1. tail.after \in Nat
    BY DEF TailType
  <2>2. ReadRecords(tail.after) \in Seq(Records)
    BY <2>1, ReadRecordsType
  <2>3. tail' \in TailType
    BY <1>18, <2>2 DEF ReadLog, TailType
  <2>. QED
    BY <1>18, <2>3 DEF ReadLog
<1>19. CASE WriteSSE
  <2>1. CASE tail.batch # <<>>
    <3>1. tail.batch \in Seq(Records)
      BY DEF TailType
    <3>2. Head(tail.batch) \in Records /\ Tail(tail.batch) \in Seq(Records)
      BY <2>1, <3>1, HeadTailProperties
    <3>3. Head(tail.batch).id \in Nat
      BY <3>2 DEF Records
    <3>4. delivered' \in Seq(Records)
      <4>1. delivered' = Append(delivered, Head(tail.batch))
        BY <1>19, <2>1 DEF WriteSSE
      <4>2. \A e \in Records : Append(delivered, e) \in Seq(Records)
        OBVIOUS
      <4>. QED
        BY <3>2, <4>1, <4>2
    <3>5. tail' \in TailType
      BY <1>19, <2>1, <3>2, <3>3 DEF WriteSSE, TailType
    <3>. QED
      BY <1>19, <3>4, <3>5 DEF WriteSSE
  <2>2. CASE tail.batch = <<>>
    <3>1. tail' \in TailType
      BY <1>19, <2>2 DEF WriteSSE, TailType
    <3>. QED
      BY <1>19, <2>2, <3>1 DEF WriteSSE
  <2>. QED
    BY <2>1, <2>2
<1>20. CASE Select
  <2>1. tail.after \in Nat
    BY DEF TailType
  <2>2. tail' \in TailType
    BY <1>20, <2>1, RoundType DEF Select, TailType
  <2>. QED
    BY <1>20, <2>2 DEF Select
<1>21. CASE UNCHANGED vars
  BY <1>21 DEF vars, TypeOK
<1>. QED
  BY <1>1, <1>2, <1>3, <1>4, <1>5, <1>6, <1>7, <1>8, <1>9, <1>10, <1>11, <1>12,
     <1>13, <1>14, <1>15, <1>16, <1>17, <1>18, <1>19, <1>20, <1>21
  DEF Next, RunStep, WakeStep, TailStep, Writers

----------------------------------------------------------------------------
(* The writers. *)

(* What AppendRecords(w) does: the log has one more record and its writer is
   about to announce it, or the adapter refused an id that is there. *)
Appended(w) ==
  /\ Len(log') = Len(log) + 1
  /\ \A i \in 1 .. Len(log) : log'[i] = log[i]
  /\ log'[Len(log) + 1] = pen[w].rec
  /\ pen' = [pen EXCEPT ![w].pc = "notify"]
Refused(w) ==
  /\ log' = log /\ Recorded(pen[w].rec.id)
  /\ pen' = [pen EXCEPT ![w] = NoPen]

(* An append writes its record, or is refused because the settlement is
   already in the log. *)
LEMMA AppendsOrNot ==
  ASSUME TypeOK, NEW w \in Writers, AppendRecords(w)
  PROVE  Appended(w) \/ Refused(w)
<1>1. log \in Seq(Records) /\ pen[w].rec \in Records
  BY TypeParts, PenIdleType
<1>2. CASE log' = Append(log, pen[w].rec) /\ pen' = [pen EXCEPT ![w].pc = "notify"]
  BY <1>1, <1>2, AppendProperties DEF Appended
<1>3. CASE ~(log' = Append(log, pen[w].rec) /\ pen' = [pen EXCEPT ![w].pc = "notify"])
  BY <1>3 DEF AppendRecords, Refused
<1>. QED
  BY <1>2, <1>3

(* What the two writers hold, field by field. *)
LEMMA PenShape ==
  ASSUME TypeOK
  PROVE  /\ \A w \in Writers : /\ pen[w] = [pc |-> pen[w].pc, rec |-> pen[w].rec]
                              /\ pen[w].rec.id \in Nat \ {0}
                              /\ pen[w].rec.sub \in Subs
         /\ pen = [w \in Writers |-> pen[w]]
         /\ "run" \in Writers /\ "wake" \in Writers
         /\ \A w \in Writers : w = "run" \/ w = "wake"
<1>1. pen \in PenType
  BY TypeParts
<1>2. \A w \in Writers : pen[w].rec \in Records
  BY PenIdleType
<1>. QED
  BY <1>1, <1>2 DEF PenType, Records, Writers

(* One writer moves, the other does not. *)
LEMMA PenMoves ==
  ASSUME TypeOK, NEW w \in Writers
  PROVE  /\ pen' = [pen EXCEPT ![w] = NoPen] =>
              /\ pen'[w] = NoPen
              /\ \A v \in Writers \ {w} : pen'[v] = pen[v]
         /\ pen' = [pen EXCEPT ![w].pc = "notify"] =>
              /\ pen'[w].pc = "notify" /\ pen'[w].rec = pen[w].rec
              /\ \A v \in Writers \ {w} : pen'[v] = pen[v]
         /\ \A rec : Take(w, rec) =>
              /\ pen'[w].pc = "append" /\ pen'[w].rec = rec
              /\ \A v \in Writers \ {w} : pen'[v] = pen[v]
  BY PenShape DEF Take

(* What the types say of the fields the steps use. *)
LEMMA Shapes ==
  ASSUME TypeOK
  PROVE  /\ row \in [Subs -> Statuses] /\ minted \in Nat
         /\ run.sub \in Subs /\ run.task \in Nat
         /\ run.pc \in {"none", "drive", "call", "record", "finalize"}
         /\ run = [sub |-> run.sub, pc |-> run.pc, suspended |-> run.suspended, task |-> run.task]
         /\ child.id \in Nat /\ child.sub \in Subs
         /\ child = [pc |-> child.pc, id |-> child.id, sub |-> child.sub]
         /\ events \in Seq(Nat)
         /\ Len(log) \in Nat /\ \A i \in 1 .. Len(log) : log[i].id \in Nat \ {0}
  BY TypeParts, LogType DEF RunType, ChildType

(* One submission changes status, the others do not. *)
LEMMA RowChange ==
  ASSUME TypeOK, NEW s \in Subs, NEW st, row' = [row EXCEPT ![s] = st]
  PROVE  row'[s] = st /\ \A o \in Subs \ {s} : row'[o] = row[o]
  BY TypeParts

(* An event that was minted before m leaves all events minted before m. *)
LEMMA EventsGrow ==
  ASSUME TypeOK, NEW e \in Nat, events' = Append(events, e), NEW m \in Nat,
         \A i \in 1 .. Len(events) : events[i] <= m, e <= m
  PROVE  events' # <<>> /\ \A i \in 1 .. Len(events') : events'[i] <= m
<1>1. events \in Seq(Nat)
  BY Shapes
<1>. QED
  BY <1>1

(* The rows alone. *)
LEMMA WritersRows ==
  ASSUME TypeOK, WritersTrue, Dispatch \/ ClaimSubmission \/ DriveEnds
  PROVE  WritersTrue'
<1>. USE DEF desk, reader, At, Drained
<1>0. /\ run.sub \in Subs /\ Len(log) \in Nat
      /\ UNCHANGED <<log, minted, events, child, pen>>
  BY Shapes DEF Dispatch, ClaimSubmission, DriveEnds
<1>1. run'.task = 0 \/ run'.task = run.task
  <2>1. \/ run' = run \/ run' = NoRun
        \/ run' = [run EXCEPT !.pc = "record"]
        \/ \E s \in Subs : run' = [NoRun EXCEPT !.sub = s, !.pc = "drive"]
    BY DEF Dispatch, ClaimSubmission, DriveEnds, Step
  <2>2. run' = [run EXCEPT !.pc = "record"] => run'.task = run.task
    BY TypeParts DEF RunType
  <2>3. ASSUME NEW s, run' = [NoRun EXCEPT !.sub = s, !.pc = "drive"]
        PROVE  run'.task = 0
    BY <2>3 DEF NoRun
  <2>4. run' = NoRun => run'.task = 0
    BY DEF NoRun
  <2>. QED
    BY <2>1, <2>2, <2>3, <2>4
<1>2. IdsMinted' /\ ChildHasId'
  BY <1>0, <1>1, Shapes DEF WritersTrue, IdsMinted, ChildHasId
<1>3. SettledWritten'
  <2>1. \A s \in Subs : row'[s] = "settled" => row[s] = "settled"
    <3>1. PICK s \in Subs, st \in {"queued", "running", "waiting", "terminalizing"} :
            row' = [row EXCEPT ![s] = st]
      BY <1>0 DEF Dispatch, ClaimSubmission, DriveEnds, BackToQueued
    <3>. QED
      BY <3>1, RowChange
  <2>. QED
    BY <1>0, <2>1 DEF WritersTrue, SettledWritten, Written
<1>4. CASE Dispatch
  <2>1. \A s \in Subs : row[s] # "absent" => row'[s] = row[s]
    BY <1>4, RowChange DEF Dispatch
  <2>. QED
    BY <1>0, <1>2, <1>3, <1>4, <2>1
    DEF Dispatch, WritersTrue, RunHasRow, RunQuiet, SettledUnderWay, Written, Recorded
<1>5. CASE ClaimSubmission
  <2>1. /\ run'.pc = "drive" /\ run'.sub \in Subs /\ row'[run'.sub] = "running"
    <3>1. PICK s \in Subs : /\ row' = [row EXCEPT ![s] = "running"]
                            /\ run' = [NoRun EXCEPT !.sub = s, !.pc = "drive"]
      BY <1>5 DEF ClaimSubmission
    <3>2. run'.pc = "drive" /\ run'.sub = s
      BY <3>1 DEF NoRun
    <3>. QED
      BY <3>1, <3>2, RowChange
  <2>. QED
    BY <1>0, <1>2, <1>3, <2>1 DEF WritersTrue, RunHasRow, RunQuiet, SettledUnderWay
<1>6. CASE DriveEnds
  <2>1. \/ run'.pc = "none" /\ run'.task = 0
        \/ run'.pc = "record" /\ run'.task = run.task /\ run'.sub = run.sub
           /\ row'[run.sub] = "terminalizing"
    BY <1>0, <1>6, RowChange, Shapes DEF DriveEnds, NoRun, Step
  <2>2. run.task = 0 /\ events = <<>> /\ pen["run"].pc = "idle"
    BY <1>6 DEF DriveEnds
  <2>. QED
    BY <1>0, <1>2, <1>3, <2>1, <2>2
    DEF WritersTrue, RunHasRow, RunQuiet, SettledUnderWay
<1>. QED
  BY <1>4, <1>5, <1>6

(* FinalizeSettlement keeps the invariant of the writers. *)
LEMMA WritersFinalize ==
  ASSUME TypeOK, WritersTrue, FinalizeSettlement PROVE WritersTrue'
<1>. USE DEF desk, reader, At, Drained
<1>0. /\ run.sub \in Subs /\ run.pc = "finalize"
      /\ UNCHANGED <<log, minted, events, child, pen>>
      /\ events = <<>> /\ pen["run"].pc = "idle"
      /\ run' = NoRun
  BY Shapes DEF FinalizeSettlement
<1>1. Written(log, run.sub)
  BY <1>0 DEF WritersTrue, SettledUnderWay
<1>2. \A s \in Subs : row'[s] = "settled" => row[s] = "settled" \/ s = run.sub
  BY <1>0, RowChange DEF FinalizeSettlement
<1>3. SettledWritten'
  BY <1>0, <1>1, <1>2 DEF WritersTrue, SettledWritten, Written
<1>. QED
  BY <1>0, <1>3, Shapes
  DEF WritersTrue, IdsMinted, ChildHasId, RunHasRow, RunQuiet, SettledUnderWay, NoRun

(* ResumeParent keeps the invariant of the writers. *)
LEMMA WritersResume ==
  ASSUME TypeOK, WritersTrue, ResumeParent PROVE WritersTrue'
<1>. USE DEF desk, reader
<1>0. /\ child.sub \in Subs /\ row[child.sub] = "waiting"
      /\ UNCHANGED <<log, minted, run, events, pen>>
      /\ child' = NoChild
  BY Shapes DEF ResumeParent
<1>1. /\ row'[child.sub] = "queued"
      /\ \A s \in Subs \ {child.sub} : row'[s] = row[s]
  BY <1>0, RowChange DEF ResumeParent, BackToQueued
<1>2. SettledWritten'
  BY <1>0, <1>1 DEF WritersTrue, SettledWritten, Written
<1>3. RunHasRow' /\ RunQuiet'
  BY <1>0, <1>1, Shapes DEF WritersTrue, RunHasRow, RunQuiet
<1>4. pen["run"].rec.id # 0 /\ minted \in Nat
  BY PenShape, Shapes
<1>5. SettledUnderWay' /\ IdsMinted' /\ ChildHasId'
  BY <1>0, <1>4 DEF WritersTrue, SettledUnderWay, IdsMinted, ChildHasId, NoChild,
     Written, Recorded
<1>. QED
  BY <1>2, <1>3, <1>5 DEF WritersTrue

(* A writer that has built a record of its own: its id is new. *)
LEMMA BuildsNew ==
  ASSUME TypeOK, IdsMinted, NEW w \in Writers, NEW k, NEW s, Build(w, k, s)
  PROVE  /\ minted' = minted + 1
         /\ pen'[w].pc = "append"
         /\ pen'[w].rec = [id |-> minted + 1, kind |-> k, sub |-> s]
         /\ \A v \in Writers \ {w} : pen'[v] = pen[v] /\ pen[v].rec.id # minted + 1
         /\ ~Recorded(minted + 1)
         /\ \A v \in Writers : pen'[v].rec.id <= minted'
         /\ child.id # minted + 1
<1>1. minted \in Nat /\ Len(log) \in Nat /\ \A i \in 1 .. Len(log) : log[i].id \in Nat
  BY Shapes
<1>2. /\ minted' = minted + 1
      /\ pen'[w].pc = "append" /\ pen'[w].rec = [id |-> minted + 1, kind |-> k, sub |-> s]
      /\ \A v \in Writers \ {w} : pen'[v] = pen[v]
  BY PenMoves DEF Build
<1>3. ~Recorded(minted + 1)
  BY <1>1 DEF Recorded, IdsMinted
<1>4. child.id # minted + 1
  BY <1>1, Shapes DEF IdsMinted
<1>5. \A v \in Writers : pen[v].rec.id \in Nat /\ pen[v].rec.id <= minted
  BY PenShape DEF IdsMinted
<1>. QED
  BY <1>1, <1>2, <1>3, <1>4, <1>5

(* AuthorSettled keeps the invariant of the writers. *)
LEMMA WritersAuthor ==
  ASSUME TypeOK, WritersTrue, AuthorSettled PROVE WritersTrue'
<1>. USE DEF desk, reader, At
<1>0. /\ run.pc = "record" /\ Build("run", "settled", run.sub)
      /\ UNCHANGED <<row, log, events, child>>
      /\ run' = [run EXCEPT !.pc = "finalize"]
  BY DEF AuthorSettled, Step
<1>1. run'.pc = "finalize" /\ run'.sub = run.sub /\ run'.task = run.task
  BY <1>0, TypeParts DEF RunType
<1>2. IdsMinted /\ "run" \in Writers /\ "wake" \in Writers
  BY PenShape DEF WritersTrue
<1>3. /\ minted' = minted + 1
      /\ pen'["run"].pc = "append"
      /\ pen'["run"].rec = [id |-> minted + 1, kind |-> "settled", sub |-> run.sub]
      /\ pen'["wake"] = pen["wake"] /\ pen["wake"].rec.id # minted + 1
      /\ ~Recorded(minted + 1)
      /\ \A v \in Writers : pen'[v].rec.id <= minted'
      /\ child.id # minted + 1
  BY <1>0, <1>2, BuildsNew
<1>4. IdsMinted'
  BY <1>0, <1>1, <1>2, <1>3, Shapes DEF IdsMinted
<1>5. SettledUnderWay'
  BY <1>0, <1>1, <1>3 DEF SettledUnderWay, Settles, Recorded
<1>. QED
  BY <1>0, <1>1, <1>4, <1>5
  DEF WritersTrue, ChildHasId, RunHasRow, RunQuiet, SettledWritten, Written

(* The events of the agent keep the invariant of the writers. *)
LEMMA WritersAgent ==
  ASSUME TypeOK, WritersTrue, AgentEvent \/ CallTask PROVE WritersTrue'
<1>. USE DEF desk, reader, At
<1>0. /\ run.pc = "drive" /\ run.task = 0
      /\ events' = Append(events, 0)
      /\ UNCHANGED <<row, log, minted, child, pen>>
  BY DEF AgentEvent, CallTask
<1>1. run' = run \/ run' = [run EXCEPT !.pc = "call"]
  BY DEF AgentEvent, CallTask, Step
<1>2. run'.pc \in {"drive", "call"} /\ run'.sub = run.sub /\ run'.task = run.task
  BY <1>0, <1>1, TypeParts DEF RunType
<1>3. \A i \in 1 .. Len(events') : events'[i] <= minted
  BY <1>0, Shapes, EventsGrow DEF WritersTrue, IdsMinted
<1>. QED
  BY <1>0, <1>2, <1>3
  DEF WritersTrue, IdsMinted, ChildHasId, RunHasRow, RunQuiet, SettledUnderWay,
      SettledWritten, Written

(* ExecuteTask, which mints the id of the spawn record, keeps the invariant
   of the writers. *)
LEMMA WritersTask ==
  ASSUME TypeOK, WritersTrue, ExecuteTask PROVE WritersTrue'
<1>. USE DEF desk, reader, At
<1>0. /\ run.pc = "call" /\ minted' = minted + 1
      /\ run' = [run EXCEPT !.pc = "drive", !.task = minted + 1]
      /\ UNCHANGED <<row, log, events, child, pen>>
  BY DEF ExecuteTask
<1>1. run'.pc = "drive" /\ run'.sub = run.sub /\ run'.task = minted + 1
  BY <1>0, TypeParts DEF RunType
<1>2. IdsMinted'
  <2>1. /\ minted \in Nat /\ Len(log) \in Nat /\ child.id \in Nat
        /\ \A i \in 1 .. Len(log) : log[i].id \in Nat
        /\ \A w \in Writers : pen[w].rec.id \in Nat
        /\ \A i \in 1 .. Len(events) : events[i] \in Nat
    BY Shapes, PenShape
  <2>. QED
    BY <1>0, <1>1, <2>1 DEF WritersTrue, IdsMinted
<1>. QED
  BY <1>0, <1>1, <1>2
  DEF WritersTrue, ChildHasId, RunHasRow, RunQuiet, SettledUnderWay, SettledWritten, Written

(* The dispatch of the child keeps the invariant of the writers. *)
LEMMA WritersDispatch ==
  ASSUME TypeOK, WritersTrue, DispatchChild PROVE WritersTrue'
<1>. USE DEF desk, reader, At
<1>0. /\ run.pc = "drive" /\ run.task # 0
      /\ child' = [pc |-> "live", id |-> run.task, sub |-> run.sub]
      /\ events' = Append(events, run.task)
      /\ run' = [run EXCEPT !.task = 0, !.suspended = TRUE]
      /\ UNCHANGED <<row, log, minted, pen>>
  BY DEF DispatchChild
<1>1. run'.pc = "drive" /\ run'.sub = run.sub /\ run'.task = 0
  BY <1>0, TypeParts DEF RunType
<1>2. \A i \in 1 .. Len(events') : events'[i] <= minted
  BY <1>0, Shapes, EventsGrow DEF WritersTrue, IdsMinted
<1>3. 0 <= minted
  BY Shapes
<1>. QED
  BY <1>0, <1>1, <1>2, <1>3
  DEF WritersTrue, IdsMinted, ChildHasId, RunHasRow, RunQuiet, SettledUnderWay,
      SettledWritten, Written

(* The consumer that turns an event into a record keeps the invariant of the
   writers. *)
LEMMA WritersConsume ==
  ASSUME TypeOK, WritersTrue, ConsumeEvent PROVE WritersTrue'
<1>. USE DEF desk, reader
<1>. DEFINE e == Head(events)
            rec == [id |-> e, kind |-> "spawn", sub |-> run.sub]
<1>0. /\ events # <<>> /\ pen["run"].pc = "idle" /\ events' = Tail(events)
      /\ UNCHANGED <<row, log, run, child>>
  BY DEF ConsumeEvent
<1>1. run.pc \in {"drive", "call"}
  BY <1>0 DEF WritersTrue, RunQuiet
<1>2. /\ e \in Nat /\ e <= minted
      /\ \A i \in 1 .. Len(events') : events'[i] <= minted
  <2>1. events \in Seq(Nat) /\ \A i \in 1 .. Len(events) : events[i] <= minted
    BY Shapes DEF WritersTrue, IdsMinted
  <2>2. /\ 1 \in 1 .. Len(events) /\ e = events[1]
        /\ Len(events') = Len(events) - 1
        /\ \A i \in 1 .. Len(events') : events'[i] = events[i + 1] /\ i + 1 \in 1 .. Len(events)
    BY <1>0, <2>1
  <2>3. events[1] \in Nat
    BY <2>1, <2>2
  <2>. QED
    BY <2>1, <2>2, <2>3
<1>3. IdsMinted /\ "run" \in Writers /\ minted \in Nat /\ child.id \in Nat /\ run.task \in Nat
      /\ \A i \in 1 .. Len(log) : log[i].id \in Nat
      /\ \A w \in Writers : pen[w].rec.id \in Nat
  BY PenShape, Shapes DEF WritersTrue
<1>. HIDE DEF e
<1>4. IdsMinted'
  <2>1. CASE Build("run", "event", run.sub)
    <3>1. minted' = minted + 1 /\ \A v \in Writers : pen'[v].rec.id <= minted'
      BY <1>3, <2>1, BuildsNew
    <3>2. \A i \in 1 .. Len(events') : events'[i] <= minted + 1
      <4>1. \A i \in 1 .. Len(events') : events'[i] \in Nat
        BY <1>0, Shapes
      <4>. QED
        BY <1>2, <1>3, <4>1
    <3>. QED
      BY <1>0, <1>3, <3>1, <3>2 DEF IdsMinted
  <2>2. CASE minted' = minted /\ (pen' = pen \/ Take("run", rec))
    <3>1. \A v \in Writers : pen'[v] = pen[v] \/ pen'[v].rec = rec
      BY <1>3, <2>2, PenMoves
    <3>. QED
      BY <1>0, <1>2, <1>3, <2>2, <3>1 DEF IdsMinted
  <2>. QED
    BY <2>1, <2>2 DEF ConsumeEvent, e
<1>. QED
  BY <1>0, <1>1, <1>4
  DEF WritersTrue, ChildHasId, RunHasRow, RunQuiet, SettledUnderWay, SettledWritten, Written

(* The wake of the parent keeps the invariant of the writers. *)
LEMMA WritersWake ==
  ASSUME TypeOK, WritersTrue, WakeParent PROVE WritersTrue'
<1>. USE DEF desk, reader
<1>. DEFINE rec == [id |-> child.id, kind |-> "spawn", sub |-> child.sub]
<1>0. /\ pen["wake"].pc = "idle"
      /\ UNCHANGED <<row, log, run, events>>
  BY DEF WakeParent
<1>1. child'.id = child.id /\ child'.pc # "live"
  <2>1. \E pc \in {"settling", "answered", "told"} : child' = [child EXCEPT !.pc = pc]
    BY DEF WakeParent
  <2>. QED
    BY <2>1, TypeParts DEF ChildType
<1>2. /\ IdsMinted /\ "run" \in Writers /\ "wake" \in Writers
      /\ minted \in Nat /\ child.id \in Nat /\ run.task \in Nat
      /\ \A i \in 1 .. Len(log) : log[i].id \in Nat
      /\ \A w \in Writers : pen[w].rec.id \in Nat
      /\ \A i \in 1 .. Len(events) : events[i] \in Nat
  BY PenShape, Shapes DEF WritersTrue
<1>3. CASE Build("wake", "outcome", child.sub)
  <2>1. /\ minted' = minted + 1 /\ pen'["run"] = pen["run"]
        /\ pen["run"].rec.id # minted + 1
        /\ pen'["wake"].rec.id = minted + 1
        /\ \A v \in Writers : pen'[v].rec.id <= minted'
    <3>1. "run" \in Writers \ {"wake"}
      BY <1>2
    <3>2. /\ minted' = minted + 1
          /\ pen'["wake"].rec = [id |-> minted + 1, kind |-> "outcome", sub |-> child.sub]
          /\ \A v \in Writers \ {"wake"} : pen'[v] = pen[v] /\ pen[v].rec.id # minted + 1
          /\ \A v \in Writers : pen'[v].rec.id <= minted'
      BY <1>2, <1>3, BuildsNew
    <3>. QED
      BY <3>1, <3>2
  <2>2. IdsMinted'
    BY <1>0, <1>1, <1>2, <2>1 DEF IdsMinted
  <2>. QED
    BY <1>0, <1>1, <2>1, <2>2
    DEF WritersTrue, ChildHasId, RunHasRow, RunQuiet, SettledUnderWay, SettledWritten,
        Written, Recorded
<1>4. CASE minted' = minted /\ (pen' = pen \/ Take("wake", rec))
  <2>1. /\ pen'["run"] = pen["run"]
        /\ \A v \in Writers : pen'[v] = pen[v] \/ pen'[v].rec = rec
    <3>1. "run" \in Writers \ {"wake"}
      BY <1>2
    <3>. QED
      BY <1>2, <1>4, <3>1, PenMoves
  <2>2. IdsMinted'
    BY <1>0, <1>1, <1>2, <1>4, <2>1 DEF IdsMinted
  <2>3. pen'["wake"].pc = "append" => pen'["wake"].rec.id = child.id
    BY <1>0, <1>2, <1>4, PenMoves
  <2>. QED
    BY <1>0, <1>1, <2>1, <2>2, <2>3
    DEF WritersTrue, ChildHasId, RunHasRow, RunQuiet, SettledUnderWay, SettledWritten,
        Written, Recorded
<1>. QED
  BY <1>3, <1>4 DEF WakeParent

(* Notifying the readers keeps the invariant of the writers. *)
LEMMA WritersNotify ==
  ASSUME TypeOK, WritersTrue, NEW w \in Writers, NotifyAppend(w) PROVE WritersTrue'
<1>. USE DEF desk, reader
<1>0. /\ pen[w].pc = "notify" /\ pen' = [pen EXCEPT ![w] = NoPen]
      /\ UNCHANGED <<row, log, minted, run, events, child>>
  BY DEF NotifyAppend
<1>1. pen'[w] = NoPen /\ \A v \in Writers \ {w} : pen'[v] = pen[v]
  BY <1>0, PenMoves
<1>2. 1 <= minted
  BY PenShape, Shapes DEF WritersTrue, IdsMinted
<1>3. IdsMinted'
  BY <1>0, <1>1, <1>2 DEF WritersTrue, IdsMinted, NoPen
<1>4. RunQuiet'
  BY <1>0, <1>1, PenShape DEF WritersTrue, RunQuiet, NoPen
<1>5. SettledUnderWay'
  BY <1>0, <1>1, PenShape DEF WritersTrue, SettledUnderWay, NoPen, Written, Recorded
<1>. QED
  BY <1>0, <1>3, <1>4, <1>5 DEF WritersTrue, ChildHasId, RunHasRow, SettledWritten, Written

(* Appending a record keeps the invariant of the writers. *)
LEMMA WritersAppend ==
  ASSUME TypeOK, WritersTrue, NEW w \in Writers, AppendRecords(w) PROVE WritersTrue'
<1>. USE DEF desk, reader
<1>0. /\ pen[w].pc = "append" /\ Len(log) \in Nat
      /\ UNCHANGED <<row, minted, run, events, child>>
  BY Shapes DEF AppendRecords
<1>1. CASE Appended(w)
  <2>1. /\ pen'[w].pc = "notify" /\ pen'[w].rec = pen[w].rec
        /\ \A v \in Writers \ {w} : pen'[v] = pen[v]
    BY <1>1, PenMoves DEF Appended
  <2>2. \A i \in 1 .. Len(log') : \/ i \in 1 .. Len(log) /\ log'[i] = log[i]
                                  \/ i = Len(log) + 1 /\ log'[i] = pen[w].rec
    <3>1. \A i \in 1 .. Len(log) + 1 : i \in 1 .. Len(log) \/ i = Len(log) + 1
      BY <1>0
    <3>2. Len(log') = Len(log) + 1 /\ \A i \in 1 .. Len(log) : log'[i] = log[i]
      BY <1>1 DEF Appended
    <3>3. log'[Len(log) + 1] = pen[w].rec
      BY <1>1 DEF Appended
    <3>. QED
      BY <3>1, <3>2, <3>3
  <2>3. IdsMinted'
    BY <1>0, <2>1, <2>2 DEF WritersTrue, IdsMinted
  <2>4. \A s \in Subs : Written(log, s) => Written(log', s)
    BY <1>0, <1>1 DEF Appended, Written
  <2>5. RunQuiet'
    BY <1>0, <2>1, PenShape DEF WritersTrue, RunQuiet
  <2>6. SettledUnderWay'
    <3>. SUFFICES ASSUME run.pc = "finalize" PROVE SettledUnderWay'
      BY <1>0 DEF SettledUnderWay
    <3>0. run.sub \in Subs /\ "run" \in Writers /\ "wake" \in Writers
          /\ (w = "run" \/ w = "wake")
      BY Shapes, PenShape
    <3>1. CASE Written(log, run.sub) /\ pen["run"].pc # "append"
      BY <1>0, <2>1, <2>4, <3>0, <3>1 DEF SettledUnderWay
    <3>2. CASE pen["run"].pc = "append"
      <4>1. /\ Settles(pen["run"].rec, run.sub)
            /\ ~Recorded(pen["run"].rec.id)
            /\ child.id # pen["run"].rec.id
            /\ pen["wake"].pc = "append" => pen["wake"].rec.id # pen["run"].rec.id
        BY <3>2 DEF WritersTrue, SettledUnderWay
      <4>2. CASE w = "run"
        <5>1. Written(log', run.sub)
          BY <1>0, <1>1, <4>1, <4>2 DEF Appended, Written
        <5>. QED
          BY <1>0, <2>1, <4>2, <5>1 DEF SettledUnderWay
      <4>3. CASE w = "wake"
        <5>1. pen'["run"] = pen["run"] /\ pen'["wake"].pc = "notify"
          BY <2>1, <3>0, <4>3
        <5>2. \A i \in 1 .. Len(log') : log'[i].id # pen["run"].rec.id
          BY <1>0, <2>2, <4>1, <4>3 DEF Recorded
        <5>. QED
          BY <1>0, <3>2, <4>1, <5>1, <5>2 DEF SettledUnderWay, Recorded
      <4>. QED
        BY <3>0, <4>2, <4>3
    <3>. QED
      BY <3>1, <3>2 DEF WritersTrue, SettledUnderWay
  <2>. QED
    BY <1>0, <2>3, <2>4, <2>5, <2>6
    DEF WritersTrue, ChildHasId, RunHasRow, SettledWritten
<1>2. CASE Refused(w)
  <2>1. /\ log' = log /\ pen'[w] = NoPen /\ \A v \in Writers \ {w} : pen'[v] = pen[v]
    BY <1>2, PenMoves DEF Refused
  <2>2. 1 <= minted
    BY PenShape, Shapes DEF WritersTrue, IdsMinted
  <2>3. IdsMinted'
    BY <1>0, <2>1, <2>2 DEF WritersTrue, IdsMinted, NoPen
  <2>4. RunQuiet'
    BY <1>0, <2>1, PenShape DEF WritersTrue, RunQuiet, NoPen
  <2>5. SettledUnderWay'
    <3>1. run.pc = "finalize" => w = "wake"
      BY <1>0, <1>2, PenShape DEF WritersTrue, SettledUnderWay, Refused
    <3>. QED
      BY <1>0, <2>1, <3>1, PenShape DEF WritersTrue, SettledUnderWay, NoPen, Written, Recorded
  <2>. QED
    BY <1>0, <2>1, <2>3, <2>4, <2>5
    DEF WritersTrue, ChildHasId, RunHasRow, SettledWritten, Written
<1>. QED
  BY <1>1, <1>2, AppendsOrNot

(* The reader leaves the writers alone. *)
LEMMA WritersRest ==
  ASSUME WritersTrue, UNCHANGED <<row, log, minted, run, events, child, pen>>
  PROVE  WritersTrue'
  BY DEF WritersTrue, IdsMinted, ChildHasId, RunHasRow, RunQuiet, SettledUnderWay,
         SettledWritten, Written, Recorded

(* Every step keeps the invariant of the writers. *)
LEMMA WritersStep == TypeOK /\ WritersTrue /\ [Next]_vars => WritersTrue'
<1>. SUFFICES ASSUME TypeOK, WritersTrue, [Next]_vars PROVE WritersTrue'
  OBVIOUS
<1>1. CASE Reconnect \/ TailStep \/ UNCHANGED vars
  <2>1. UNCHANGED <<row, log, minted, run, events, child, pen>>
    BY <1>1 DEF Reconnect, TailStep, ScanStatus, AppendWait, ReadLog, WriteSSE, Select,
       vars, desk
  <2>. QED
    BY <2>1, WritersRest
<1>2. CASE Dispatch \/ ClaimSubmission \/ DriveEnds
  BY <1>2, WritersRows
<1>3. CASE FinalizeSettlement
  BY <1>3, WritersFinalize
<1>4. CASE ResumeParent
  BY <1>4, WritersResume
<1>5. CASE AuthorSettled
  BY <1>5, WritersAuthor
<1>6. CASE AgentEvent \/ CallTask
  BY <1>6, WritersAgent
<1>7. CASE ExecuteTask
  BY <1>7, WritersTask
<1>8. CASE DispatchChild
  BY <1>8, WritersDispatch
<1>9. CASE ConsumeEvent
  BY <1>9, WritersConsume
<1>10. CASE WakeParent
  BY <1>10, WritersWake
<1>11. CASE \E w \in Writers : NotifyAppend(w)
  BY <1>11, WritersNotify
<1>12. CASE \E w \in Writers : AppendRecords(w)
  BY <1>12, WritersAppend
<1>. QED
  BY <1>1, <1>2, <1>3, <1>4, <1>5, <1>6, <1>7, <1>8, <1>9, <1>10, <1>11, <1>12, PenShape
  DEF Next, RunStep, WakeStep

----------------------------------------------------------------------------
(* The reader, while others move. *)

TailFields == {"pc", "pos", "busy", "after", "batch", "got", "woken", "admitted", "slipped"}

(* What the types say of the fields of the reader. *)
LEMMA TailShape ==
  ASSUME TypeOK
  PROVE  /\ tail \in TailType /\ DOMAIN tail = TailFields
         /\ tail.after \in Nat /\ tail.pos \in 1 .. 4 /\ tail.admitted \in SUBSET Subs
         /\ tail.pc \in {"scan", "channel", "read", "write", "select", "closed"}
         /\ tail.busy \in BOOLEAN /\ tail.got \in BOOLEAN /\ tail.slipped \in BOOLEAN
         /\ tail.woken \in BOOLEAN
         /\ tail.batch \in Seq(Records) /\ Fetched \in Nat
         /\ delivered \in Seq(Records) /\ Sent \in Nat
<1>1. tail \in TailType /\ delivered \in Seq(Records)
  BY TypeParts
<1>2. DOMAIN tail = TailFields
  BY <1>1 DEF TailType, TailFields
<1>. QED
  BY <1>1, <1>2 DEF TailType, Fetched, Sent

(* A step that leaves the reader where it is. *)
Still ==
  /\ log' = log /\ delivered' = delivered
  /\ tail'.pc = tail.pc /\ tail'.pos = tail.pos /\ tail'.busy = tail.busy
  /\ tail'.after = tail.after /\ tail'.batch = tail.batch /\ tail'.got = tail.got
  /\ tail'.woken = tail.woken /\ tail'.admitted = tail.admitted
  /\ tail.slipped => tail'.slipped

(* The offset and the last look stay true while the log and the reader stand
   still. *)
LEMMA StillOffset ==
  ASSUME OffsetTrue, LastLook, Still
  PROVE  OffsetTrue' /\ LastLook'
<1>1. OffsetTrue'
  BY DEF OffsetTrue, Still, InOrder, Sent, Fetched
<1>2. LastLook'
  BY DEF LastLook, Still, InOrder, Fetched, Written
<1>. QED
  BY <1>1, <1>2

(* Whoever was about to announce still is. *)
Announcing == \A w \in Writers : pen[w].pc = "notify" => pen'[w].pc = "notify"

(* What is beyond the last read stays announced while announcements only
   grow. *)
LEMMA StillAnnounced ==
  ASSUME NothingBeyond, Still,
         Announcing
  PROVE  NothingBeyond'
  BY DEF Announcing, NothingBeyond, Still, InOrder, Sent, Fetched

(* The statuses that a scan has passed, by its position. *)
LEMMA PassedIs ==
  ASSUME TypeOK
  PROVE  /\ tail.pos = 1 => Passed = {"absent"}
         /\ tail.pos = 2 => Passed = {"absent", "queued"}
         /\ tail.pos = 3 => Passed = {"absent", "queued", "running"}
         /\ tail.pos = 4 => Passed = {"absent", "queued", "running", "waiting"}
<1>1. /\ ScanOrder[1] = "queued" /\ ScanOrder[2] = "running" /\ ScanOrder[3] = "waiting"
  BY DEF ScanOrder
<1>. HIDE DEF ScanOrder
<1>2. tail.pos = 1 => 1 .. tail.pos - 1 = {}
  OBVIOUS
<1>3. tail.pos = 2 => 1 .. tail.pos - 1 = {1}
  OBVIOUS
<1>4. tail.pos = 3 => 1 .. tail.pos - 1 = {1, 2}
  OBVIOUS
<1>5. tail.pos = 4 => 1 .. tail.pos - 1 = {1, 2, 3}
  OBVIOUS
<1>. QED
  BY <1>1, <1>2, <1>3, <1>4, <1>5 DEF Passed

(* How a row moves while nothing slips through the scan. *)
Onward(from, to) ==
  \/ from = to
  \/ from = "absent" /\ to = "queued"
  \/ from = "queued" /\ to = "running"
  \/ from = "running" /\ to \in {"waiting", "terminalizing"}
  \/ from = "terminalizing" /\ to = "settled"
RowsOnward ==
  ~tail'.slipped =>
    \A s \in Subs : \/ Onward(row[s], row'[s])
                    \/ tail.pc # "scan" /\ row[s] # "settled"

(* What the scan has concluded stays true while rows move onward, or are
   noted to have slipped through. *)
LEMMA StillScanned ==
  ASSUME TypeOK, ScanTrue, Still,
         RowsOnward
  PROVE  ScanTrue'
<1>. SUFFICES ASSUME ~tail'.slipped PROVE ScanTrue'
  BY DEF ScanTrue
<1>1. ~tail.slipped
  BY DEF Still
<1>2. tail.pos \in 1 .. 4 /\ tail.admitted \subseteq Subs
  BY TailShape
<1>3. Passed' = Passed
  BY DEF Passed, Still
<1>4. ASSUME tail.pc = "scan", tail.pos > 1, NEW s \in tail.admitted
      PROVE  row'[s] \notin Passed
  <2>1. row[s] \notin Passed /\ s \in Subs
    BY <1>1, <1>2, <1>4 DEF ScanTrue
  <2>2. Onward(row[s], row'[s])
    BY <1>4, <2>1 DEF RowsOnward
  <2>. QED
    BY <1>2, <1>4, <2>1, <2>2, PassedIs DEF Onward
<1>5. ASSUME tail.pc # "scan", ~tail.busy, NEW s \in tail.admitted
      PROVE  row'[s] = "settled"
  BY <1>1, <1>2, <1>5 DEF ScanTrue, Onward, RowsOnward
<1>. QED
  BY <1>3, <1>4, <1>5 DEF ScanTrue, Still

(* The invariant of the reader under the steps that leave it and the log
   alone. *)
LEMMA StillKeeps ==
  ASSUME TypeOK, ReaderTrue, Still,
         Announcing,
         RowsOnward
  PROVE  ReaderTrue'
  BY StillOffset, StillAnnounced, StillScanned DEF ReaderTrue

(* Nothing the reader sees has changed. *)
LEMMA Stays == UNCHANGED <<log, tail, delivered>> => Still
  BY DEF Still

(* A row goes back to queued. *)
LEMMA SlipsThrough ==
  ASSUME TypeOK, NEW s \in Subs, BackToQueued(s), row[s] # "settled",
         UNCHANGED <<log, delivered>>
  PROVE  /\ Still
         /\ RowsOnward
<1>1. /\ tail' = [tail EXCEPT !.slipped = @ \/ tail.pc = "scan"]
      /\ row' = [row EXCEPT ![s] = "queued"]
  BY DEF BackToQueued
<1>2. DOMAIN tail = TailFields
  BY TailShape
<1>3. Still
  BY <1>1, <1>2 DEF Still, TailFields
<1>4. tail.pc = "scan" => tail'.slipped
  BY <1>1, <1>2 DEF TailFields
<1>5. \A o \in Subs \ {s} : row'[o] = row[o]
  BY <1>1, RowChange
<1>. QED
  BY <1>3, <1>4, <1>5 DEF Onward, RowsOnward

(* The steps that change a row keep the invariant of the reader. *)
LEMMA ReaderRows ==
  ASSUME TypeOK, WritersTrue, ReaderTrue,
         Dispatch \/ ClaimSubmission \/ FinalizeSettlement \/ DriveEnds \/ ResumeParent
  PROVE  ReaderTrue'
<1>. USE DEF desk, reader, At
<1>0. /\ run.sub \in Subs /\ child.sub \in Subs
      /\ pen' = pen /\ log' = log /\ delivered' = delivered
  BY Shapes DEF Dispatch, ClaimSubmission, FinalizeSettlement, DriveEnds, ResumeParent
<1>1. ASSUME NEW s \in Subs, NEW st, row' = [row EXCEPT ![s] = st], Onward(row[s], st),
             tail' = tail
      PROVE  ReaderTrue'
  <2>1. \A o \in Subs : Onward(row[o], row'[o])
    BY <1>1, RowChange DEF Onward
  <2>. QED
    BY <1>0, <1>1, <2>1, Stays, StillKeeps DEF RowsOnward, Announcing
<1>2. ASSUME NEW s \in Subs, BackToQueued(s), row[s] # "settled"
      PROVE  ReaderTrue'
  BY <1>0, <1>2, SlipsThrough, StillKeeps DEF Announcing
<1>3. CASE Dispatch
  BY <1>1, <1>3 DEF Dispatch, Onward
<1>4. CASE ClaimSubmission
  BY <1>1, <1>4 DEF ClaimSubmission, Onward
<1>5. CASE FinalizeSettlement
  <2>1. row[run.sub] = "terminalizing"
    BY <1>5 DEF FinalizeSettlement, WritersTrue, RunHasRow
  <2>. QED
    BY <1>0, <1>1, <1>5, <2>1 DEF FinalizeSettlement, Onward
<1>6. CASE DriveEnds
  <2>1. row[run.sub] = "running"
    BY <1>6 DEF DriveEnds, WritersTrue, RunHasRow
  <2>. QED
    BY <1>0, <1>1, <1>2, <1>6, <2>1 DEF DriveEnds, Onward
<1>7. CASE ResumeParent
  BY <1>0, <1>2, <1>7 DEF ResumeParent
<1>. QED
  BY <1>3, <1>4, <1>5, <1>6, <1>7

(* The steps in which a writer takes up a record keep the invariant of the
   reader. *)
LEMMA ReaderWriters ==
  ASSUME TypeOK, WritersTrue, ReaderTrue,
         \/ AgentEvent \/ CallTask \/ ExecuteTask \/ DispatchChild
         \/ ConsumeEvent \/ AuthorSettled \/ WakeParent
  PROVE  ReaderTrue'
<1>. USE DEF desk, reader, At
<1>1. UNCHANGED <<row, log, tail, delivered>>
  BY DEF AgentEvent, CallTask, ExecuteTask, DispatchChild, ConsumeEvent, AuthorSettled,
         WakeParent
<1>2. Announcing
  <2>1. CASE AgentEvent \/ CallTask \/ ExecuteTask \/ DispatchChild
    BY <2>1 DEF AgentEvent, CallTask, ExecuteTask, DispatchChild, Announcing
  <2>2. ASSUME NEW v \in Writers, pen[v].pc = "idle", pen' = pen \/ \E rec : Take(v, rec)
        PROVE  Announcing
    BY <2>2, PenMoves DEF Announcing
  <2>3. CASE ConsumeEvent
    BY <2>2, <2>3, PenShape DEF ConsumeEvent, Build
  <2>4. CASE AuthorSettled
    BY <2>2, <2>4, PenShape DEF AuthorSettled, Build, WritersTrue, RunQuiet
  <2>5. CASE WakeParent
    BY <2>2, <2>5, PenShape DEF WakeParent, Build
  <2>. QED
    BY <2>1, <2>3, <2>4, <2>5
<1>3. \A s \in Subs : Onward(row[s], row'[s])
  BY <1>1 DEF Onward
<1>. QED
  BY <1>1, <1>2, <1>3, Stays, StillKeeps DEF RowsOnward

(* An append keeps the invariant of the reader: the record is announced until
   its writer has notified. *)
LEMMA ReaderAppend ==
  ASSUME TypeOK, ReaderTrue, NEW w \in Writers, AppendRecords(w)
  PROVE  ReaderTrue'
<1>. USE DEF reader
<1>0. /\ pen[w].pc = "append" /\ Len(log) \in Nat
      /\ UNCHANGED <<row, tail, delivered>>
      /\ Sent \in Nat /\ Fetched \in Nat
  BY Shapes, TailShape DEF AppendRecords
<1>1. CASE Appended(w)
  <2>1. /\ Len(log') = Len(log) + 1
        /\ \A i \in 1 .. Len(log) : log'[i] = log[i]
    BY <1>1 DEF Appended
  <2>2. InOrder' => InOrder
    <3>1. \A i \in 1 .. Len(log) : i \in 1 .. Len(log) + 1
      BY <1>0
    <3>. QED
      BY <2>1, <3>1 DEF InOrder
  <2>3. OffsetTrue'
    <3>. SUFFICES ASSUME InOrder' PROVE OffsetTrue'
      BY DEF OffsetTrue
    <3>1. /\ Sent + Fetched <= Len(log)
          /\ \A i \in 1 .. Sent : delivered[i] = log[i]
          /\ \A i \in 1 .. Fetched : tail.batch[i] = log[Sent + i]
          /\ tail.after = IF Sent = 0 THEN 0 ELSE log[Sent].id
          /\ tail.pc # "write" => Fetched = 0
      BY <2>2 DEF ReaderTrue, OffsetTrue
    <3>2. Sent' = Sent /\ Fetched' = Fetched
      BY <1>0 DEF Sent, Fetched
    <3>3. /\ \A i \in 1 .. Sent : i \in 1 .. Len(log)
          /\ \A i \in 1 .. Fetched : Sent + i \in 1 .. Len(log)
          /\ Sent # 0 => Sent \in 1 .. Len(log)
          /\ Sent + Fetched <= Len(log) + 1
      BY <1>0, <3>1
    <3>. QED
      BY <1>0, <2>1, <3>1, <3>2, <3>3 DEF OffsetTrue
  <2>4. NothingBeyond'
    <3>1. pen'[w].pc = "notify"
      BY <1>1, PenMoves DEF Appended
    <3>. QED
      BY <3>1 DEF NothingBeyond
  <2>5. ScanTrue'
    BY <1>0 DEF ReaderTrue, ScanTrue, Passed
  <2>6. LastLook'
    BY <1>0, <2>2 DEF ReaderTrue, LastLook, Written, Fetched
  <2>. QED
    BY <2>3, <2>4, <2>5, <2>6 DEF ReaderTrue
<1>2. CASE Refused(w)
  <2>1. Announcing
    BY <1>0, <1>2, PenMoves DEF Refused, Announcing
  <2>. QED
    BY <1>0, <1>2, <2>1, Stays, StillKeeps DEF Refused, RowsOnward, Onward
<1>. QED
  BY <1>1, <1>2, AppendsOrNot

(* NotifyAppend wakes the reader that waits on the channel of the session. *)
LEMMA ReaderNotify ==
  ASSUME TypeOK, ReaderTrue, NEW w \in Writers, NotifyAppend(w)
  PROVE  ReaderTrue'
<1>1. /\ UNCHANGED <<row, log, delivered>>
      /\ tail' = [tail EXCEPT !.woken = tail.pc \in {"read", "write", "select"}]
  BY DEF NotifyAppend
<1>2. DOMAIN tail = TailFields
  BY TailShape
<1>3. /\ tail'.pc = tail.pc /\ tail'.pos = tail.pos /\ tail'.busy = tail.busy
      /\ tail'.after = tail.after /\ tail'.batch = tail.batch /\ tail'.got = tail.got
      /\ tail'.admitted = tail.admitted /\ tail'.slipped = tail.slipped
  BY <1>1, <1>2 DEF TailFields
<1>4. tail.pc \in {"write", "select"} => tail'.woken
  BY <1>1, <1>2 DEF TailFields
<1>5. OffsetTrue'
  BY <1>1, <1>3 DEF ReaderTrue, OffsetTrue, InOrder, Sent, Fetched
<1>6. NothingBeyond'
  BY <1>3, <1>4 DEF NothingBeyond
<1>7. ScanTrue'
  BY <1>1, <1>3 DEF ReaderTrue, ScanTrue, Passed
<1>8. LastLook'
  BY <1>1, <1>3 DEF ReaderTrue, LastLook, InOrder, Fetched, Written
<1>. QED
  BY <1>5, <1>6, <1>7, <1>8 DEF ReaderTrue

----------------------------------------------------------------------------
(* The reader's own steps. *)

(* A scan of one status keeps the invariant of the reader; the last one
   decides whether the stream is busy. *)
LEMMA ReaderScan ==
  ASSUME TypeOK, ReaderTrue, ScanStatus
  PROVE  ReaderTrue'
<1>. USE DEF desk
<1>. DEFINE found == \E s \in Subs : row[s] = ScanOrder[tail.pos]
            started == IF tail.pos = 1
                       THEN [tail EXCEPT !.admitted = Admitted, !.slipped = FALSE]
                       ELSE tail
<1>1. /\ tail.pc = "scan" /\ UNCHANGED <<row, log, pen, delivered>>
      /\ tail' = IF found \/ tail.pos = 4
                 THEN [started EXCEPT !.pc = "channel", !.busy = found, !.pos = 1]
                 ELSE [started EXCEPT !.pos = @ + 1]
  BY DEF ScanStatus, ScanOrder
<1>2. /\ DOMAIN tail = TailFields /\ tail.pos \in 1 .. 4 /\ tail.admitted \subseteq Subs
  BY TailShape
<1>3. /\ DOMAIN started = TailFields
      /\ started.pc = tail.pc /\ started.pos = tail.pos
      /\ started.after = tail.after /\ started.batch = tail.batch
      /\ started.admitted = IF tail.pos = 1 THEN Admitted ELSE tail.admitted
      /\ ~started.slipped /\ tail.pos # 1 => ~tail.slipped
  BY <1>2 DEF TailFields
<1>. HIDE DEF started, found
<1>4. /\ tail'.after = tail.after /\ tail'.batch = tail.batch
      /\ tail'.admitted = started.admitted /\ tail'.slipped = started.slipped
      /\ \/ /\ found \/ tail.pos = 4
            /\ tail'.pc = "channel" /\ tail'.busy = found /\ tail'.pos = 1
         \/ /\ ~found /\ tail.pos # 4
            /\ tail'.pc = "scan" /\ tail'.pos = tail.pos + 1
  <2>1. CASE found \/ tail.pos = 4
    BY <1>1, <1>3, <2>1 DEF TailFields
  <2>2. CASE ~(found \/ tail.pos = 4)
    BY <1>1, <1>3, <2>2 DEF TailFields
  <2>. QED
    BY <2>1, <2>2
<1>5. OffsetTrue'
  BY <1>1, <1>4 DEF ReaderTrue, OffsetTrue, InOrder, Sent, Fetched
<1>6. NothingBeyond'
  BY <1>4 DEF NothingBeyond
<1>7. LastLook'
  BY <1>4 DEF LastLook
<1>8. ScanTrue'
  <2>. SUFFICES ASSUME ~tail'.slipped PROVE ScanTrue'
    BY DEF ScanTrue
  <2>1. ~started.slipped
    BY <1>4
  <2>2. \A s \in started.admitted : s \in Subs /\ row[s] \in Statuses /\ row[s] \notin Passed
    <3>1. CASE tail.pos = 1
      BY <1>2, <1>3, <3>1, PassedIs, Shapes DEF Admitted
    <3>2. CASE tail.pos # 1
      BY <1>1, <1>2, <1>3, <2>1, <3>2, Shapes DEF ReaderTrue, ScanTrue
    <3>. QED
      BY <3>1, <3>2
  <2>3. ASSUME ~found, NEW s \in started.admitted
        PROVE  row[s] \notin Passed \cup {ScanOrder[tail.pos]}
    BY <2>2, <2>3 DEF found
  <2>4. CASE tail'.pc = "scan"
    <3>1. Passed' = Passed \cup {ScanOrder[tail.pos]}
      <4>1. tail'.pos = tail.pos + 1
        BY <1>4, <2>4
      <4>2. 1 .. tail'.pos - 1 = (1 .. tail.pos - 1) \cup {tail.pos}
        BY <1>2, <4>1
      <4>. QED
        BY <4>2 DEF Passed
    <3>2. ~found
      BY <1>4, <2>4
    <3>. QED
      BY <1>1, <1>4, <2>3, <2>4, <3>1, <3>2 DEF ScanTrue
  <2>5. CASE tail'.pc # "scan"
    <3>1. SUFFICES ASSUME ~found, NEW s \in started.admitted PROVE row[s] = "settled"
      BY <1>1, <1>4, <2>5 DEF ScanTrue
    <3>2. tail.pos = 4 /\ ScanOrder[tail.pos] = "terminalizing"
      BY <1>4, <2>5, <3>1 DEF ScanOrder
    <3>3. row[s] \notin {"absent", "queued", "running", "waiting", "terminalizing"}
      BY <2>3, <3>1, <3>2, PassedIs
    <3>. QED
      BY <2>2, <3>3 DEF Statuses
  <2>. QED
    BY <2>4, <2>5
<1>. QED
  BY <1>5, <1>6, <1>7, <1>8 DEF ReaderTrue

(* Taking the channel before the read, in the order of transport.go:296,
   keeps the invariant of the reader. *)
LEMMA ReaderWait ==
  ASSUME TypeOK, ReaderTrue, AppendWait
  PROVE  ReaderTrue'
<1>1. /\ tail.pc = "channel" /\ UNCHANGED <<row, log, pen, delivered>>
      /\ tail' = [tail EXCEPT !.pc = "read", !.woken = FALSE]
  BY DEF AppendWait, desk
<1>2. DOMAIN tail = TailFields
  BY TailShape
<1>3. /\ tail'.pc = "read" /\ tail'.busy = tail.busy
      /\ tail'.after = tail.after /\ tail'.batch = tail.batch
      /\ tail'.admitted = tail.admitted /\ tail'.slipped = tail.slipped
  BY <1>1, <1>2 DEF TailFields
<1>4. OffsetTrue'
  BY <1>1, <1>3 DEF ReaderTrue, OffsetTrue, InOrder, Sent, Fetched
<1>5. ScanTrue'
  BY <1>1, <1>3 DEF ReaderTrue, ScanTrue
<1>. QED
  BY <1>3, <1>4, <1>5 DEF ReaderTrue, NothingBeyond, LastLook

(* The read of the log keeps the invariant of the reader: what it misses is
   announced. *)
LEMMA ReaderReads ==
  ASSUME TypeOK, WritersTrue, ReaderTrue, ReadLog
  PROVE  ReaderTrue'
<1>. DEFINE recs == ReadRecords(tail.after)
            n == Len(log)
<1>1. /\ tail.pc = "read" /\ UNCHANGED <<row, log, pen, delivered>>
      /\ tail' = [tail EXCEPT !.pc = "write", !.batch = recs, !.got = recs # <<>>]
  BY DEF ReadLog, desk
<1>2. /\ DOMAIN tail = TailFields /\ n \in Nat /\ Sent \in Nat
      /\ log \in Seq(Records) /\ tail.after \in Nat /\ tail.admitted \subseteq Subs
  BY TailShape, LogType
<1>3. recs \in Seq(Records)
  BY <1>2, ReadRecordsType
<1>. HIDE DEF recs
<1>4. /\ tail'.pc = "write" /\ tail'.batch = recs /\ (tail'.got <=> recs # <<>>)
      /\ tail'.busy = tail.busy /\ tail'.after = tail.after
      /\ tail'.admitted = tail.admitted /\ tail'.slipped = tail.slipped
  BY <1>1, <1>2 DEF TailFields
<1>5. Len(recs) \in Nat /\ (recs = <<>> <=> Len(recs) = 0)
  BY <1>3
<1>6. Sent' = Sent /\ Fetched' = Len(recs)
  BY <1>1, <1>4 DEF Sent, Fetched
<1>7. ASSUME InOrder
      PROVE  /\ Sent <= n /\ Sent + Len(recs) = n
             /\ \A i \in 1 .. Sent : delivered[i] = log[i]
             /\ \A i \in 1 .. Len(recs) : recs[i] = log[Sent + i]
             /\ tail.after = IF Sent = 0 THEN 0 ELSE log[Sent].id
  <2>1. /\ Sent + Fetched <= n /\ Fetched = 0
        /\ \A i \in 1 .. Sent : delivered[i] = log[i]
        /\ tail.after = IF Sent = 0 THEN 0 ELSE log[Sent].id
    BY <1>1, <1>7 DEF ReaderTrue, OffsetTrue
  <2>2. Sent \in 0 .. n
    BY <1>2, <2>1
  <2>3. recs = SubSeq(log, Sent + 1, n)
    BY <1>7, <2>1, <2>2, ReadsTheRest DEF recs
  <2>4. /\ Len(recs) = n - Sent
        /\ \A i \in 1 .. n - Sent : recs[i] = log[Sent + i]
    <3>1. \A i \in Sent + 1 .. n : log[i] \in Records
      BY <1>2, LogType
    <3>. HIDE DEF n
    <3>. QED
      BY <1>2, <2>2, <2>3, <3>1, SubSeqProperties
  <2>. QED
    BY <1>2, <2>1, <2>2, <2>4
<1>8. OffsetTrue'
  BY <1>1, <1>2, <1>4, <1>5, <1>6, <1>7 DEF OffsetTrue, InOrder
<1>9. NothingBeyond'
  BY <1>1, <1>4, <1>6, <1>7 DEF NothingBeyond, InOrder
<1>10. ScanTrue'
  BY <1>1, <1>4 DEF ReaderTrue, ScanTrue
<1>11. LastLook'
  <2>1. ASSUME InOrder, ~tail.slipped, ~tail.busy, recs = <<>>, NEW s \in tail.admitted
        PROVE  Written(delivered, s)
    <3>1. Written(log, s)
      BY <1>1, <1>2, <2>1 DEF WritersTrue, SettledWritten, ReaderTrue, ScanTrue
    <3>2. Sent = n /\ \A i \in 1 .. n : delivered[i] = log[i]
      BY <1>2, <1>5, <1>7, <2>1
    <3>. QED
      BY <3>1, <3>2 DEF Written, Sent
  <2>. QED
    BY <1>1, <1>4, <1>5, <1>6, <2>1 DEF LastLook, InOrder, Written
<1>. QED
  BY <1>8, <1>9, <1>10, <1>11 DEF ReaderTrue

(* Writing the batch keeps the invariant of the reader: what is delivered
   grows by the next records of the log. *)
LEMMA ReaderWrites ==
  ASSUME TypeOK, ReaderTrue, WriteSSE
  PROVE  ReaderTrue'
<1>. USE DEF desk
<1>1. /\ tail.pc = "write" /\ UNCHANGED <<row, log, pen>>
  BY DEF WriteSSE
<1>2. /\ DOMAIN tail = TailFields /\ Sent \in Nat /\ Fetched \in Nat
      /\ tail.batch \in Seq(Records) /\ delivered \in Seq(Records)
      /\ tail.got \in BOOLEAN /\ tail.busy \in BOOLEAN
  BY TailShape
<1>3. CASE tail.batch # <<>>
  <2>. DEFINE rec == Head(tail.batch)
  <2>1. /\ delivered' = Append(delivered, rec)
        /\ tail' = [tail EXCEPT !.after = rec.id, !.batch = Tail(tail.batch)]
    BY <1>3 DEF WriteSSE
  <2>2. /\ tail'.pc = "write" /\ tail'.after = rec.id /\ tail'.batch = Tail(tail.batch)
        /\ tail'.busy = tail.busy /\ tail'.got = tail.got /\ tail'.woken = tail.woken
        /\ tail'.admitted = tail.admitted /\ tail'.slipped = tail.slipped
    BY <1>1, <1>2, <2>1 DEF TailFields
  <2>3. /\ Fetched > 0 /\ rec = tail.batch[1] /\ rec \in Records
        /\ Fetched' = Fetched - 1
        /\ \A i \in 1 .. Fetched - 1 : tail'.batch[i] = tail.batch[i + 1]
    BY <1>2, <1>3, <2>2, HeadTailProperties DEF Fetched
  <2>. HIDE DEF rec
  <2>4. /\ Sent' = Sent + 1 /\ delivered'[Sent + 1] = rec
        /\ \A i \in 1 .. Sent : delivered'[i] = delivered[i]
    BY <1>2, <2>1, <2>3, AppendProperties DEF Sent
  <2>5. ASSUME InOrder
        PROVE  /\ Sent' + Fetched' = Sent + Fetched
               /\ Sent + Fetched <= Len(log)
               /\ \A i \in 1 .. Sent' : delivered'[i] = log[i]
               /\ \A i \in 1 .. Fetched' : tail'.batch[i] = log[Sent' + i]
               /\ Sent' # 0 /\ tail'.after = log[Sent'].id
    <3>1. /\ Sent + Fetched <= Len(log)
          /\ \A i \in 1 .. Sent : delivered[i] = log[i]
          /\ \A i \in 1 .. Fetched : tail.batch[i] = log[Sent + i]
      BY <2>5 DEF ReaderTrue, OffsetTrue
    <3>2. rec = log[Sent + 1]
      BY <1>2, <2>3, <3>1
    <3>3. \A i \in 1 .. Sent + 1 : i \in 1 .. Sent \/ i = Sent + 1
      BY <1>2
    <3>4. \A i \in 1 .. Fetched - 1 : i + 1 \in 1 .. Fetched /\ Sent + (i + 1) = (Sent + 1) + i
      BY <1>2, <2>3
    <3>5. \A i \in 1 .. Sent' : delivered'[i] = log[i]
      BY <2>4, <3>1, <3>2, <3>3
    <3>6. \A i \in 1 .. Fetched' : tail'.batch[i] = log[Sent' + i]
      BY <2>3, <2>4, <3>1, <3>4
    <3>7. Sent' + Fetched' = Sent + Fetched /\ Sent' # 0
      BY <1>2, <2>3, <2>4
    <3>. QED
      BY <2>2, <2>4, <3>1, <3>2, <3>5, <3>6, <3>7
  <2>6. OffsetTrue'
    BY <1>1, <2>2, <2>5 DEF OffsetTrue, InOrder
  <2>7. NothingBeyond'
    BY <1>1, <2>2, <2>5 DEF ReaderTrue, NothingBeyond, InOrder
  <2>8. ScanTrue'
    BY <1>1, <2>2 DEF ReaderTrue, ScanTrue
  <2>9. LastLook'
    <3>1. tail.got
      BY <1>1, <1>2, <2>3 DEF ReaderTrue, LastLook
    <3>. QED
      BY <2>2, <3>1 DEF LastLook
  <2>. QED
    BY <2>6, <2>7, <2>8, <2>9 DEF ReaderTrue
<1>4. CASE tail.batch = <<>>
  <2>1. /\ delivered' = delivered
        /\ tail' = [tail EXCEPT !.pc = IF tail.got \/ tail.busy THEN "select" ELSE "closed"]
    BY <1>4 DEF WriteSSE
  <2>2. /\ tail'.pc = IF tail.got \/ tail.busy THEN "select" ELSE "closed"
        /\ tail'.after = tail.after /\ tail'.batch = tail.batch
        /\ tail'.busy = tail.busy /\ tail'.got = tail.got /\ tail'.woken = tail.woken
        /\ tail'.admitted = tail.admitted /\ tail'.slipped = tail.slipped
    BY <1>2, <2>1 DEF TailFields
  <2>3. Fetched = 0
    BY <1>4 DEF Fetched
  <2>4. Sent' = Sent /\ Fetched' = Fetched
    BY <2>1, <2>2 DEF Sent, Fetched
  <2>5. OffsetTrue'
    BY <1>1, <2>1, <2>2, <2>3, <2>4 DEF ReaderTrue, OffsetTrue, InOrder
  <2>6. NothingBeyond'
    BY <1>1, <2>2, <2>4 DEF ReaderTrue, NothingBeyond, InOrder
  <2>7. ScanTrue'
    BY <1>1, <2>2 DEF ReaderTrue, ScanTrue
  <2>8. LastLook'
    BY <1>1, <2>1, <2>2 DEF ReaderTrue, LastLook, InOrder, Written
  <2>. QED
    BY <2>5, <2>6, <2>7, <2>8 DEF ReaderTrue
<1>. QED
  BY <1>3, <1>4

(* A round begins at the offset of what was sent last. *)
LEMMA ReaderRound ==
  ASSUME TypeOK, NEW after, UNCHANGED <<log, delivered>>, tail' = Round(after),
         InOrder => /\ Sent <= Len(log)
                    /\ \A i \in 1 .. Sent : delivered[i] = log[i]
                    /\ after = IF Sent = 0 THEN 0 ELSE log[Sent].id
  PROVE  ReaderTrue'
<1>1. /\ tail'.pc = "scan" /\ tail'.pos = 1 /\ tail'.after = after /\ tail'.batch = <<>>
      /\ ~tail'.got
  BY DEF Round
<1>2. Sent' = Sent /\ Fetched' = 0 /\ Sent \in Nat
  BY <1>1, TailShape DEF Sent, Fetched
<1>3. OffsetTrue'
  BY <1>1, <1>2 DEF OffsetTrue, InOrder
<1>. QED
  BY <1>1, <1>3 DEF ReaderTrue, NothingBeyond, ScanTrue, LastLook

(* Going round, or connecting again with the last id that was seen, keeps the
   invariant of the reader. *)
LEMMA ReaderAgain ==
  ASSUME TypeOK, ReaderTrue, Select \/ Reconnect
  PROVE  ReaderTrue'
<1>1. UNCHANGED <<log, delivered>>
  BY DEF Select, Reconnect, desk
<1>2. Sent \in Nat /\ Fetched \in Nat /\ Len(log) \in Nat /\ delivered \in Seq(Records)
  BY TailShape, LogType
<1>3. InOrder => /\ Sent <= Len(log)
                 /\ \A i \in 1 .. Sent : delivered[i] = log[i]
                 /\ tail.after = IF Sent = 0 THEN 0 ELSE log[Sent].id
  BY <1>2 DEF ReaderTrue, OffsetTrue
<1>4. CASE Select
  BY <1>1, <1>3, <1>4, ReaderRound DEF Select
<1>5. CASE Reconnect
  <2>. DEFINE after == IF delivered = <<>> THEN 0 ELSE Last(delivered).id
  <2>1. tail' = Round(after)
    BY <1>5 DEF Reconnect
  <2>2. InOrder => after = IF Sent = 0 THEN 0 ELSE log[Sent].id
    <3>1. delivered = <<>> <=> Sent = 0
      BY <1>2 DEF Sent
    <3>2. Sent # 0 => Sent \in 1 .. Sent /\ Last(delivered) = delivered[Sent]
      BY <1>2 DEF Last, Sent
    <3>. QED
      BY <1>3, <3>1, <3>2
  <2>. HIDE DEF after
  <2>. QED
    BY <1>1, <1>3, <2>1, <2>2, ReaderRound
<1>. QED
  BY <1>4, <1>5

(* Every step keeps the invariant of the reader. *)
LEMMA ReaderStep == TypeOK /\ WritersTrue /\ ReaderTrue /\ [Next]_vars => ReaderTrue'
<1>. SUFFICES ASSUME TypeOK, WritersTrue, ReaderTrue, [Next]_vars PROVE ReaderTrue'
  OBVIOUS
<1>1. CASE Dispatch \/ ClaimSubmission \/ FinalizeSettlement \/ DriveEnds \/ ResumeParent
  BY <1>1, ReaderRows
<1>2. CASE \/ AgentEvent \/ CallTask \/ ExecuteTask \/ DispatchChild
           \/ ConsumeEvent \/ AuthorSettled \/ WakeParent
  BY <1>2, ReaderWriters
<1>3. CASE \E w \in Writers : AppendRecords(w)
  BY <1>3, ReaderAppend
<1>4. CASE \E w \in Writers : NotifyAppend(w)
  BY <1>4, ReaderNotify
<1>5. CASE ScanStatus
  BY <1>5, ReaderScan
<1>6. CASE AppendWait
  BY <1>6, ReaderWait
<1>7. CASE ReadLog
  BY <1>7, ReaderReads
<1>8. CASE WriteSSE
  BY <1>8, ReaderWrites
<1>9. CASE Select \/ Reconnect
  BY <1>9, ReaderAgain
<1>10. CASE UNCHANGED vars
  BY <1>10, Stays, StillKeeps DEF vars, Announcing, RowsOnward, Onward
<1>. QED
  BY <1>1, <1>2, <1>3, <1>4, <1>5, <1>6, <1>7, <1>8, <1>9, <1>10, PenShape
  DEF Next, RunStep, WakeStep, TailStep

----------------------------------------------------------------------------
(* The theorems. *)

(* The invariant holds initially. *)
LEMMA InitInvariant == Init => Invariant
<1>. SUFFICES ASSUME Init PROVE Invariant
  OBVIOUS
<1>1. TypeOK
  BY InitType
<1>2. /\ log = <<[id |-> 1, kind |-> "created", sub |-> 1]>> /\ minted = 1
      /\ run.pc = "none" /\ run.task = 0 /\ events = <<>> /\ child.id = 0 /\ child.pc = "none"
      /\ \A w \in Writers : pen[w] = NoPen
      /\ tail = Round(0) /\ delivered = <<>>
      /\ \A s \in Subs : row[s] = "absent"
  BY DEF Init, NoRun, NoChild
<1>3. Len(log) = 1 /\ log[1].id = 1
  BY <1>2
<1>4. WritersTrue
  <2>1. IdsMinted
    BY <1>2, <1>3 DEF IdsMinted, NoPen
  <2>. QED
    BY <1>2, <2>1, PenShape, <1>1
    DEF WritersTrue, ChildHasId, RunHasRow, RunQuiet, SettledUnderWay, SettledWritten, NoPen
<1>5. ReaderTrue
  <2>1. /\ tail.pc = "scan" /\ tail.pos = 1 /\ tail.after = 0 /\ tail.batch = <<>>
        /\ Sent = 0 /\ Fetched = 0
    BY <1>2 DEF Round, Sent, Fetched
  <2>2. OffsetTrue
    BY <1>3, <2>1 DEF OffsetTrue
  <2>. QED
    BY <2>1, <2>2 DEF ReaderTrue, NothingBeyond, ScanTrue, LastLook
<1>. QED
  BY <1>1, <1>4, <1>5 DEF Invariant

(* The inductive invariant of the stream holds in every state, for any number
   of submissions, events and reconnections and with either adapter. *)
THEOREM InvariantHolds == Spec => []Invariant
<1>1. Invariant /\ [Next]_vars => Invariant'
  BY TypeStep, WritersStep, ReaderStep DEF Invariant, WritersTrue
<1>. QED
  BY <1>1, InitInvariant, PTL DEF Spec

(* Every variable keeps its type. *)
THEOREM TypeCorrect == Spec => []TypeOK
<1>1. Invariant => TypeOK
  BY DEF Invariant
<1>. QED
  BY <1>1, InvariantHolds, PTL

(* While the ids of the log are in order, a reader that reconnects with the
   last id it saw has been sent a prefix of the log: no record twice and none
   left out. *)
THEOREM Prefix == Spec => []DeliveredPrefix
<1>1. Invariant => DeliveredPrefix
  <2>. SUFFICES ASSUME Invariant, InOrder PROVE IsPrefix(delivered, log)
    BY DEF DeliveredPrefix
  <2>1. /\ Sent \in Nat /\ Fetched \in Nat /\ Len(log) \in Nat
        /\ log \in Seq(Records) /\ delivered \in Seq(Records)
    BY TailShape, LogType DEF Invariant
  <2>2. Sent <= Len(log) /\ \A i \in 1 .. Sent : delivered[i] = log[i]
    BY <2>1 DEF Invariant, ReaderTrue, OffsetTrue
  <2>. QED
    BY <2>1, <2>2 DEF IsPrefix, Sent
<1>. QED
  BY <1>1, InvariantHolds, PTL

(* A reader that sleeps with records beyond its last read is woken: a writer
   that has appended has still to notify, or has already closed the channel
   it sleeps on. *)
THEOREM NoAnnouncementLost == Spec => []NoLostWake
<1>1. Invariant => NoLostWake
  <2>. SUFFICES ASSUME Invariant, tail.pc = "select", ~tail.woken, InOrder,
                       Sent + Fetched = Len(log)
                PROVE  ReadRecords(tail.after) = <<>>
    BY DEF NoLostWake, Invariant, ReaderTrue, NothingBeyond
  <2>1. TypeOK /\ Sent \in Nat /\ Len(log) \in Nat /\ log \in Seq(Records)
    BY TailShape, LogType DEF Invariant
  <2>2. Fetched = 0 /\ tail.after = IF Sent = 0 THEN 0 ELSE log[Sent].id
    BY DEF Invariant, ReaderTrue, OffsetTrue
  <2>3. Sent = Len(log)
    BY <2>1, <2>2
  <2>4. ReadRecords(tail.after) = SubSeq(log, Len(log) + 1, Len(log))
    BY <2>1, <2>2, <2>3, ReadsTheRest
  <2>. QED
    BY <2>1, <2>4, SubSeqProperties
<1>. QED
  BY <1>1, InvariantHolds, PTL

(* When a stream ends and no row slipped past the four looks of the scan,
   everything admitted is settled and its settled record has been sent. *)
THEOREM CleanClose == Spec => []CloseIsClean
<1>1. Invariant => CloseIsClean
  BY DEF Invariant, ReaderTrue, LastLook, CloseIsClean, Written, Settles
<1>. QED
  BY <1>1, InvariantHolds, PTL
=============================================================================
