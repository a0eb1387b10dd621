--------------------------- MODULE SubagentsProofs ---------------------------
(***************************************************************************)
(* The invariant of SubagentsInvariant is inductive, and the properties of *)
(* Subagents follow from it.                                               *)
(*                                                                         *)
(* The argument is by rely and guarantee.  Moves(T) says what a step of    *)
(* the threads T may do to the store and that it leaves the other threads  *)
(* where they are; the lemmas named ...Kept show that such a step keeps    *)
(* the View of every other thread and the store's own part.  Does(t) is    *)
(* what is then left to show of a thread that moves.  Composed puts the    *)
(* two together, Alone for a step of one thread, and the lemmas named      *)
(* ...Step show for each action that it moves like that.                   *)
(*                                                                         *)
(* The last part is about the resume, with a second invariant on top of    *)
(* the first: the lemmas named ...Tamely show that a step relies on no     *)
(* answer that is not there.                                               *)
(***************************************************************************)
EXTENDS SubagentsInvariant, TLAPS

(* What a step does to the job of a thread, and to those of the others: at
   most, it interrupts them. *)
Like(u) ==
  /\ (job')[u].pc = job[u].pc /\ (job')[u].sub = job[u].sub
  /\ (job')[u].outcome = job[u].outcome /\ (job')[u].stage = job[u].stage
  /\ (job')[u].todo = job[u].todo /\ (job')[u].pend = job[u].pend
  /\ job[u].cut => (job')[u].cut

Now(t, p, s, o, g, d, e) ==
  /\ job' \in [Threads -> Job]
  /\ (job')[t].pc = p /\ (job')[t].sub = s /\ (job')[t].outcome = o
  /\ (job')[t].stage = g /\ (job')[t].todo = d /\ (job')[t].pend = e
  /\ \A u \in Threads \ {t} : Like(u)

(* What a step of the threads T may do to a row. *)
Becomes(s, status, flag, leased) ==
  /\ row' \in [Subs -> Row]
  /\ (row')[s].status = status /\ (row')[s].flag = flag /\ (row')[s].leased = leased
  /\ \A u \in Subs \ {s} : (row')[u] = row[u]

Reserves(T) ==
  \E s \in T \cap Subs : /\ row[s].status = "running"
                         /\ Becomes(s, "terminalizing", row[s].flag, row[s].leased)
Finalizes(T) ==
  \E t \in T : /\ At(t, "finalize") /\ row[job[t].sub].status = "terminalizing"
               /\ Becomes(job[t].sub, "settled", row[job[t].sub].flag, row[job[t].sub].leased)
               /\ t \in Kids => (job')[t].pc = "wake"
Cancels(T) ==
  \E k \in Kids : /\ row[k].status = "queued"
                  /\ Becomes(k, "settled", row[k].flag, row[k].leased)
                  /\ P \in T \/ row[P].status # "waiting" \/ lapsed \/ crashes > 0
Flags(T) ==
  \E t \in T \cap {P, Loop} : \E k \in Kids :
     /\ row[k].status = "running" /\ Becomes(k, "running", TRUE, row[k].leased)
     /\ (job')[t].pc = "interrupt" /\ (job')[t].sub = k
Releases(T) ==
  \E s \in Subs : /\ row[s].status = "running"
                  /\ s \in T \/ job[s].pc = "idle"
                  /\ Becomes(s, "queued", row[s].flag, FALSE)
Parks(T) ==
  /\ P \in T /\ row[P].status = "running" /\ Becomes(P, "waiting", row[P].flag, FALSE)
  /\ parkedLate' = (Live = {})
Resumes ==
  row[P].status = "waiting" /\ Becomes(P, "queued", row[P].flag, row[P].leased)
Admits(T) ==
  /\ P \in T /\ At(P, "dispatch") /\ row[job[P].sub].status = "absent"
  /\ Becomes(job[P].sub, "queued", FALSE, FALSE)
Claims(T) ==
  \E s \in T \cap Subs : /\ row[s].status = "queued"
                         /\ Becomes(s, "running", row[s].flag, TRUE)
Expires ==
  \E s \in Subs : /\ row[s].status = "running" /\ job[s].pc = "idle"
                  /\ Becomes(s, "running", row[s].flag, FALSE)

Rows(T) ==
  \/ row' = row
  \/ Reserves(T) \/ Finalizes(T) \/ Cancels(T) \/ Flags(T) \/ Releases(T)
  \/ Parks(T) \/ Resumes \/ Admits(T) \/ Claims(T) \/ Expires

(* ...to the log of the parent's calls and to the settled records... *)
Wrote(K, r) == log' = [k \in Kids |-> IF k \in K THEN Append(log[k], r) ELSE log[k]]

Allowed(K, r) ==
  \/ r \in {"call", "rejected", "expired"}
  \/ r = "spawn" /\ \A k \in K : k \in Children /\ (Over(k) \/ job[P].pc # "exempt")
  \/ r = "dangling" /\ \A k \in K : Spawned(k) => Over(k)
  \/ r \in Ends /\ \A k \in K : /\ Spawned(k) /\ settled[k] # <<>>
                                /\ Head(settled[k]) = r

Logs == \E K \in SUBSET Kids : \E r \in Records : Wrote(K, r) /\ Allowed(K, r)

Settles(T) ==
  \/ settled' = settled
  \/ \E t \in T : /\ At(t, "append")
                  /\ settled' = [settled EXCEPT ![job[t].sub] = Append(@, job[t].outcome)]

(* ...and to the rest. *)
Talks(T) ==
  \/ events' = events /\ author' = author /\ called' = called
  \/ /\ P \in T \/ ~Drained
     /\ events' \in Seq({"call", "spawn", "rejected"} \X Kids)
     /\ author' \subseteq Children'
     /\ \A i \in 1 .. Len(events') : (events')[i][1] = "spawn" => (events')[i][2] \in Children'
     /\ called' \subseteq Kids /\ Children' \subseteq called'
     /\ P \in T \/ called' = called

Others(T) ==
  /\ lapsed' \in BOOLEAN /\ suspended' \in BOOLEAN /\ nudge' \in BOOLEAN
  /\ parkedLate' \in BOOLEAN /\ crashes' = crashes
  /\ lapsed => lapsed' \/ (row')[P].status # "waiting"
  /\ P \in T \/ parkedLate' = parkedLate

Store(T) == Rows(T) /\ Logs /\ Settles(T) /\ Talks(T) /\ Others(T)

Moves(T) == Store(T) /\ job' \in [Threads -> Job] /\ \A u \in Threads \ T : Like(u)

----------------------------------------------------------------------------
(* What the moves keep. *)

LEMMA Appended ==
  ASSUME NEW q \in Seq(Records), NEW r \in Records
  PROVE  /\ Append(q, r) \in Seq(Records) /\ Len(Append(q, r)) = Len(q) + 1
         /\ \A i \in 1 .. Len(q) : Append(q, r)[i] = q[i]
         /\ Append(q, r)[Len(q) + 1] = r
  OBVIOUS

LEMMA Written ==
  ASSUME TypeOK, NEW K \in SUBSET Kids, NEW r \in Records, Wrote(K, r)
  PROVE  /\ log' \in [Kids -> Seq(Records)]
         /\ \A k \in Kids :
              /\ k \in K => (log')[k] = Append(log[k], r)
              /\ k \notin K => (log')[k] = log[k]
  <1>1. log \in [Kids -> Seq(Records)]
    BY DEF TypeOK
  <1>2. \A k \in Kids : Append(log[k], r) \in Seq(Records)
    BY <1>1, Appended
  <1> QED BY <1>1, <1>2 DEF Wrote

LEMMA LogKept ==
  ASSUME TypeOK, Logs, NEW k \in Kids
  PROVE  /\ log' \in [Kids -> Seq(Records)]
         /\ Len(log[k]) \in Nat /\ Len((log')[k]) \in Nat /\ Len(log[k]) <= Len((log')[k])
         /\ \A i \in 1 .. Len(log[k]) : (log')[k][i] = log[k][i]
  <1>1. PICK K \in SUBSET Kids, r \in Records : Wrote(K, r)
    BY DEF Logs
  <1>2. log[k] \in Seq(Records)
    BY DEF TypeOK
  <1>3. /\ Len(Append(log[k], r)) = Len(log[k]) + 1
        /\ \A i \in 1 .. Len(log[k]) : Append(log[k], r)[i] = log[k][i]
    BY <1>2, Appended
  <1>4. log' \in [Kids -> Seq(Records)]
    BY <1>1, Written
  <1>5. CASE k \in K
    <2>1. (log')[k] = Append(log[k], r)
      BY <1>1, <1>5, Written
    <2> QED BY <2>1, <1>2, <1>3, <1>4
  <1>6. CASE k \notin K
    <2>1. (log')[k] = log[k]
      BY <1>1, <1>6, Written
    <2> QED BY <2>1, <1>2, <1>4
  <1> QED BY <1>5, <1>6

LEMMA AnswersKept ==
  ASSUME TypeOK, Logs, NEW k \in Kids
  PROVE  /\ Spawned(k) => Spawned(k)'
         /\ Answered(k) => Answered(k)'
  BY LogKept DEF Spawned, Answered, Logged

(* A record that is new was allowed. *)
LEMMA NewRecord ==
  ASSUME TypeOK, Logs, NEW k \in Kids, NEW j \in 1 .. Len((log')[k]),
         j \notin 1 .. Len(log[k])
  PROVE  /\ j = Len(log[k]) + 1 /\ Len((log')[k]) = Len(log[k]) + 1
         /\ Allowed({k}, (log')[k][j])
  <1>1. PICK K \in SUBSET Kids, r \in Records : Wrote(K, r) /\ Allowed(K, r)
    BY DEF Logs
  <1>2. log[k] \in Seq(Records)
    BY DEF TypeOK
  <1>3. k \in K
    <2> SUFFICES ASSUME k \notin K PROVE FALSE
      OBVIOUS
    <2>1. (log')[k] = log[k]
      BY <1>1, Written
    <2> QED BY <2>1
  <1>4. (log')[k] = Append(log[k], r)
    BY <1>1, <1>3, Written
  <1>5. Allowed({k}, r)
    BY <1>1, <1>3 DEF Allowed
  <1>6. /\ Len(Append(log[k], r)) = Len(log[k]) + 1 /\ Append(log[k], r)[Len(log[k]) + 1] = r
        /\ Len(log[k]) \in Nat
    BY <1>2, Appended
  <1>7. j = Len(log[k]) + 1
    BY <1>4, <1>6
  <1> QED BY <1>4, <1>5, <1>6, <1>7

LEMMA NewlySpawned ==
  ASSUME TypeOK, Logs, NEW k \in Kids, Spawned(k)', ~Spawned(k)
  PROVE  k \in Children /\ (Over(k) \/ job[P].pc # "exempt")
  <1>1. PICK j \in 1 .. Len((log')[k]) : (log')[k][j] = "spawn"
    BY DEF Spawned, Logged
  <1>2. j \notin 1 .. Len(log[k])
    BY <1>1, LogKept DEF Spawned, Logged
  <1>3. Allowed({k}, "spawn")
    BY <1>1, <1>2, NewRecord
  <1> QED BY <1>3 DEF Allowed, Ends

LEMMA SettledKept ==
  ASSUME TypeOK, NEW T, T \subseteq Threads, Settles(T),
         \A t \in T : At(t, "append") => settled[job[t].sub] = <<>> /\ job[t].outcome \in Ends
  PROVE  /\ settled' \in [Subs -> Seq(Ends)]
         /\ \A s \in Subs :
              \/ (settled')[s] = settled[s]
              \/ /\ settled[s] = <<>> /\ Len((settled')[s]) = 1
                 /\ (settled')[s] # <<>>
                 /\ \E t \in T : At(t, "append") /\ job[t].sub = s
  <1>1. settled \in [Subs -> Seq(Ends)] /\ job \in [Threads -> Job]
    BY DEF TypeOK
  <1>2. CASE settled' = settled
    BY <1>1, <1>2
  <1>3. ASSUME NEW t \in T, At(t, "append"),
               settled' = [settled EXCEPT ![job[t].sub] = Append(@, job[t].outcome)]
        PROVE  /\ settled' \in [Subs -> Seq(Ends)]
               /\ \A s \in Subs :
                    \/ (settled')[s] = settled[s]
                    \/ /\ settled[s] = <<>> /\ Len((settled')[s]) = 1
                       /\ (settled')[s] # <<>>
                       /\ \E u \in T : At(u, "append") /\ job[u].sub = s
    <2> DEFINE q == job[t].sub
               o == job[t].outcome
    <2>1. q \in Subs /\ o \in Ends /\ settled[q] = <<>>
      BY <1>1, <1>3 DEF Job
    <2>2. settled' = [settled EXCEPT ![q] = Append(@, o)]
      BY <1>3
    <2>3. job[t].sub = q
      OBVIOUS
    <2> HIDE DEF q, o
    <2>4. Append(settled[q], o) \in Seq(Ends) /\ Len(Append(<<>>, o)) = 1
      BY <1>1, <2>1
    <2>5. (settled')[q] = Append(<<>>, o)
      BY <1>1, <2>1, <2>2
    <2>6. Append(<<>>, o) # <<>>
      BY <2>1
    <2>7. settled' \in [Subs -> Seq(Ends)]
      BY <1>1, <2>1, <2>2, <2>4
    <2>8. \A s \in Subs \ {q} : (settled')[s] = settled[s]
      BY <1>1, <2>2
    <2> QED BY <1>3, <2>1, <2>3, <2>4, <2>5, <2>6, <2>7, <2>8
  <1> QED BY <1>2, <1>3 DEF Settles

LEMMA RowsKept ==
  ASSUME TypeOK, NEW T, T \subseteq Threads, Rows(T), NEW s \in Subs
  PROVE  /\ row' \in [Subs -> Row]
         /\ row[s].status = "settled" => (row')[s].status = "settled"
         /\ row[s].status = "terminalizing" => (row')[s].status \in {"terminalizing", "settled"}
         /\ row[s].status # "absent" => (row')[s].status # "absent"
         /\ row[s].flag => (row')[s].flag \/ row[s].status = "absent"
         /\ P \notin T /\ row[s].status = "absent" => (row')[s].status = "absent"
  <1>1. row \in [Subs -> Row] /\ job \in [Threads -> Job] /\ P \in Subs /\ Kids \subseteq Subs
    BY DEF TypeOK, Subs
  <1>2. \A t \in T : job[t].sub \in Subs
    BY <1>1 DEF Job
  <1>3. job[P].sub \in Subs
    BY <1>1 DEF Job, Threads, Subs
  <1>4. CASE row' = row
    BY <1>1, <1>4
  <1>5. CASE Reserves(T) \/ Finalizes(T) \/ Cancels(T)
    BY <1>1, <1>2, <1>5 DEF Reserves, Finalizes, Cancels, Becomes
  <1>6. CASE Flags(T) \/ Releases(T) \/ Parks(T) \/ Resumes
    BY <1>1, <1>2, <1>6 DEF Flags, Releases, Parks, Resumes, Becomes
  <1>7. CASE Admits(T) \/ Claims(T) \/ Expires
    BY <1>1, <1>3, <1>7 DEF Admits, Claims, Expires, Becomes
  <1> QED BY <1>4, <1>5, <1>6, <1>7 DEF Rows

LEMMA ChildrenKept ==
  ASSUME TypeOK, NEW T, T \subseteq Threads, Rows(T)
  PROVE  /\ Children \subseteq Children'
         /\ Live' \subseteq Live \cup (Children' \ Children)
         /\ P \notin T => Children' = Children
         /\ \A k \in Kids : Terminal(k) => Terminal(k)'
  <1>1. Kids \subseteq Subs
    BY DEF Subs
  <1> QED BY <1>1, RowsKept DEF Children, Live, Terminal

LEMMA OverKept ==
  ASSUME TypeOK, NEW T, T \subseteq Threads, Rows(T), Settles(T), NEW k \in Kids, Over(k),
         \A t \in T : At(t, "append") => settled[job[t].sub] = <<>> /\ job[t].outcome \in Ends
  PROVE  Over(k)'
  <1>1. k \in Subs
    BY DEF Subs
  <1> QED BY <1>1, RowsKept, SettledKept DEF Over

----------------------------------------------------------------------------
(* The threads that do not move keep their view. *)

(* A thread that appends a settled record has found none. *)
LEMMA Appending ==
  ASSUME Invariant, NEW T, T \subseteq Threads
  PROVE  \A t \in T : At(t, "append") => settled[job[t].sub] = <<>> /\ job[t].outcome \in Ends
  BY DEF Invariant, View, Telling, Staged, At, Duties, Notes

LEMMA FinalizerAlone ==
  ASSUME Invariant, NEW t \in Threads, NEW u \in Threads \ {t},
         At(t, "finalize"), job[u].stage = "reserved"
  PROVE  job[u].sub # job[t].sub
  <1>1. Staged(t) /\ Staged(u)
    BY DEF Invariant, View
  <1>2. job[t].stage = "reserved" /\ t \in {job[t].sub, Loop}
    BY <1>1 DEF Staged, At, Duties, Notes
  <1>3. job[u].pc \in Duties /\ u \in {job[u].sub, Loop}
    BY <1>1 DEF Staged
  <1>4. ASSUME job[u].sub = job[t].sub, NEW a \in {t, u}, NEW b \in {t, u}, a = Loop, b # Loop
        PROVE  FALSE
    <2>1. Booting
      BY <1>2, <1>4 DEF Booting
    <2>2. b \in Subs
      BY <1>4 DEF Threads
    <2>3. job[b].pc = "idle"
      BY <2>1, <2>2 DEF Invariant, LoopAlone
    <2> QED BY <2>3, <1>2, <1>3, <1>4 DEF Duties, Notes, At
  <1> QED BY <1>2, <1>3, <1>4

LEMMA RowHeldKept ==
  ASSUME Invariant, NEW T, T \subseteq Threads, Rows(T), NEW u \in Threads \ T, Like(u)
  PROVE  RowHeld(u)'
  <1>1. TypeOK /\ RowHeld(u) /\ Staged(u) /\ job \in [Threads -> Job] /\ row \in [Subs -> Row]
    BY DEF Invariant, View, TypeOK
  <1>2. job[u].sub \in Subs
    BY <1>1 DEF Job
  <1>3. Working(u)' <=> Working(u)
    BY DEF Working, Like
  <1>4. ASSUME u \in Subs, Working(u)
        PROVE  (row')[u].status = "running" /\ (row')[u].leased
    <2>1. row[u].status = "running" /\ row[u].leased /\ job[u].pc # "idle"
      BY <1>1, <1>4 DEF RowHeld, Staged, Working, Turns, Duties, Notes
    <2>2. CASE row' = row
      BY <2>1, <2>2
    <2>3. CASE Reserves(T) \/ Finalizes(T) \/ Cancels(T) \/ Flags(T)
      BY <2>1, <2>3, <1>4 DEF Reserves, Finalizes, Cancels, Flags, Becomes
    <2>4. CASE Releases(T) \/ Parks(T) \/ Resumes
      BY <2>1, <2>4, <1>4 DEF Releases, Parks, Resumes, Becomes
    <2>5. CASE Admits(T) \/ Claims(T) \/ Expires
      BY <2>1, <2>5, <1>4 DEF Admits, Claims, Expires, Becomes
    <2> QED BY <2>2, <2>3, <2>4, <2>5 DEF Rows
  <1>5. ASSUME job[u].stage = "reserved"
        PROVE  (row')[job[u].sub].status = "terminalizing"
    <2> DEFINE s == job[u].sub
    <2>1. s \in Subs /\ row[s].status = "terminalizing"
      BY <1>1, <1>2, <1>5 DEF RowHeld
    <2>2. \A t \in T : At(t, "finalize") => s # job[t].sub
      BY <1>5, FinalizerAlone
    <2> SUFFICES (row')[s].status = "terminalizing"
      OBVIOUS
    <2> HIDE DEF s
    <2>3. CASE row' = row
      BY <2>1, <2>3
    <2>4. CASE Finalizes(T)
      BY <2>1, <2>2, <2>4 DEF Finalizes, Becomes
    <2>5. CASE Reserves(T) \/ Cancels(T) \/ Flags(T)
      BY <2>1, <2>5 DEF Reserves, Cancels, Flags, Becomes
    <2>6. CASE Releases(T) \/ Parks(T) \/ Resumes
      BY <2>1, <2>6 DEF Releases, Parks, Resumes, Becomes
    <2>7. CASE Admits(T) \/ Claims(T) \/ Expires
      BY <2>1, <2>7 DEF Admits, Claims, Expires, Becomes
    <2> QED BY <2>3, <2>4, <2>5, <2>6, <2>7 DEF Rows
  <1>6. ASSUME job[u].stage \in {"final", "direct", "backstop"}
        PROVE  (row')[job[u].sub].status = "settled"
    BY <1>1, <1>2, <1>6, RowsKept DEF RowHeld
  <1> QED BY <1>3, <1>4, <1>5, <1>6 DEF RowHeld, Like

LEMMA TellingKept ==
  ASSUME Invariant, NEW T, T \subseteq Threads, Logs, Settles(T), NEW u \in Threads \ T, Like(u)
  PROVE  Telling(u)'
  <1>1. TypeOK /\ Telling(u) /\ Staged(u) /\ Placed(u) /\ job \in [Threads -> Job]
    BY DEF Invariant, View, TypeOK
  <1> DEFINE s == job[u].sub
  <1>2. s \in Subs /\ (job')[u].sub = s
    BY <1>1 DEF Job, Like
  <1>3. \A q \in Subs :
              \/ (settled')[q] = settled[q]
              \/ /\ settled[q] = <<>> /\ (settled')[q] # <<>>
                 /\ \E t \in T : At(t, "append") /\ job[t].sub = q
    BY <1>1, Appending, SettledKept
  <1>4. At(u, "append") => ~ \E t \in T : At(t, "append") /\ job[t].sub = s
    BY DEF Invariant, OneSettles, Settling, At
  <1>5. At(u, "append") => (settled')[s] = <<>>
    BY <1>1, <1>2, <1>3, <1>4 DEF Telling, At
  <1>6. Told(u) => Told(u)'
    BY <1>2, <1>3 DEF Told, Like
  <1>7. job[u].stage = "backstop" => job[u].pc \in Notes
    BY <1>1 DEF Staged
  <1>8. CASE job[u].pc \in Notes
    <2>1. PICK k \in Kids : k = job[u].sub
      BY <1>1, <1>8 DEF Placed
    <2>2. (Answered(k) => Answered(k)') /\ (Spawned(k) => Spawned(k)')
      BY <1>1, AnswersKept
    <2>3. (job')[u].sub = k
      BY <2>1, <1>2
    <2>4. \/ Told(u)' \/ job[u].stage = "park"
          \/ job[u].stage = "backstop" /\ job[u].pc # "answer" /\ Answered(k)'
      BY <1>1, <1>6, <1>8, <2>1, <2>2 DEF Telling
    <2>5. job[u].pc \in {"answered?", "answer"} => Spawned(k)'
      BY <1>1, <2>1, <2>2 DEF Telling
    <2>6. job[u].pc # "append"
      BY <1>8 DEF Notes
    <2> QED BY <2>3, <2>4, <2>5, <2>6 DEF Telling, Like, Answered, Spawned, Logged
  <1>9. CASE job[u].pc \notin Notes
    <2>1. job[u].pc \notin {"answered?", "answer"}
      BY <1>9 DEF Notes
    <2>2. job[u].pc = "finalize" => Told(u)' \/ job[u].stage = "park"
      BY <1>1, <1>6, <1>7, <1>9 DEF Telling
    <2> QED BY <1>2, <1>5, <1>9, <2>1, <2>2 DEF Telling, Like, At
  <1> QED BY <1>8, <1>9

LEMMA ViewKept ==
  ASSUME Invariant, NEW T, T \subseteq Threads, Moves(T), NEW u \in Threads \ T
  PROVE  View(u)'
  <1>1. Like(u) /\ Rows(T) /\ Logs /\ Settles(T)
    BY DEF Moves, Store
  <1>2. Placed(u) /\ Staged(u)
    BY DEF Invariant, View
  <1>3. Placed(u)' /\ Staged(u)'
    BY <1>1, <1>2 DEF Placed, Staged, Like
  <1> QED BY <1>1, <1>3, RowHeldKept, TellingKept DEF View

(* A parent that does not move is not sent to wait. *)
LEMMA StillWaiting ==
  ASSUME Invariant, NEW T, T \subseteq Threads, Rows(T), P \notin T,
         (row')[P].status = "waiting"
  PROVE  row[P].status = "waiting"
  <1>1. P \in Subs /\ job \in [Threads -> Job]
    BY DEF Invariant, TypeOK, Subs
  <1>2. CASE row' = row
    BY <1>2
  <1>3. CASE Reserves(T) \/ Finalizes(T) \/ Cancels(T) \/ Flags(T)
    BY <1>1, <1>3 DEF Reserves, Finalizes, Cancels, Flags, Becomes
  <1>4. CASE Releases(T) \/ Parks(T) \/ Resumes
    BY <1>1, <1>4 DEF Releases, Parks, Resumes, Becomes
  <1>5. CASE Admits(T) \/ Claims(T) \/ Expires
    BY <1>1, <1>5 DEF Admits, Claims, Expires, Becomes
  <1> QED BY <1>2, <1>3, <1>4, <1>5 DEF Rows

(* Only its settler finalizes a row. *)
LEMMA StillTerminalizing ==
  ASSUME TypeOK, NEW T, T \subseteq Threads, Rows(T), NEW s \in Subs,
         row[s].status = "terminalizing",
         \A t \in T : At(t, "finalize") => job[t].sub # s
  PROVE  (row')[s].status = "terminalizing"
  <1>1. CASE row' = row
    BY <1>1
  <1>2. CASE Finalizes(T)
    BY <1>2 DEF Finalizes, Becomes
  <1>3. CASE Reserves(T) \/ Cancels(T) \/ Flags(T)
    BY <1>3 DEF Reserves, Cancels, Flags, Becomes
  <1>4. CASE Releases(T) \/ Parks(T) \/ Resumes
    BY <1>4 DEF Releases, Parks, Resumes, Becomes
  <1>5. CASE Admits(T) \/ Claims(T) \/ Expires
    BY <1>5 DEF Admits, Claims, Expires, Becomes
  <1> QED BY <1>1, <1>2, <1>3, <1>4, <1>5 DEF Rows

LEMMA LoopKept ==
  ASSUME Invariant, NEW T, T \subseteq Subs, Moves(T), \A s \in T : job[s].pc # "idle"
  PROVE  LoopAlone' /\ Backstop'
  <1>1. TypeOK /\ LoopAlone /\ Backstop /\ Rows(T) /\ Logs /\ Others(T)
    BY DEF Invariant, Moves, Store
  <1>2. T \subseteq Threads /\ Loop \in Threads \ T
    BY SubagentsAssumption DEF Threads
  <1>3. Like(Loop) /\ \A u \in Threads \ T : Like(u)
    BY <1>2 DEF Moves
  <1>4. ASSUME Booting PROVE T = {} /\ \A s \in Subs : (job')[s].pc = "idle"
    BY <1>1, <1>3, <1>4 DEF LoopAlone, Threads, Like
  <1>5. ASSUME Scanning PROVE P \notin T /\ (job')[P].pc = "idle"
    BY <1>1, <1>3, <1>5 DEF LoopAlone, Threads, Subs, Like
  <1>6. Booting' <=> Booting
    BY <1>3 DEF Booting, Like
  <1>7. Scanning' <=> Scanning
    BY <1>3 DEF Scanning, Like
  <1>8. LoopAlone'
    <2>1. ASSUME job[Loop].pc = "reconcile" \/ job[Loop].stage \in {"reserved", "final"},
                 NEW s \in job[Loop].todo
          PROVE  (row')[s].status = "terminalizing"
      <3>1. Booting /\ s \in Subs
        BY <1>1, <1>2, <2>1 DEF Booting, TypeOK, Job
      <3>2. row[s].status = "terminalizing"
        BY <1>1, <2>1 DEF LoopAlone
      <3> QED BY <1>1, <1>2, <1>4, <3>1, <3>2, StillTerminalizing
    <2>2. ASSUME job[Loop].pc \in Expiry \cup {"interrupt"}, (row')[P].status = "waiting"
          PROVE  lapsed'
      <3>1. P \notin T
        BY <1>5, <2>2 DEF Scanning
      <3>2. row[P].status = "waiting"
        BY <1>1, <1>2, <2>2, <3>1, StillWaiting
      <3> QED BY <1>1, <2>2, <3>2 DEF LoopAlone, Others
    <2>3. job[Loop].pc \in {"cancel", "interrupt"} => job[Loop].todo \subseteq Kids
      BY <1>1 DEF LoopAlone
    <2>4. \A s \in job[Loop].todo :
            job[Loop].stage \in {"reserved", "final"} /\ job[Loop].pc # "reconcile" => s # job[Loop].sub
      BY <1>1 DEF LoopAlone
    <2> QED BY <1>3, <1>4, <1>5, <1>6, <1>7, <2>1, <2>2, <2>3, <2>4 DEF LoopAlone, Like
  <1>9. Backstop'
    <2>1. \A k \in Kids : /\ Spawned(k) => Spawned(k)'
                          /\ Answered(k) => Answered(k)'
      BY <1>1, AnswersKept
    <2>2. ASSUME Scanning
          PROVE  Children' = Children /\ Live' \subseteq Live
      BY <1>1, <1>2, <1>5, <2>2, ChildrenKept
    <2>3. job[Loop].pc \in {"backlist", "backpending", "backstop"} => Scanning
      BY DEF Scanning
    <2>4. job[Loop].stage = "backstop" => Scanning
      BY DEF Scanning
    <2>5. ASSUME job[Loop].pc \in {"backlist", "backpending"}, NEW k \in Children'
          PROVE  Spawned(k)'
      <3>1. k \in Children /\ k \in Kids
        BY <2>2, <2>3, <2>5 DEF Children
      <3> QED BY <1>1, <2>1, <2>5, <3>1 DEF Backstop
    <2>6. ASSUME job[Loop].pc \in {"backpending", "backstop"} \/ job[Loop].stage = "backstop"
          PROVE  job[Loop].todo \subseteq Children' \ Live'
      BY <1>1, <2>2, <2>3, <2>4, <2>6 DEF Backstop
    <2>7. ASSUME job[Loop].pc = "backstop" \/ job[Loop].stage = "backstop",
                 NEW k \in job[Loop].todo
          PROVE  k \in job[Loop].pend \/ Answered(k)'
      <3>1. k \in Kids
        BY <1>1, <2>7 DEF Backstop, Children
      <3> QED BY <1>1, <2>1, <2>7, <3>1 DEF Backstop
    <2> QED BY <1>3, <2>5, <2>6, <2>7 DEF Backstop, Like
  <1> QED BY <1>8, <1>9

LEMMA ParentKept ==
  ASSUME Invariant, NEW T, T \subseteq Threads, P \notin T, Moves(T)
  PROVE  Parked' /\ Calling' /\ Dangling' /\ Orphans'
  <1>1. TypeOK /\ Rows(T) /\ Logs /\ Settles(T) /\ Talks(T)
    BY DEF Invariant, Moves, Store
  <1>2. P \in Threads /\ Like(P)
    BY DEF Moves, Threads, Subs
  <1>3. \A k \in Kids : Spawned(k) => Spawned(k)'
    BY <1>1, AnswersKept
  <1>4. Children' = Children /\ Live' \subseteq Live
    BY <1>1, ChildrenKept
  <1>5. Children \subseteq Kids
    BY DEF Children
  <1>6. Parked'
    <2>1. Parked
      BY DEF Invariant
    <2>2. (row')[P].status = "waiting" => row[P].status = "waiting"
      BY StillWaiting, <1>1
    <2>3. ASSUME NEW k \in Children', Spawned(k)
          PROVE  Spawned(k)'
      BY <1>3, <1>4, <1>5, <2>3
    <2>4. (row')[P].status = "waiting" => (job')[P].pc = "idle" /\ \A k \in Children' : Spawned(k)'
      BY <1>2, <1>4, <2>1, <2>2, <2>3 DEF Parked, Like
    <2>5. job[P].pc = "repair" => \A k \in Children' : Spawned(k)' \/ k \in job[P].todo
      BY <1>4, <2>1, <2>3 DEF Parked
    <2>6. job[P].stage = "park" =>
            \A k \in Children' : Spawned(k)' \/ k \in job[P].todo \cup {job[P].sub}
      BY <1>4, <2>1, <2>3 DEF Parked
    <2> QED BY <1>2, <1>4, <2>1, <2>4, <2>5, <2>6 DEF Parked, Like
  <1>7. Calling'
    <2>1. Calling
      BY DEF Invariant
    <2>2. called' = called /\ (Drained => Drained')
      BY <1>1 DEF Talks, Drained
    <2> QED BY <1>2, <1>4, <2>1, <2>2 DEF Calling, Like
  <1>8. Dangling'
    <2>1. Dangling
      BY DEF Invariant
    <2>2. ASSUME job[P].pc = "exempt", NEW k \in job[P].pend, Spawned(k)'
          PROVE  k \in job[P].todo \/ Over(k)'
      <3>1. k \in Kids
        BY <1>2 DEF Invariant, View, Placed
      <3>2. Over(k) => Over(k)'
        BY <1>1, <3>1, Appending, OverKept
      <3>3. Spawned(k) => k \in job[P].todo \/ Over(k)
        BY <2>1, <2>2 DEF Dangling
      <3>4. ~Spawned(k) => Over(k)
        BY <1>1, <2>2, <3>1, NewlySpawned
      <3> QED BY <3>2, <3>3, <3>4
    <2> QED BY <1>2, <2>2 DEF Dangling, Like
  <1>9. Orphans'
    <2>1. Orphans
      BY DEF Invariant
    <2>2. ASSUME Cascading, NEW k \in Live'
          PROVE  k \in job[P].todo \/ (row')[k].flag \/ Terminal(k)'
      <3>1. k \in Live /\ k \in Kids /\ k \in Subs /\ row[k].status # "absent"
        BY <1>4, <2>2 DEF Live, Children, Subs
      <3>2. Terminal(k) => Terminal(k)'
        BY <1>1, <3>1, ChildrenKept
      <3>3. row[k].flag => (row')[k].flag
        BY <1>1, <3>1, RowsKept
      <3> QED BY <2>1, <2>2, <3>1, <3>2, <3>3 DEF Orphans
    <2>3. Cascading' <=> Cascading
      BY <1>2 DEF Cascading, Like
    <2>4. (job')[P].todo = job[P].todo
      BY <1>2 DEF Like
    <2> QED BY <2>1, <2>2, <2>3, <2>4 DEF Orphans
  <1> QED BY <1>6, <1>7, <1>8, <1>9

----------------------------------------------------------------------------
(* What a thread that moves has to see to. *)

(* It settles a submission nobody else settles. *)
Starts(t) ==
  Settling(t)' =>
    \/ Settling(t) /\ (job')[t].sub = job[t].sub
    \/ row[(job')[t].sub].status \in {"queued", "running"}
    \/ \A u \in Threads \ {t} : ~Settling(u)

(* It drives nothing that is flagged, and interrupts what it flags. *)
Drives(t)  == t \in Kids /\ At(t, "drive")' => ~(row')[t].flag
Reaches(t) == At(t, "interrupt") /\ At(job[t].sub, "drive") => (job')[job[t].sub].cut

(* A child leaves the wake only when the parent is awake or will be woken. *)
WakesOn(t) ==
  t \in Kids /\ Waking(t) /\ (row')[P].status = "waiting" /\ Live' = {} => Waking(t)'

Works(t) ==
  crashes = 0 =>
    IF t = Loop
    THEN /\ (job')[t].stage \notin {"reserved", "final", "direct"} /\ (job')[t].pc # "cancelled"
         /\ (job')[t].pc \in {"reconcile", "release"} => (job')[t].todo = {}
    ELSE /\ (row')[t].status = "running" => Working(t)'
         /\ (row')[t].status = "terminalizing" => (job')[t].stage = "reserved"

Does(t) ==
  /\ View(t)' /\ Starts(t) /\ Drives(t) /\ Reaches(t) /\ WakesOn(t) /\ Works(t)
  /\ t = Loop => LoopAlone' /\ Backstop'
  /\ t = P => Parked' /\ Calling' /\ Dangling' /\ Orphans'

(* The store keeps its part of the invariant. *)

LEMMA TypesKept ==
  ASSUME Invariant, NEW T, T \subseteq Threads, Moves(T)
  PROVE  TypeOK'
  <1>1. TypeOK /\ Rows(T) /\ Logs /\ Settles(T) /\ Talks(T) /\ Others(T)
    BY DEF Invariant, Moves, Store
  <1>2. row' \in [Subs -> Row]
    BY <1>1, RowsKept DEF Subs
  <1>3. log' \in [Kids -> Seq(Records)]
    BY <1>1, Written DEF Logs
  <1>4. settled' \in [Subs -> Seq(Ends)]
    BY <1>1, Appending, SettledKept
  <1>5. /\ events' \in Seq({"call", "spawn", "rejected"} \X Kids)
        /\ author' \subseteq Kids /\ called' \subseteq Kids
    BY <1>1 DEF TypeOK, Talks, Children
  <1> QED BY <1>1, <1>2, <1>3, <1>4, <1>5 DEF TypeOK, Others, Moves

LEMMA SpawningKept ==
  ASSUME Invariant, NEW T, T \subseteq Threads, Moves(T)
  PROVE  Spawning'
  <1>1. TypeOK /\ Spawning /\ Rows(T) /\ Logs /\ Talks(T)
    BY DEF Invariant, Moves, Store
  <1>2. Children \subseteq Children'
    BY <1>1, ChildrenKept
  <1>3. \A k \in Kids : Spawned(k)' => k \in Children'
    BY <1>1, <1>2, NewlySpawned DEF Spawning
  <1>4. Children' \subseteq Children \cup called
    <2>1. CASE Admits(T)
      <3>1. job[P].sub \in called
        BY <2>1 DEF Admits, Invariant, Calling, At
      <3> QED BY <2>1, <3>1 DEF Admits, Becomes, Children, Subs
    <2>2. CASE row' = row
      BY <2>2 DEF Children
    <2>3. CASE Reserves(T) \/ Finalizes(T) \/ Cancels(T) \/ Flags(T)
      BY <1>1, <2>3 DEF Reserves, Finalizes, Cancels, Flags, Becomes, Children, Subs
    <2>4. CASE Releases(T) \/ Parks(T) \/ Resumes \/ Claims(T) \/ Expires
      BY <1>1, <2>4 DEF Releases, Parks, Resumes, Claims, Expires, Becomes, Children, Subs
    <2> QED BY <1>1, <2>1, <2>2, <2>3, <2>4 DEF Rows
  <1>5. ~(row')[P].flag
    <2>1. ~row[P].flag /\ P \in Subs /\ P \notin Kids
      BY <1>1, SubagentsAssumption DEF Spawning, Subs
    <2>2. CASE row' = row
      BY <2>1, <2>2
    <2>3. CASE Reserves(T) \/ Finalizes(T) \/ Cancels(T) \/ Flags(T)
      BY <2>1, <2>3 DEF Reserves, Finalizes, Cancels, Flags, Becomes
    <2>4. CASE Releases(T) \/ Parks(T) \/ Resumes
      BY <2>1, <2>4 DEF Releases, Parks, Resumes, Becomes
    <2>5. CASE Admits(T) \/ Claims(T) \/ Expires
      BY <2>1, <2>5 DEF Admits, Claims, Expires, Becomes
    <2> QED BY <1>1, <2>2, <2>3, <2>4, <2>5 DEF Rows
  <1>6. CASE events' = events /\ author' = author /\ called' = called
    BY <1>1, <1>2, <1>3, <1>4, <1>5, <1>6 DEF Spawning
  <1>7. CASE ~(events' = events /\ author' = author /\ called' = called)
    <2>1. /\ author' \subseteq Children' /\ Children' \subseteq called'
          /\ \A i \in 1 .. Len(events') : (events')[i][1] = "spawn" => (events')[i][2] \in Children'
      BY <1>1, <1>7 DEF Talks
    <2> QED BY <1>3, <1>5, <2>1 DEF Spawning
  <1> QED BY <1>6, <1>7

LEMMA RecordedKept ==
  ASSUME Invariant, NEW T, T \subseteq Threads, Moves(T)
  PROVE  Recorded'
  <1>1. /\ TypeOK /\ AnswerIsOutcome /\ Rows(T) /\ Logs /\ Settles(T)
        /\ \A s \in Subs : settled[s] # <<>> => Terminal(s)
    BY DEF Invariant, Recorded, Moves, Store
  <1>2. \A s \in Subs :
              \/ (settled')[s] = settled[s]
              \/ /\ settled[s] = <<>> /\ Len((settled')[s]) = 1 /\ (settled')[s] # <<>>
                 /\ \E t \in T : At(t, "append") /\ job[t].sub = s
    BY <1>1, Appending, SettledKept
  <1>a. \A s \in Subs : Len(settled[s]) <= 1
    BY <1>1 DEF AnswerIsOutcome
  <1>3. ASSUME NEW s \in Subs PROVE Len((settled')[s]) <= 1
    <2>1. Len(settled[s]) <= 1
      BY <1>a
    <2>2. (settled')[s] = settled[s] \/ Len((settled')[s]) = 1
      BY <1>2
    <2>3. CASE (settled')[s] = settled[s]
      BY <2>1, <2>3
    <2>4. CASE Len((settled')[s]) = 1
      <3>1. 1 <= 1
        OBVIOUS
      <3> QED BY <2>4, <3>1, Zenon
    <2> QED BY <2>2, <2>3, <2>4
  <1>4. ASSUME NEW t \in T, At(t, "append")
        PROVE  Terminal(job[t].sub)
    <2>1. Staged(t) /\ RowHeld(t)
      BY DEF Invariant, View
    <2> QED BY <1>4, <2>1 DEF Staged, RowHeld, Terminal, At, Duties, Notes
  <1>5. ASSUME NEW s \in Subs, (settled')[s] # <<>>
        PROVE  Terminal(s)'
    <2>1. Terminal(s)
      BY <1>1, <1>2, <1>4, <1>5
    <2> QED BY <1>1, <2>1, RowsKept DEF Terminal
  <1>6. ASSUME NEW k \in Kids, NEW e \in Ends, Logged(k, {e})'
        PROVE  (settled')[k] # <<>> /\ Head((settled')[k]) = e
    <2>1. PICK j \in 1 .. Len((log')[k]) : (log')[k][j] = e
      BY <1>6 DEF Logged
    <2>2. CASE j \in 1 .. Len(log[k])
      <3>1. Logged(k, {e})
        BY <1>1, <2>1, <2>2, LogKept DEF Logged
      <3>2. settled[k] # <<>> /\ Head(settled[k]) = e /\ k \in Subs
        BY <1>1, <3>1 DEF AnswerIsOutcome, Subs
      <3> QED BY <1>2, <3>2
    <2>3. CASE j \notin 1 .. Len(log[k])
      <3>1. Allowed({k}, e)
        BY <1>1, <2>1, <2>3, NewRecord
      <3>2. settled[k] # <<>> /\ Head(settled[k]) = e /\ k \in Subs
        BY <3>1 DEF Allowed, Ends, Subs
      <3> QED BY <1>2, <3>2
    <2> QED BY <2>2, <2>3
  <1> QED BY <1>3, <1>5, <1>6 DEF Recorded, AnswerIsOutcome

LEMMA NoFabricatedErrorKept ==
  ASSUME Invariant, NEW T, T \subseteq Threads, Moves(T)
  PROVE  NoFabricatedError'
  <1>1. TypeOK /\ NoFabricatedError /\ Rows(T) /\ Logs /\ Settles(T)
    BY DEF Invariant, Moves, Store
  <1> SUFFICES ASSUME NEW k \in Kids, NEW i \in 1 .. Len((log')[k]), NEW j \in 1 .. Len((log')[k]),
                      i < j, (log')[k][i] = "spawn", (log')[k][j] = "dangling"
               PROVE  Over(k)'
    BY DEF NoFabricatedError, Over
  <1>2. Len(log[k]) \in Nat /\ Len((log')[k]) \in Nat
    BY <1>1, LogKept
  <1>3. CASE j \in 1 .. Len(log[k])
    <2>1. i \in 1 .. Len(log[k])
      BY <1>2, <1>3
    <2>2. log[k][i] = "spawn" /\ log[k][j] = "dangling"
      BY <1>1, <1>3, <2>1, LogKept
    <2>3. Over(k)
      BY <1>1, <1>3, <2>1, <2>2 DEF NoFabricatedError, Over
    <2> QED BY <1>1, <2>3, Appending, OverKept
  <1>4. CASE j \notin 1 .. Len(log[k])
    <2>1. j = Len(log[k]) + 1 /\ Allowed({k}, "dangling")
      BY <1>1, <1>4, NewRecord
    <2>2. i \in 1 .. Len(log[k])
      BY <1>2, <2>1
    <2>3. log[k][i] = "spawn"
      BY <1>1, <2>2, LogKept
    <2>4. Spawned(k)
      BY <2>2, <2>3 DEF Spawned, Logged
    <2>5. Over(k)
      BY <2>1, <2>4 DEF Allowed, Ends
    <2> QED BY <1>1, <2>5, Appending, OverKept
  <1> QED BY <1>3, <1>4

LEMMA WakeOrderKept ==
  ASSUME Invariant, NEW T, T \subseteq Threads, Moves(T)
  PROVE  WakeOrder'
  <1>1. TypeOK /\ WakeOrder /\ Logs
    BY DEF Invariant, Moves, Store
  <1> SUFFICES ASSUME NEW k \in Kids, NEW j \in 1 .. Len((log')[k]), (log')[k][j] \in Ends
               PROVE  \E i \in 1 .. j : (log')[k][i] = "spawn"
    BY DEF WakeOrder
  <1>2. Len(log[k]) \in Nat /\ Len((log')[k]) \in Nat
    BY <1>1, LogKept
  <1>3. CASE j \in 1 .. Len(log[k])
    <2>1. log[k][j] \in Ends
      BY <1>1, <1>3, LogKept
    <2>2. PICK i \in 1 .. j : log[k][i] = "spawn"
      BY <1>1, <1>3, <2>1 DEF WakeOrder
    <2>3. i \in 1 .. Len(log[k])
      BY <1>2, <1>3
    <2> QED BY <1>1, <2>2, <2>3, LogKept
  <1>4. CASE j \notin 1 .. Len(log[k])
    <2>1. j = Len(log[k]) + 1 /\ Allowed({k}, (log')[k][j])
      BY <1>1, <1>4, NewRecord
    <2>2. Spawned(k)
      BY <2>1 DEF Allowed, Ends
    <2>3. PICK i \in 1 .. Len(log[k]) : log[k][i] = "spawn"
      BY <2>2 DEF Spawned, Logged
    <2>4. i \in 1 .. j /\ (log')[k][i] = "spawn"
      BY <1>1, <1>2, <2>1, <2>3, LogKept
    <2> QED BY <2>4
  <1> QED BY <1>3, <1>4

LEMMA OneSettlesKept ==
  ASSUME Invariant, NEW T, T \subseteq Threads, Moves(T), \A t \in T : Starts(t),
         \A t, u \in T : Settling(t)' /\ Settling(u)' => t = u
  PROVE  OneSettles'
  <1> SUFFICES ASSUME NEW t \in Threads, NEW u \in Threads, Settling(t)', Settling(u)',
                      (job')[t].sub = (job')[u].sub, t # u
               PROVE  FALSE
    BY DEF OneSettles
  <1>1. ASSUME NEW v \in Threads \ T
        PROVE  /\ Settling(v)' => Settling(v)
               /\ (job')[v].sub = job[v].sub
    BY <1>1 DEF Moves, Like, Settling
  <1>2. ASSUME NEW v \in Threads, Settling(v)
        PROVE  row[job[v].sub].status \in {"terminalizing", "settled"}
    <2>1. Staged(v) /\ RowHeld(v)
      BY DEF Invariant, View
    <2> QED BY <1>2, <2>1 DEF Staged, RowHeld, Settling, Duties, Notes
  <1>3. ASSUME NEW a \in T, NEW b \in Threads \ T, Settling(a)', Settling(b)',
               (job')[a].sub = (job')[b].sub, a # b
        PROVE  FALSE
    <2>1. Settling(b) /\ job[b].sub = (job')[a].sub
      BY <1>1, <1>3
    <2>2. row[(job')[a].sub].status \in {"terminalizing", "settled"}
      BY <1>2, <2>1
    <2>3. Settling(a) /\ (job')[a].sub = job[a].sub
      BY <1>3, <2>1, <2>2 DEF Starts
    <2> QED BY <1>3, <2>1, <2>3 DEF Invariant, OneSettles
  <1>4. CASE t \in T /\ u \in T
    BY <1>4
  <1>5. CASE t \notin T /\ u \notin T
    BY <1>1, <1>5 DEF Invariant, OneSettles
  <1> QED BY <1>3, <1>4, <1>5

LEMMA CrashFreeKept ==
  ASSUME Invariant, NEW T, T \subseteq Threads, Moves(T), \A t \in T : Works(t)
  PROVE  CrashFree'
  <1>1. TypeOK /\ CrashFree /\ Rows(T) /\ crashes' = crashes
    BY DEF Invariant, Moves, Store, Others
  <1> SUFFICES ASSUME crashes = 0
               PROVE  CrashFree'
    BY <1>1 DEF CrashFree
  <1>2. ASSUME NEW s \in Subs, s \notin T
        PROVE  /\ (row')[s].status = "running" => Working(s)'
               /\ (row')[s].status = "terminalizing" => (job')[s].stage = "reserved"
    <2>1. Like(s)
      BY <1>2 DEF Moves, Threads
    <2>2. /\ (row')[s].status = "running" => row[s].status = "running"
          /\ (row')[s].status = "terminalizing" => row[s].status = "terminalizing"
      <3>1. CASE row' = row
        BY <3>1
      <3>2. CASE Reserves(T) \/ Finalizes(T) \/ Cancels(T) \/ Flags(T)
        BY <1>1, <1>2, <3>2 DEF Reserves, Finalizes, Cancels, Flags, Becomes
      <3>3. CASE Releases(T) \/ Parks(T) \/ Resumes
        BY <1>1, <1>2, <3>3 DEF Releases, Parks, Resumes, Becomes
      <3>4. CASE Admits(T) \/ Claims(T) \/ Expires
        BY <1>1, <1>2, <3>4 DEF Admits, Claims, Expires, Becomes
      <3> QED BY <1>1, <3>1, <3>2, <3>3, <3>4 DEF Rows
    <2>3. /\ row[s].status = "running" => Working(s)
          /\ row[s].status = "terminalizing" => job[s].stage = "reserved"
      BY <1>1 DEF CrashFree
    <2> QED BY <2>1, <2>2, <2>3 DEF Like, Working
  <1>3. ASSUME NEW s \in Subs, s \in T
        PROVE  /\ (row')[s].status = "running" => Working(s)'
               /\ (row')[s].status = "terminalizing" => (job')[s].stage = "reserved"
    <2>1. s # Loop
      BY SubagentsAssumption
    <2> QED BY <1>3, <2>1 DEF Works
  <1>4. /\ (job')[Loop].stage \notin {"reserved", "final", "direct"}
        /\ (job')[Loop].pc # "cancelled"
        /\ (job')[Loop].pc \in {"reconcile", "release"} => (job')[Loop].todo = {}
    <2>1. CASE Loop \in T
      BY <2>1 DEF Works
    <2>2. CASE Loop \notin T
      <3>1. Like(Loop)
        BY <2>2 DEF Moves, Threads
      <3> QED BY <1>1, <3>1 DEF Like, CrashFree
    <2> QED BY <2>1, <2>2
  <1> QED BY <1>1, <1>2, <1>3, <1>4 DEF CrashFree

LEMMA CancelReachesRunKept ==
  ASSUME Invariant, NEW T, T \subseteq Threads, Moves(T), \A t \in T : Drives(t) /\ Reaches(t)
  PROVE  CancelReachesRun'
  <1>1. TypeOK /\ CancelReachesRun /\ Rows(T)
    BY DEF Invariant, Moves, Store
  <1> SUFFICES ASSUME NEW k \in Kids, (job')[k].pc = "drive", (row')[k].flag
               PROVE  \/ (job')[k].cut
                      \/ \E t \in {P, Loop} : (job')[t].pc = "interrupt" /\ (job')[t].sub = k
    BY DEF CancelReachesRun, At
  <1>2. k \notin T /\ k \in Threads /\ k \in Subs
    BY DEF Drives, At, Threads, Subs
  <1>3. Like(k)
    BY <1>2 DEF Moves
  <1>4. CASE row[k].flag
    <2>1. \/ job[k].cut
          \/ \E t \in {P, Loop} : At(t, "interrupt") /\ job[t].sub = k
      BY <1>1, <1>3, <1>4 DEF CancelReachesRun, At, Like
    <2>2. ASSUME NEW t \in {P, Loop}, At(t, "interrupt"), job[t].sub = k
          PROVE  (job')[k].cut \/ ((job')[t].pc = "interrupt" /\ (job')[t].sub = k)
      <3>1. CASE t \in T
        BY <1>3, <2>2, <3>1 DEF Reaches, At, Like
      <3>2. CASE t \notin T
        <4>1. Like(t)
          BY <3>2 DEF Moves, Threads, Subs
        <4> QED BY <2>2, <4>1 DEF Like, At
      <3> QED BY <3>1, <3>2
    <2> QED BY <1>3, <2>1, <2>2 DEF Like
  <1>5. CASE ~row[k].flag
    <2>1. CASE row' = row
      BY <1>5, <2>1
    <2>2. CASE Flags(T)
      BY <1>2, <1>5, <2>2 DEF Flags, Becomes
    <2>3. CASE Reserves(T) \/ Finalizes(T) \/ Cancels(T)
      BY <1>1, <1>2, <1>5, <2>3 DEF Reserves, Finalizes, Cancels, Becomes
    <2>4. CASE Releases(T) \/ Parks(T) \/ Resumes
      BY <1>1, <1>2, <1>5, <2>4 DEF Releases, Parks, Resumes, Becomes
    <2>5. CASE Admits(T) \/ Claims(T) \/ Expires
      BY <1>1, <1>2, <1>5, <2>5 DEF Admits, Claims, Expires, Becomes
    <2> QED BY <1>1, <2>1, <2>2, <2>3, <2>4, <2>5 DEF Rows
  <1> QED BY <1>4, <1>5

LEMMA WokenByChildrenKept ==
  ASSUME Invariant, NEW T, T \subseteq Threads, Moves(T), \A t \in T : WakesOn(t),
         P \in T => row[P].status # "waiting"
  PROVE  WokenByChildren'
  <1>1. TypeOK /\ WokenByChildren /\ Rows(T) /\ Others(T) /\ CrashFree
    BY DEF Invariant, Moves, Store
  <1> SUFFICES ASSUME (row')[P].status = "waiting", Children' # {}, Live' = {},
                      ~parkedLate', crashes' = 0, ~lapsed'
               PROVE  \E k \in Kids : Waking(k)'
    <2>1. crashes' \in Nat
      BY TypesKept DEF TypeOK
    <2> QED BY <2>1 DEF WokenByChildren
  <1>2. crashes = 0 /\ ~lapsed
    BY <1>1 DEF Others
  <1>3. P \in Subs /\ P \notin Kids /\ Kids \subseteq Subs
    BY SubagentsAssumption DEF Subs
  <1>4. ~Parks(T)
    <2> SUFFICES ASSUME Parks(T) PROVE FALSE
      OBVIOUS
    <2>1. \A k \in Kids : (row')[k] = row[k]
      BY <1>3 DEF Parks, Becomes
    <2>2. Live' = Live
      BY <2>1 DEF Live, Children
    <2> QED BY <2>2 DEF Parks
  <1>5. row[P].status = "waiting" /\ P \notin T
    <2>1. CASE row' = row
      BY <2>1
    <2>2. CASE Reserves(T) \/ Finalizes(T) \/ Cancels(T) \/ Flags(T)
      BY <1>3, <2>2 DEF Reserves, Finalizes, Cancels, Flags, Becomes
    <2>3. CASE Releases(T) \/ Resumes
      BY <1>3, <2>3 DEF Releases, Resumes, Becomes
    <2>4. CASE Admits(T)
      <3>1. job[P].sub \in Kids
        BY <2>4, <1>3 DEF Admits, At, Invariant, View, Placed, Threads
      <3> QED BY <1>3, <2>4, <3>1 DEF Admits, Becomes
    <2>5. CASE Claims(T) \/ Expires
      BY <1>3, <2>5 DEF Claims, Expires, Becomes
    <2>6. row[P].status = "waiting"
      BY <1>1, <1>4, <2>1, <2>2, <2>3, <2>4, <2>5 DEF Rows
    <2> QED BY <2>6
  <1>6. parkedLate' = parkedLate /\ Children' = Children
    BY <1>1, <1>5, ChildrenKept DEF Others
  <1>7. CASE Live = {}
    <2>1. PICK k \in Kids : Waking(k)
      BY <1>1, <1>2, <1>5, <1>6, <1>7 DEF WokenByChildren
    <2>2. CASE k \in T
      BY <2>1, <2>2 DEF WakesOn
    <2>3. CASE k \notin T
      <3>1. Like(k)
        BY <2>3 DEF Moves, Threads, Subs
      <3> QED BY <2>1, <3>1 DEF Waking, Like
    <2> QED BY <2>2, <2>3
  <1>8. CASE Live # {}
    <2>1. PICK k \in Kids : row[k].status \notin {"absent", "settled"} /\ (row')[k].status = "settled"
      BY <1>6, <1>8 DEF Live, Children
    <2>2. Finalizes(T)
      <3>1. row' # row
        BY <2>1
      <3>2. ~Cancels(T)
        BY <1>2, <1>5 DEF Cancels
      <3>3. ~(Reserves(T) \/ Flags(T))
        BY <1>3, <2>1 DEF Reserves, Flags, Becomes
      <3>4. ~(Releases(T) \/ Resumes)
        BY <1>3, <2>1 DEF Releases, Resumes, Becomes
      <3>5. ~(Admits(T) \/ Claims(T) \/ Expires)
        BY <1>3, <1>5, <2>1 DEF Admits, Claims, Expires, Becomes
      <3> QED BY <1>1, <1>4, <3>1, <3>2, <3>3, <3>4, <3>5 DEF Rows
    <2>3. PICK t \in T : At(t, "finalize") /\ (t \in Kids => (job')[t].pc = "wake")
      BY <2>2 DEF Finalizes
    <2>4. t # Loop
      <3>1. Staged(t)
        BY <2>3 DEF Invariant, View
      <3>2. job[t].stage = "reserved"
        BY <2>3, <3>1 DEF Staged, At, Duties, Notes
      <3> QED BY <1>1, <1>2, <3>2 DEF CrashFree
    <2>5. t \in Kids
      BY <1>5, <2>3, <2>4 DEF Threads, Subs
    <2> QED BY <2>3, <2>5 DEF Waking, DutyPcs
  <1> QED BY <1>7, <1>8

(* A step of threads that see to it keeps the invariant. *)
LEMMA Composed ==
  ASSUME Invariant, NEW T, T \subseteq Threads, Moves(T), \A t \in T : Does(t),
         \A t, u \in T : Settling(t)' /\ Settling(u)' => t = u,
         Loop \in T \/ \A s \in T : job[s].pc # "idle",
         P \in T => row[P].status # "waiting"
  PROVE  Invariant'
  <1>1. \A t \in Threads : View(t)'
    BY ViewKept DEF Does
  <1>2. LoopAlone' /\ Backstop'
    <2>1. CASE Loop \in T
      BY <2>1 DEF Does
    <2>2. CASE Loop \notin T
      <3>1. T \subseteq Subs
        BY <2>2 DEF Threads
      <3> QED BY <2>2, <3>1, LoopKept
    <2> QED BY <2>1, <2>2
  <1>3. Parked' /\ Calling' /\ Dangling' /\ Orphans'
    BY ParentKept DEF Does
  <1>4. \A t \in T : Starts(t) /\ Drives(t) /\ Reaches(t) /\ WakesOn(t) /\ Works(t)
    BY DEF Does
  <1>5. OneSettles' /\ CrashFree' /\ CancelReachesRun' /\ WokenByChildren'
    BY <1>4, OneSettlesKept, CrashFreeKept, CancelReachesRunKept, WokenByChildrenKept
  <1>6. TypeOK' /\ Spawning' /\ Recorded' /\ NoFabricatedError' /\ WakeOrder'
    BY TypesKept, SpawningKept, RecordedKept, NoFabricatedErrorKept, WakeOrderKept
  <1> QED BY <1>1, <1>2, <1>3, <1>5, <1>6 DEF Invariant

----------------------------------------------------------------------------
(* The steps, one thread at a time. *)

LEMMA Typed ==
  ASSUME TypeOK, NEW t \in Threads
  PROVE  /\ job[t] \in Job /\ job[t].sub \in Subs /\ job[t].outcome \in Ends \cup {"none"}
         /\ job[t].stage \in Stages /\ job[t].todo \subseteq Subs /\ job[t].pend \subseteq Subs
         /\ row[job[t].sub] \in Row /\ settled[job[t].sub] \in Seq(Ends)
  BY DEF TypeOK, Job

LEMMA Goes ==
  ASSUME TypeOK, NEW t \in Threads, NEW p \in RunPcs \cup DutyPcs \cup LoopPcs, Goto(t, p)
  PROVE  Now(t, p, job[t].sub, job[t].outcome, job[t].stage, job[t].todo, job[t].pend)
  <1>1. job \in [Threads -> Job]
    BY DEF TypeOK
  <1> QED BY <1>1 DEF Goto, Now, Job, Like

LEMMA GoesTelling ==
  ASSUME TypeOK, NEW t \in Threads, NEW p \in RunPcs \cup DutyPcs \cup LoopPcs,
         NEW o \in Ends \cup {"none"}, job' = [job EXCEPT ![t].outcome = o, ![t].pc = p]
  PROVE  Now(t, p, job[t].sub, o, job[t].stage, job[t].todo, job[t].pend)
  <1>1. job \in [Threads -> Job]
    BY DEF TypeOK
  <1> QED BY <1>1 DEF Now, Job, Like

(* The shapes of a step: which fields of its job a thread sets. *)
Puts(t, r) ==
  /\ DOMAIN job' = Threads /\ job' = [u \in Threads |-> (job')[u]]
  /\ (job')[t] = r /\ \A u \in Threads \ {t} : (job')[u] = job[u]

LEMMA PutsIs ==
  ASSUME TypeOK, NEW t \in Threads, NEW r \in Job, Puts(t, r)
  PROVE  Now(t, r.pc, r.sub, r.outcome, r.stage, r.todo, r.pend)
  <1>1. job \in [Threads -> Job]
    BY DEF TypeOK
  <1>2. \A u \in Threads : (job')[u] \in Job
    BY <1>1 DEF Puts
  <1>3. job' \in [Threads -> Job]
    BY <1>2 DEF Puts
  <1> QED BY <1>3 DEF Puts, Now, Like

LEMMA SetsPcOutcome ==
  ASSUME TypeOK, NEW t \in Threads, NEW p \in RunPcs \cup DutyPcs \cup LoopPcs,
         NEW o \in Ends \cup {"none"},
         job' = [job EXCEPT ![t].pc = p, ![t].outcome = o]
  PROVE  Now(t, p, job[t].sub, o, job[t].stage, job[t].todo, job[t].pend)
  <1> DEFINE r == [job[t] EXCEPT !.pc = p, !.outcome = o]
  <1>1. job \in [Threads -> Job] /\ job[t] \in Job
    BY DEF TypeOK
  <1>2. /\ r \in Job /\ r.pc = p /\ r.sub = job[t].sub /\ r.outcome = o
        /\ r.stage = job[t].stage /\ r.todo = job[t].todo /\ r.pend = job[t].pend
    BY <1>1 DEF Job
  <1>3. Puts(t, r)
    BY <1>1 DEF Puts
  <1> HIDE DEF r
  <1> QED BY <1>1, <1>2, <1>3, PutsIs

LEMMA SetsPcStage ==
  ASSUME TypeOK, NEW t \in Threads, NEW p \in RunPcs \cup DutyPcs \cup LoopPcs,
         NEW g \in Stages,
         job' = [job EXCEPT ![t].pc = p, ![t].stage = g]
  PROVE  Now(t, p, job[t].sub, job[t].outcome, g, job[t].todo, job[t].pend)
  <1> DEFINE r == [job[t] EXCEPT !.pc = p, !.stage = g]
  <1>1. job \in [Threads -> Job] /\ job[t] \in Job
    BY DEF TypeOK
  <1>2. /\ r \in Job /\ r.pc = p /\ r.sub = job[t].sub /\ r.outcome = job[t].outcome
        /\ r.stage = g /\ r.todo = job[t].todo /\ r.pend = job[t].pend
    BY <1>1 DEF Job
  <1>3. Puts(t, r)
    BY <1>1 DEF Puts
  <1> HIDE DEF r
  <1> QED BY <1>1, <1>2, <1>3, PutsIs

LEMMA SetsPcStageOutcome ==
  ASSUME TypeOK, NEW t \in Threads, NEW p \in RunPcs \cup DutyPcs \cup LoopPcs,
         NEW g \in Stages, NEW o \in Ends \cup {"none"},
         job' = [job EXCEPT ![t].pc = p, ![t].stage = g, ![t].outcome = o]
  PROVE  Now(t, p, job[t].sub, o, g, job[t].todo, job[t].pend)
  <1> DEFINE r == [job[t] EXCEPT !.pc = p, !.stage = g, !.outcome = o]
  <1>1. job \in [Threads -> Job] /\ job[t] \in Job
    BY DEF TypeOK
  <1>2. /\ r \in Job /\ r.pc = p /\ r.sub = job[t].sub /\ r.outcome = o
        /\ r.stage = g /\ r.todo = job[t].todo /\ r.pend = job[t].pend
    BY <1>1 DEF Job
  <1>3. Puts(t, r)
    BY <1>1 DEF Puts
  <1> HIDE DEF r
  <1> QED BY <1>1, <1>2, <1>3, PutsIs

LEMMA SetsPcSub ==
  ASSUME TypeOK, NEW t \in Threads, NEW p \in RunPcs \cup DutyPcs \cup LoopPcs,
         NEW s \in Subs,
         job' = [job EXCEPT ![t].pc = p, ![t].sub = s]
  PROVE  Now(t, p, s, job[t].outcome, job[t].stage, job[t].todo, job[t].pend)
  <1> DEFINE r == [job[t] EXCEPT !.pc = p, !.sub = s]
  <1>1. job \in [Threads -> Job] /\ job[t] \in Job
    BY DEF TypeOK
  <1>2. /\ r \in Job /\ r.pc = p /\ r.sub = s /\ r.outcome = job[t].outcome
        /\ r.stage = job[t].stage /\ r.todo = job[t].todo /\ r.pend = job[t].pend
    BY <1>1 DEF Job
  <1>3. Puts(t, r)
    BY <1>1 DEF Puts
  <1> HIDE DEF r
  <1> QED BY <1>1, <1>2, <1>3, PutsIs

LEMMA SetsPcTodo ==
  ASSUME TypeOK, NEW t \in Threads, NEW p \in RunPcs \cup DutyPcs \cup LoopPcs,
         NEW d \in SUBSET Subs,
         job' = [job EXCEPT ![t].pc = p, ![t].todo = d]
  PROVE  Now(t, p, job[t].sub, job[t].outcome, job[t].stage, d, job[t].pend)
  <1> DEFINE r == [job[t] EXCEPT !.pc = p, !.todo = d]
  <1>1. job \in [Threads -> Job] /\ job[t] \in Job
    BY DEF TypeOK
  <1>2. /\ r \in Job /\ r.pc = p /\ r.sub = job[t].sub /\ r.outcome = job[t].outcome
        /\ r.stage = job[t].stage /\ r.todo = d /\ r.pend = job[t].pend
    BY <1>1 DEF Job
  <1>3. Puts(t, r)
    BY <1>1 DEF Puts
  <1> HIDE DEF r
  <1> QED BY <1>1, <1>2, <1>3, PutsIs

LEMMA SetsPcPend ==
  ASSUME TypeOK, NEW t \in Threads, NEW p \in RunPcs \cup DutyPcs \cup LoopPcs,
         NEW e \in SUBSET Subs,
         job' = [job EXCEPT ![t].pc = p, ![t].pend = e]
  PROVE  Now(t, p, job[t].sub, job[t].outcome, job[t].stage, job[t].todo, e)
  <1> DEFINE r == [job[t] EXCEPT !.pc = p, !.pend = e]
  <1>1. job \in [Threads -> Job] /\ job[t] \in Job
    BY DEF TypeOK
  <1>2. /\ r \in Job /\ r.pc = p /\ r.sub = job[t].sub /\ r.outcome = job[t].outcome
        /\ r.stage = job[t].stage /\ r.todo = job[t].todo /\ r.pend = e
    BY <1>1 DEF Job
  <1>3. Puts(t, r)
    BY <1>1 DEF Puts
  <1> HIDE DEF r
  <1> QED BY <1>1, <1>2, <1>3, PutsIs

LEMMA SetsTodoPc ==
  ASSUME TypeOK, NEW t \in Threads, NEW d \in SUBSET Subs,
         NEW p \in RunPcs \cup DutyPcs \cup LoopPcs,
         job' = [job EXCEPT ![t].todo = d, ![t].pc = p]
  PROVE  Now(t, p, job[t].sub, job[t].outcome, job[t].stage, d, job[t].pend)
  <1> DEFINE r == [job[t] EXCEPT !.todo = d, !.pc = p]
  <1>1. job \in [Threads -> Job] /\ job[t] \in Job
    BY DEF TypeOK
  <1>2. /\ r \in Job /\ r.pc = p /\ r.sub = job[t].sub /\ r.outcome = job[t].outcome
        /\ r.stage = job[t].stage /\ r.todo = d /\ r.pend = job[t].pend
    BY <1>1 DEF Job
  <1>3. Puts(t, r)
    BY <1>1 DEF Puts
  <1> HIDE DEF r
  <1> QED BY <1>1, <1>2, <1>3, PutsIs

LEMMA SetsTodoPend ==
  ASSUME TypeOK, NEW t \in Threads, NEW d \in SUBSET Subs, NEW e \in SUBSET Subs,
         job' = [job EXCEPT ![t].todo = d, ![t].pend = e]
  PROVE  Now(t, job[t].pc, job[t].sub, job[t].outcome, job[t].stage, d, e)
  <1> DEFINE r == [job[t] EXCEPT !.todo = d, !.pend = e]
  <1>1. job \in [Threads -> Job] /\ job[t] \in Job
    BY DEF TypeOK
  <1>2. /\ r \in Job /\ r.pc = job[t].pc /\ r.sub = job[t].sub /\ r.outcome = job[t].outcome
        /\ r.stage = job[t].stage /\ r.todo = d /\ r.pend = e
    BY <1>1 DEF Job
  <1>3. Puts(t, r)
    BY <1>1 DEF Puts
  <1> HIDE DEF r
  <1> QED BY <1>1, <1>2, <1>3, PutsIs

LEMMA SetsPcPendTodo ==
  ASSUME TypeOK, NEW t \in Threads, NEW p \in RunPcs \cup DutyPcs \cup LoopPcs,
         NEW e \in SUBSET Subs, NEW d \in SUBSET Subs,
         job' = [job EXCEPT ![t].pc = p, ![t].pend = e, ![t].todo = d]
  PROVE  Now(t, p, job[t].sub, job[t].outcome, job[t].stage, d, e)
  <1> DEFINE r == [job[t] EXCEPT !.pc = p, !.pend = e, !.todo = d]
  <1>1. job \in [Threads -> Job] /\ job[t] \in Job
    BY DEF TypeOK
  <1>2. /\ r \in Job /\ r.pc = p /\ r.sub = job[t].sub /\ r.outcome = job[t].outcome
        /\ r.stage = job[t].stage /\ r.todo = d /\ r.pend = e
    BY <1>1 DEF Job
  <1>3. Puts(t, r)
    BY <1>1 DEF Puts
  <1> HIDE DEF r
  <1> QED BY <1>1, <1>2, <1>3, PutsIs

LEMMA SetsPcTodoPend ==
  ASSUME TypeOK, NEW t \in Threads, NEW p \in RunPcs \cup DutyPcs \cup LoopPcs,
         NEW d \in SUBSET Subs, NEW e \in SUBSET Subs,
         job' = [job EXCEPT ![t].pc = p, ![t].todo = d, ![t].pend = e]
  PROVE  Now(t, p, job[t].sub, job[t].outcome, job[t].stage, d, e)
  <1> DEFINE r == [job[t] EXCEPT !.pc = p, !.todo = d, !.pend = e]
  <1>1. job \in [Threads -> Job] /\ job[t] \in Job
    BY DEF TypeOK
  <1>2. /\ r \in Job /\ r.pc = p /\ r.sub = job[t].sub /\ r.outcome = job[t].outcome
        /\ r.stage = job[t].stage /\ r.todo = d /\ r.pend = e
    BY <1>1 DEF Job
  <1>3. Puts(t, r)
    BY <1>1 DEF Puts
  <1> HIDE DEF r
  <1> QED BY <1>1, <1>2, <1>3, PutsIs

LEMMA SetsTodoPcSub ==
  ASSUME TypeOK, NEW t \in Threads, NEW d \in SUBSET Subs,
         NEW p \in RunPcs \cup DutyPcs \cup LoopPcs, NEW s \in Subs,
         job' = [job EXCEPT ![t].todo = d, ![t].pc = p, ![t].sub = s]
  PROVE  Now(t, p, s, job[t].outcome, job[t].stage, d, job[t].pend)
  <1> DEFINE r == [job[t] EXCEPT !.todo = d, !.pc = p, !.sub = s]
  <1>1. job \in [Threads -> Job] /\ job[t] \in Job
    BY DEF TypeOK
  <1>2. /\ r \in Job /\ r.pc = p /\ r.sub = s /\ r.outcome = job[t].outcome
        /\ r.stage = job[t].stage /\ r.todo = d /\ r.pend = job[t].pend
    BY <1>1 DEF Job
  <1>3. Puts(t, r)
    BY <1>1 DEF Puts
  <1> HIDE DEF r
  <1> QED BY <1>1, <1>2, <1>3, PutsIs

LEMMA SetsPcSubStageTodo ==
  ASSUME TypeOK, NEW t \in Threads, NEW p \in RunPcs \cup DutyPcs \cup LoopPcs,
         NEW s \in Subs, NEW g \in Stages, NEW d \in SUBSET Subs,
         job' = [job EXCEPT ![t].pc = p, ![t].sub = s, ![t].stage = g, ![t].todo = d]
  PROVE  Now(t, p, s, job[t].outcome, g, d, job[t].pend)
  <1> DEFINE r == [job[t] EXCEPT !.pc = p, !.sub = s, !.stage = g, !.todo = d]
  <1>1. job \in [Threads -> Job] /\ job[t] \in Job
    BY DEF TypeOK
  <1>2. /\ r \in Job /\ r.pc = p /\ r.sub = s /\ r.outcome = job[t].outcome
        /\ r.stage = g /\ r.todo = d /\ r.pend = job[t].pend
    BY <1>1 DEF Job
  <1>3. Puts(t, r)
    BY <1>1 DEF Puts
  <1> HIDE DEF r
  <1> QED BY <1>1, <1>2, <1>3, PutsIs

(* The stage of a duty allows the next. *)
LEMMA StagedOn ==
  ASSUME NEW t \in Threads, Staged(t), job[t].pc \in Duties, (job')[t].pc \in Duties,
         (job')[t].sub = job[t].sub, (job')[t].stage = job[t].stage,
         (job')[t].outcome \in Ends \/ (job')[t].outcome = job[t].outcome,
         job[t].stage \in {"final", "backstop"} => (job')[t].pc \in Notes,
         job[t].stage = "direct" => (job')[t].pc # "finalize",
         job[t].stage = "park" => (job')[t].pc \in {"spawned?", "author"}
  PROVE  Staged(t)'
  <1>1. CASE job[t].stage = "reserved"
    BY <1>1 DEF Staged
  <1>2. CASE job[t].stage = "final"
    BY <1>2 DEF Staged
  <1>3. CASE job[t].stage = "direct"
    BY <1>3 DEF Staged
  <1>4. CASE job[t].stage \in {"backstop", "park"}
    BY <1>4 DEF Staged
  <1>5. job[t].stage \in {"reserved", "final", "direct", "backstop", "park"}
    BY DEF Staged
  <1> QED BY <1>1, <1>2, <1>3, <1>4, <1>5

LEMMA LogSame ==
  ASSUME TypeOK, log' = log
  PROVE  Logs
  <1>1. log = [k \in Kids |-> log[k]]
    BY DEF TypeOK
  <1>2. [k \in Kids |-> IF k \in {} THEN Append(log[k], "call") ELSE log[k]]
          = [k \in Kids |-> log[k]]
    OBVIOUS
  <1>3. Wrote({}, "call") /\ Allowed({}, "call")
    BY <1>1, <1>2 DEF Wrote, Allowed
  <1>4. {} \in SUBSET Kids /\ "call" \in Records
    BY DEF Records
  <1> QED BY <1>3, <1>4 DEF Logs

LEMMA LogOne ==
  ASSUME TypeOK, NEW k \in Kids, NEW r \in Records, Put(k, r), Allowed({k}, r)
  PROVE  Logs
  <1>1. log \in [Kids -> Seq(Records)]
    BY DEF TypeOK
  <1>2. log' = [j \in Kids |-> IF j = k THEN Append(log[j], r) ELSE log[j]]
    BY <1>1 DEF Put
  <1>3. \A j \in Kids : j = k <=> j \in {k}
    OBVIOUS
  <1>4. [j \in Kids |-> IF j = k THEN Append(log[j], r) ELSE log[j]]
          = [j \in Kids |-> IF j \in {k} THEN Append(log[j], r) ELSE log[j]]
    BY <1>3, Zenon
  <1>5. Wrote({k}, r)
    BY <1>2, <1>4 DEF Wrote
  <1> QED BY <1>5 DEF Logs

(* A step that leaves the store alone. *)
Still == row' = row /\ log' = log /\ settled' = settled /\ lapsed' = lapsed
Quiet == /\ events' = events /\ author' = author /\ called' = called
         /\ suspended' = suspended /\ parkedLate' = parkedLate
         /\ nudge' = nudge /\ crashes' = crashes

LEMMA Quietly ==
  ASSUME Invariant, NEW T, Still, Quiet
  PROVE  Store(T)
  <1>1. TypeOK
    BY DEF Invariant
  <1> QED BY <1>1, LogSame DEF Still, Quiet, Store, Rows, Settles, Talks, Others, TypeOK

LEMMA Unchanging ==
  ASSUME UNCHANGED <<store, turn, nudge, crashes>>
  PROVE  Still /\ Quiet
  BY DEF store, turn, Still, Quiet

LEMMA Alone ==
  ASSUME Invariant, NEW t \in Threads, Store({t}), job' \in [Threads -> Job],
         \A u \in Threads \ {t} : Like(u), Does(t), t \in Subs => job[t].pc # "idle"
  PROVE  Invariant'
  <1> DEFINE T == {t}
  <1>1. T \subseteq Threads /\ Moves(T)
    BY DEF Moves
  <1>2. \A u \in T : Does(u)
    OBVIOUS
  <1>3. \A u, v \in T : Settling(u)' /\ Settling(v)' => u = v
    OBVIOUS
  <1>4. Loop \in T \/ \A s \in T : job[s].pc # "idle"
    BY DEF Threads
  <1>5. P \in T => row[P].status # "waiting"
    BY DEF Invariant, Parked, Subs
  <1> HIDE DEF T
  <1> QED BY <1>1, <1>2, <1>3, <1>4, <1>5, Composed

----------------------------------------------------------------------------
(* Duties: settlement, the wake, cancellation. *)

LEMMA Busy ==
  ASSUME Invariant, NEW t \in Threads, job[t].pc # "idle"
  PROVE  t = P => row[P].status # "waiting"
  BY DEF Invariant, Parked

(* What a thread at a duty does to rows: nothing, or it resumes the parent. *)
Requeues == (row' = row /\ lapsed' = lapsed) \/ Resumes

LEMMA RequeuesKeep ==
  ASSUME Invariant, Requeues
  PROVE  /\ \A k \in Kids : (row')[k] = row[k]
         /\ Children' = Children /\ Live' = Live
         /\ \A s \in Subs : row[s].status # "waiting" => (row')[s] = row[s]
         /\ row[P].status # "waiting" => row' = row /\ lapsed' = lapsed
         /\ (row')[P].status = "waiting" => row' = row /\ lapsed' = lapsed
  <1>1. Kids \subseteq Subs /\ P \notin Kids
    BY SubagentsAssumption DEF Subs
  <1>2. \A k \in Kids : (row')[k] = row[k]
    BY <1>1 DEF Requeues, Resumes, Becomes
  <1>3. Children' = Children /\ Live' = Live
    BY <1>2 DEF Children, Live
  <1>4. \A s \in Subs : row[s].status # "waiting" => (row')[s] = row[s]
    BY DEF Requeues, Resumes, Becomes
  <1>5. row[P].status # "waiting" => row' = row /\ lapsed' = lapsed
    BY DEF Requeues, Resumes
  <1>6. (row')[P].status = "waiting" => row' = row /\ lapsed' = lapsed
    BY DEF Requeues, Resumes, Becomes
  <1> QED BY <1>2, <1>3, <1>4, <1>5, <1>6

(* From one duty to the next, for the same submission at the same stage. *)
LEMMA OnDuty ==
  ASSUME Invariant, NEW t \in Threads, Moves({t}), Requeues,
         events' = events, author' = author, called' = called,
         job[t].pc \in Duties, (job')[t].pc \in Duties,
         (job')[t].sub = job[t].sub, (job')[t].stage = job[t].stage,
         (job')[t].todo = job[t].todo, (job')[t].pend = job[t].pend,
         (job')[t].pc \in Notes => job[t].sub \in Kids,
         Staged(t)', Telling(t)', Settling(t)' => Settling(t)
  PROVE  Does(t)
  <1>1. TypeOK /\ View(t) /\ Logs /\ Settles({t})
    BY DEF Invariant, Moves, Store
  <1>2. \A u \in Threads \ {t} : Like(u)
    BY DEF Moves
  <1>3. job[t].pc \notin {"idle", "settle", "drive", "dispatch", "interrupt", "cancelled"}
    BY DEF Duties, Notes
  <1>4. (job')[t].pc \notin {"idle", "settle", "drive", "dispatch", "interrupt", "cancelled"}
    BY DEF Duties, Notes
  <1>5. Placed(t)'
    BY <1>1, <1>4 DEF Placed, View, Threads, Subs
  <1>6. Working(t)' <=> Working(t)
    BY DEF Working, Duties, Notes, Turns
  <1>r. /\ Children' = Children /\ Live' = Live /\ \A k \in Kids : (row')[k] = row[k]
        /\ \A s \in Subs : row[s].status # "waiting" => (row')[s] = row[s]
        /\ (row')[P].status = "waiting" => row' = row /\ lapsed' = lapsed
    BY RequeuesKeep
  <1>p. t = P => row' = row /\ lapsed' = lapsed /\ row[P].status # "waiting"
    BY <1>3, RequeuesKeep DEF Invariant, Parked
  <1>7. RowHeld(t)'
    <2>1. RowHeld(t) /\ job[t].sub \in Subs
      BY <1>1, Typed DEF View
    <2> QED BY <1>6, <1>r, <2>1 DEF RowHeld
  <1>8. Starts(t) /\ Drives(t) /\ Reaches(t) /\ WakesOn(t)
    <2>1. Waking(t)'
      BY DEF Waking, Duties, Notes, DutyPcs
    <2> QED BY <1>3, <1>4, <2>1 DEF Starts, Drives, Reaches, WakesOn, At
  <1>9. Works(t)
    <2>1. CrashFree
      BY DEF Invariant
    <2>2. (job')[t].pc \notin {"cancelled", "reconcile", "release"}
      BY DEF Duties, Notes
    <2>3. t \in Subs => (row')[t] = row[t]
      BY <1>r, <1>p DEF Subs
    <2> QED BY <1>6, <2>1, <2>2, <2>3 DEF Works, CrashFree, Threads
  <1>a. ASSUME t = Loop PROVE LoopAlone' /\ Backstop'
    <2>1. LoopAlone /\ Backstop /\ P \in Subs
      BY DEF Invariant, Subs
    <2>2. Booting' <=> Booting
      BY <1>a DEF Booting, Duties, Notes
    <2>3. Scanning' <=> Scanning
      BY <1>a DEF Scanning, Expiry, Duties, Notes
    <2>4. \A s \in Subs : (job')[s].pc = job[s].pc
      BY <1>2, <1>a, SubagentsAssumption DEF Like, Threads
    <2>5. job[Loop].pc \notin {"reconcile"} \cup Expiry \cup {"interrupt", "backlist", "backpending", "backstop"}
      BY <1>a DEF Expiry, Duties, Notes
    <2>6. (job')[Loop].pc \notin {"reconcile"} \cup Expiry \cup {"interrupt", "backlist", "backpending", "backstop"}
      BY <1>a DEF Expiry, Duties, Notes
    <2>t. job[Loop].todo \subseteq Subs
      BY <1>1, <1>a, Typed
    <2>7. LoopAlone'
      BY <1>a, <1>r, <2>1, <2>2, <2>3, <2>4, <2>5, <2>6, <2>t DEF LoopAlone, Expiry
    <2>8. \A k \in Kids : Answered(k) => Answered(k)'
      BY <1>1, AnswersKept
    <2>a. job[Loop].stage = "backstop" => job[Loop].todo \subseteq Kids
      BY <2>1 DEF Backstop, Children
    <2>b. Backstop'
      BY <1>a, <1>r, <2>1, <2>5, <2>6, <2>8, <2>a DEF Backstop
    <2> QED BY <2>7, <2>b
  <1>b. ASSUME t = P PROVE Parked' /\ Calling' /\ Dangling' /\ Orphans'
    <2>1. Parked /\ Calling /\ Orphans /\ row' = row /\ row[P].status # "waiting"
      BY <1>b, <1>p DEF Invariant
    <2>3. \A k \in Kids : Spawned(k) => Spawned(k)'
      BY <1>1, AnswersKept
    <2>4. \A k \in Children : k \in Kids
      BY DEF Children
    <2>5. Parked'
      BY <1>3, <1>b, <1>r, <2>1, <2>3, <2>4 DEF Parked, Duties, Notes
    <2>6. Calling'
      <3>1. job[P].pc \notin {"tools", "dispatch", "drive", "drain"}
        BY <1>b DEF Duties, Notes
      <3>2. (job')[P].pc \notin {"tools", "dispatch", "drive", "drain"}
        BY <1>b DEF Duties, Notes
      <3> QED BY <2>1, <3>1, <3>2 DEF Calling, Drained
    <2>7. Dangling'
      BY <1>b DEF Dangling, Duties, Notes
    <2>8. Orphans'
      <3>1. Cascading' <=> Cascading
        BY <1>b DEF Cascading, Duties, Notes
      <3> QED BY <1>b, <1>r, <2>1, <3>1 DEF Orphans, Terminal
    <2> QED BY <2>5, <2>6, <2>7, <2>8
  <1> QED BY <1>5, <1>7, <1>8, <1>9, <1>a, <1>b DEF Does, View

LEMMA CheckSettledStep ==
  ASSUME Invariant, NEW t \in Threads, CheckSettled(t)
  PROVE  Invariant'
  <1>1. TypeOK /\ Staged(t) /\ job \in [Threads -> Job]
    BY DEF Invariant, View, TypeOK
  <1>2. Still /\ Quiet
    BY Unchanging DEF CheckSettled
  <1>3. At(t, "check") /\ job[t].stage \in {"reserved", "direct"}
    BY <1>1 DEF CheckSettled, Staged, At, Duties, Notes
  <1>4. job[t].sub \in Subs /\ settled[job[t].sub] \in Seq(Ends)
    BY <1>1, Typed
  <1>5. CASE settled[job[t].sub] # <<>>
    <2> DEFINE o == Head(settled[job[t].sub])
    <2>1. o \in Ends /\ Landed(t) \in {"finalize", "wake"}
      BY <1>4, <1>5 DEF Landed
    <2>2. job' = [job EXCEPT ![t].outcome = o, ![t].pc = Landed(t)]
      BY <1>5 DEF CheckSettled
    <2>3. Now(t, Landed(t), job[t].sub, o, job[t].stage, job[t].todo, job[t].pend)
      <3>1. Landed(t) \in DutyPcs
        BY <2>1 DEF DutyPcs
      <3> HIDE DEF o
      <3> QED BY <1>1, <2>1, <2>2, <3>1, GoesTelling
    <2>4. Told(t)'
      BY <1>2, <1>5, <2>3 DEF Told, Now, Still
    <2> HIDE DEF o
    <2>5. Staged(t)'
      <3>1. job[t].pc \in Duties /\ (job')[t].pc \in Duties /\ job[t].stage \notin {"final", "backstop", "park"}
        BY <1>3, <2>1, <2>3 DEF At, Now, Duties, Notes
      <3>2. job[t].stage = "direct" => Landed(t) # "finalize"
        BY <1>1, <1>3, SubagentsAssumption DEF Staged, At, Duties, Landed
      <3> QED BY <1>1, <2>1, <2>3, <3>1, <3>2, StagedOn DEF Now
    <2>6. Telling(t)'
      BY <2>1, <2>3, <2>4 DEF Telling, Now
    <2>7. job[t].pc \in Duties /\ (job')[t].pc \in Duties /\ ~Settling(t)'
      BY <1>3, <2>1, <2>3 DEF At, Now, Duties, Notes, Settling
    <2>8. (job')[t].pc \in Notes => job[t].sub \in Kids
      BY <1>4, <2>3 DEF Now, Landed, Notes, Subs
    <2>9. Moves({t})
      BY <1>2, <2>3, Quietly DEF Moves, Now
    <2>a. Does(t)
      BY <1>2, <2>3, <2>5, <2>6, <2>7, <2>8, <2>9, OnDuty DEF Now, Still, Quiet, Requeues
    <2> QED BY <1>3, <2>9, <2>a, Alone DEF Moves, At
  <1>6. CASE settled[job[t].sub] = <<>>
    <2>1. Goto(t, "append")
      BY <1>6 DEF CheckSettled, Goto
    <2>2. Now(t, "append", job[t].sub, job[t].outcome, job[t].stage, job[t].todo, job[t].pend)
      BY <1>1, <2>1, Goes DEF DutyPcs
    <2>3. Staged(t)' /\ Telling(t)'
      BY <1>1, <1>2, <1>3, <1>6, <2>2 DEF Staged, Telling, Now, At, Still, Duties, Notes
    <2>4. job[t].pc \in Duties /\ (job')[t].pc \in Duties \ Notes /\ Settling(t)
      BY <1>3, <2>2 DEF At, Now, Duties, Notes, Settling
    <2>5. Moves({t})
      BY <1>2, <2>2, Quietly DEF Moves, Now
    <2>6. Does(t)
      BY <1>2, <2>2, <2>3, <2>4, <2>5, OnDuty DEF Now, Still, Quiet, Requeues
    <2> QED BY <1>3, <2>5, <2>6, Alone DEF Moves, At
  <1> QED BY <1>5, <1>6

LEMMA AppendSettledStep ==
  ASSUME Invariant, NEW t \in Threads, AppendSettled(t)
  PROVE  Invariant'
  <1>1. TypeOK /\ Staged(t) /\ Telling(t) /\ job \in [Threads -> Job] /\ settled \in [Subs -> Seq(Ends)]
    BY DEF Invariant, View, TypeOK
  <1>2. At(t, "append") /\ job[t].stage \in {"reserved", "direct"}
    BY <1>1 DEF AppendSettled, Staged, At, Duties, Notes
  <1>3. row' = row /\ log' = log /\ lapsed' = lapsed /\ Quiet
    BY DEF AppendSettled, turn, Quiet
  <1> DEFINE s == job[t].sub
             o == job[t].outcome
  <1>4. s \in Subs /\ settled[s] = <<>> /\ o \in Ends
    BY <1>1, <1>2, Typed DEF Staged, Telling, At, Duties
  <1>5. settled' = [settled EXCEPT ![s] = Append(@, o)]
    BY DEF AppendSettled
  <1>6. Landed(t) \in {"finalize", "wake"} /\ Landed(t) \in DutyPcs
    BY DEF Landed, DutyPcs
  <1>7. Now(t, Landed(t), s, o, job[t].stage, job[t].todo, job[t].pend)
    BY <1>1, <1>6, Goes DEF AppendSettled
  <1>8. Told(t)'
    <2> HIDE DEF s, o
    <2>1. (settled')[s] = Append(<<>>, o)
      BY <1>1, <1>4, <1>5
    <2>2. Append(<<>>, o) # <<>> /\ Head(Append(<<>>, o)) = o
      BY <1>4
    <2> QED BY <1>7, <2>1, <2>2 DEF Told, Now
  <1>9. Staged(t)'
    <2>1. job[t].pc \in Duties /\ (job')[t].pc \in Duties /\ job[t].stage \notin {"final", "backstop", "park"}
      BY <1>2, <1>6, <1>7 DEF At, Now, Duties, Notes
    <2>2. job[t].stage = "direct" => Landed(t) # "finalize"
      BY <1>1, <1>2, SubagentsAssumption DEF Staged, At, Duties, Landed
    <2> QED BY <1>1, <1>7, <2>1, <2>2, StagedOn DEF Now
  <1>a. Telling(t)'
    BY <1>6, <1>7, <1>8 DEF Telling, Now
  <1>b. job[t].pc \in Duties /\ (job')[t].pc \in Duties /\ ~Settling(t)'
    BY <1>2, <1>6, <1>7 DEF At, Now, Duties, Notes, Settling
  <1>c. (job')[t].pc \in Notes => job[t].sub \in Kids
    BY <1>4, <1>7 DEF Now, Landed, Notes, Subs
  <1>d. Moves({t})
    <2>1. Settles({t})
      BY <1>2, <1>5 DEF Settles
    <2>2. Logs
      BY <1>1, <1>3, LogSame
    <2>3. Rows({t}) /\ Talks({t}) /\ Others({t})
      BY <1>1, <1>3 DEF Rows, Talks, Others, Quiet, TypeOK
    <2> QED BY <1>7, <2>1, <2>2, <2>3 DEF Moves, Store, Now
  <1>e. Does(t)
    BY <1>3, <1>7, <1>9, <1>a, <1>b, <1>c, <1>d, OnDuty DEF Now, Quiet, Requeues
  <1> QED BY <1>2, <1>d, <1>e, Alone DEF Moves, At

(* From one note of the wake to the next, without a record. *)
LEMMA WakeGoesOn ==
  ASSUME Invariant, NEW t \in Threads, Still, Quiet, job[t].pc \in Notes, NEW p \in Notes,
         Goto(t, p),
         job[t].stage = "park" => p \in {"spawned?", "author"},
         p \in {"answered?", "answer"} => Spawned(job[t].sub),
         p = "answer" => ~Answered(job[t].sub) \/ Told(t)
  PROVE  Invariant'
  <1>1. TypeOK /\ Placed(t) /\ Staged(t) /\ Telling(t)
    BY DEF Invariant, View
  <1>2. Now(t, p, job[t].sub, job[t].outcome, job[t].stage, job[t].todo, job[t].pend)
    BY <1>1, Goes DEF DutyPcs, Notes
  <1>3. job[t].sub \in Kids
    BY <1>1 DEF Placed
  <1>4. Staged(t)'
    <2>1. job[t].pc \in Duties /\ (job')[t].pc \in Duties /\ p # "finalize"
      BY <1>2 DEF Now, Duties, Notes
    <2> QED BY <1>1, <1>2, <2>1, StagedOn DEF Now
  <1>5. Told(t)' <=> Told(t)
    BY <1>2 DEF Told, Now, Still
  <1>6. Spawned(job[t].sub)' <=> Spawned(job[t].sub)
    BY <1>2 DEF Spawned, Logged, Now, Still
  <1>7. Answered(job[t].sub)' <=> Answered(job[t].sub)
    BY <1>2 DEF Answered, Logged, Now, Still
  <1>8. Told(t) \/ job[t].stage = "park" \/ (job[t].stage = "backstop" /\ Answered(job[t].sub))
    BY <1>1 DEF Telling
  <1>9. p = "answer" => Told(t)
    BY <1>8
  <1>a. p # "append"
    BY DEF Notes
  <1>b. Telling(t)'
    BY <1>2, <1>5, <1>6, <1>7, <1>8, <1>9, <1>a DEF Telling, Now
  <1>c. Moves({t})
    BY <1>2, Quietly DEF Moves, Now
  <1>d. job[t].pc \in Duties /\ (job')[t].pc \in Duties /\ ~Settling(t)'
    BY <1>2 DEF Now, Duties, Notes, Settling
  <1>e. Does(t)
    BY <1>2, <1>3, <1>4, <1>b, <1>c, <1>d, OnDuty DEF Now, Still, Quiet, Requeues
  <1>f. job[t].pc # "idle"
    BY DEF Notes
  <1> QED BY <1>c, <1>e, <1>f, Alone DEF Moves

LEMMA CheckAnsweredStep ==
  ASSUME Invariant, NEW t \in Threads, CheckAnswered(t)
  PROVE  Invariant'
  <1>1. Staged(t) /\ Telling(t) /\ Still /\ Quiet /\ At(t, "answered?")
    BY Unchanging DEF Invariant, View, CheckAnswered
  <1>2. job[t].pc \in Notes /\ job[t].stage # "park" /\ Spawned(job[t].sub)
    BY <1>1 DEF At, Notes, Duties, Staged, Telling
  <1>3. CASE Answered(job[t].sub)
    <2>1. Goto(t, "siblings") /\ "siblings" \in Notes
      BY <1>3 DEF CheckAnswered, Notes
    <2> QED BY <1>1, <1>2, <2>1, WakeGoesOn
  <1>4. CASE ~Answered(job[t].sub)
    <2>1. Goto(t, "answer") /\ "answer" \in Notes
      BY <1>4 DEF CheckAnswered, Notes
    <2> QED BY <1>1, <1>2, <1>4, <2>1, WakeGoesOn
  <1> QED BY <1>3, <1>4

LEMMA AppendAnswerStep ==
  ASSUME Invariant, NEW t \in Threads, AppendAnswer(t)
  PROVE  Invariant'
  <1>1. TypeOK /\ Placed(t) /\ Staged(t) /\ Telling(t) /\ At(t, "answer")
    BY DEF Invariant, View, AppendAnswer
  <1>2. row' = row /\ settled' = settled /\ lapsed' = lapsed /\ Quiet
    BY DEF AppendAnswer, turn, Quiet
  <1> DEFINE k == job[t].sub
             o == job[t].outcome
  <1>3. k \in Kids /\ Spawned(k) /\ Told(t)
    BY <1>1 DEF Placed, Telling, Staged, At, Duties, Notes
  <1>4. job[t].stage \in {"reserved", "final", "direct", "backstop"}
    BY <1>1 DEF Staged, At, Duties, Notes
  <1>5. o \in Ends
    <2>1. settled[k] \in Seq(Ends) /\ settled[k] # <<>> /\ Head(settled[k]) = o
      BY <1>1, <1>3, Typed DEF Told
    <2> QED BY <2>1
  <1>6. Logs
    <2>1. Allowed({k}, o)
      BY <1>3, <1>5 DEF Allowed, Told
    <2>2. Put(k, o) /\ o \in Records
      BY <1>5 DEF AppendAnswer, Records, Answers
    <2> HIDE DEF k, o
    <2> QED BY <1>1, <1>3, <2>1, <2>2, LogOne
  <1>7. Now(t, "siblings", k, o, job[t].stage, job[t].todo, job[t].pend)
    <2>1. "siblings" \in DutyPcs
      BY DEF DutyPcs
    <2> QED BY <1>1, <2>1, Goes DEF AppendAnswer
  <1>8. Moves({t})
    <2>1. Rows({t}) /\ Settles({t}) /\ Talks({t}) /\ Others({t})
      BY <1>1, <1>2 DEF Rows, Settles, Talks, Others, Quiet, TypeOK
    <2> QED BY <1>6, <1>7, <2>1 DEF Moves, Store, Now
  <1>9. job[t].pc \in Duties /\ (job')[t].pc \in Duties \cap Notes /\ ~Settling(t)'
    BY <1>1, <1>7 DEF At, Now, Duties, Notes, Settling
  <1>a. Staged(t)'
    BY <1>1, <1>4, <1>7, <1>9, StagedOn DEF Now
  <1>b. Telling(t)'
    <2>1. Told(t)'
      BY <1>2, <1>3, <1>7 DEF Told, Now
    <2> QED BY <1>7, <2>1 DEF Telling, Now
  <1>c. Does(t)
    BY <1>2, <1>3, <1>7, <1>8, <1>9, <1>a, <1>b, OnDuty DEF Now, Quiet, Requeues
  <1> QED BY <1>1, <1>8, <1>c, Alone DEF Moves, At

(* Where the wake returns to. *)
LEMMA ReturnsTo ==
  ASSUME TypeOK, NEW t \in Threads, job' = [job EXCEPT ![t] = Return(t)]
  PROVE  /\ job[t].stage = "final" /\ t # Loop => Now(t, "idle", t, "none", "none", {}, {})
         /\ job[t].stage = "final" /\ t = Loop =>
              Now(t, "reconcile", P, "none", "none", job[t].todo, job[t].pend)
         /\ job[t].stage = "reserved" =>
              Now(t, "finalize", job[t].sub, job[t].outcome, "reserved", job[t].todo, job[t].pend)
         /\ job[t].stage = "direct" =>
              Now(t, IF t = Loop THEN "release" ELSE "cascade", P, "none", "none",
                  job[t].todo, job[t].pend)
         /\ job[t].stage = "backstop" =>
              Now(t, "backstop", P, "none", "none", job[t].todo, job[t].pend)
         /\ job[t].stage = "park" =>
              Now(t, "repair", P, "none", "none", job[t].todo, job[t].pend)
  <1>1. job \in [Threads -> Job] /\ P \in Subs
    BY DEF TypeOK, Subs
  <1>2. job[t] \in Job
    BY <1>1
  <1> DEFINE w == job[t]
  <1>3. ASSUME NEW p \in RunPcs \cup DutyPcs \cup LoopPcs, NEW s \in Subs, NEW o \in Ends \cup {"none"},
               NEW g \in Stages,
               Return(t) = [w EXCEPT !.pc = p, !.stage = g, !.sub = s, !.outcome = o]
        PROVE  Now(t, p, s, o, g, w.todo, w.pend)
    <2> HIDE DEF w
    <2>1. w \in Job
      BY <1>2 DEF w
    <2> DEFINE r == [w EXCEPT !.pc = p, !.stage = g, !.sub = s, !.outcome = o]
    <2>2. /\ r \in Job /\ r.pc = p /\ r.sub = s /\ r.outcome = o /\ r.stage = g
          /\ r.todo = w.todo /\ r.pend = w.pend
      BY <2>1 DEF Job
    <2>3. job' = [job EXCEPT ![t] = r]
      BY <1>3
    <2> HIDE DEF r
    <2> QED BY <1>1, <2>2, <2>3 DEF Now, Like
  <1>4. CASE w.stage = "final" /\ t # Loop
    <2>1. Return(t) = NewJob(t, "idle", "none", "none") /\ t \in Subs
      BY <1>4 DEF Return, Idle, Threads
    <2> DEFINE r == NewJob(t, "idle", "none", "none")
    <2>2. /\ r \in Job /\ r.pc = "idle" /\ r.sub = t /\ r.outcome = "none" /\ r.stage = "none"
          /\ r.todo = {} /\ r.pend = {}
      BY <2>1 DEF NewJob, Job, RunPcs, Stages
    <2>3. job' = [job EXCEPT ![t] = r]
      BY <2>1
    <2> HIDE DEF r
    <2> QED BY <1>1, <1>4, <2>2, <2>3 DEF Now, Like
  <1>5. CASE w.stage = "final" /\ t = Loop
    <2>1. Return(t) = [w EXCEPT !.pc = "reconcile", !.stage = "none", !.sub = P, !.outcome = "none"]
      BY <1>5 DEF Return
    <2>2. "reconcile" \in LoopPcs /\ "none" \in Stages
      BY DEF LoopPcs, Stages
    <2> QED BY <1>1, <1>3, <1>5, <2>1, <2>2
  <1>6. CASE w.stage = "reserved"
    <2>1. Return(t) = [w EXCEPT !.pc = "finalize", !.stage = "reserved", !.sub = w.sub,
                                !.outcome = w.outcome]
      BY <1>6 DEF Return
    <2>2. "finalize" \in DutyPcs /\ "reserved" \in Stages /\ w.sub \in Subs /\ w.outcome \in Ends \cup {"none"}
      BY <1>2 DEF DutyPcs, Stages, Job
    <2> QED BY <1>3, <1>6, <2>1, <2>2
  <1>7. CASE w.stage = "direct"
    <2>1. CASE t = Loop
      <3>1. Return(t) = [w EXCEPT !.pc = "release", !.stage = "none", !.sub = P, !.outcome = "none"]
        BY <1>7, <2>1 DEF Return
      <3>2. "release" \in LoopPcs /\ "none" \in Stages
        BY DEF LoopPcs, Stages
      <3> QED BY <1>1, <1>3, <1>7, <2>1, <3>1, <3>2
    <2>2. CASE t # Loop
      <3>1. Return(t) = [w EXCEPT !.pc = "cascade", !.stage = "none", !.sub = P, !.outcome = "none"]
        BY <1>7, <2>2 DEF Return
      <3>2. "cascade" \in RunPcs /\ "none" \in Stages
        BY DEF RunPcs, Stages
      <3> QED BY <1>1, <1>3, <1>7, <2>2, <3>1, <3>2
    <2> QED BY <2>1, <2>2
  <1>8. CASE w.stage = "backstop"
    <2>1. Return(t) = [w EXCEPT !.pc = "backstop", !.stage = "none", !.sub = P, !.outcome = "none"]
      BY <1>8 DEF Return
    <2>2. "backstop" \in LoopPcs /\ "none" \in Stages
      BY DEF LoopPcs, Stages
    <2> QED BY <1>1, <1>3, <1>8, <2>1, <2>2
  <1>9. CASE w.stage = "park"
    <2>1. Return(t) = [w EXCEPT !.pc = "repair", !.stage = "none", !.sub = P, !.outcome = "none"]
      BY <1>9 DEF Return
    <2>2. "repair" \in RunPcs /\ "none" \in Stages
      BY DEF RunPcs, Stages
    <2> QED BY <1>1, <1>3, <1>9, <2>1, <2>2
  <1> QED BY <1>4, <1>5, <1>6, <1>7, <1>8, <1>9

LEMMA OnReturn ==
  ASSUME Invariant, NEW t \in Threads, Store({t}), Requeues,
         events' = events, author' = author, called' = called, settled' = settled,
         job[t].pc \in Notes, job' = [job EXCEPT ![t] = Return(t)],
         job[t].stage = "park" => \A k \in Kids : k = job[t].sub => Spawned(k)',
         t \in Kids => (row')[P].status # "waiting" \/ Live' # {}
  PROVE  Invariant'
  <1>1. TypeOK /\ Placed(t) /\ Staged(t) /\ RowHeld(t) /\ Telling(t)
    BY DEF Invariant, View
  <1>2. /\ job[t].pc \in Duties /\ job[t].pc \notin {"idle", "settle", "drive", "interrupt"}
        /\ job[t].sub \in Kids /\ job[t].sub \in Subs
    BY <1>1 DEF Placed, Duties, Notes, Subs
  <1>3. /\ Children' = Children /\ Live' = Live /\ \A k \in Kids : (row')[k] = row[k]
        /\ \A s \in Subs : row[s].status # "waiting" => (row')[s] = row[s]
    BY RequeuesKeep
  <1>4. t = P => row' = row /\ lapsed' = lapsed /\ row[P].status # "waiting"
    BY <1>2, RequeuesKeep DEF Invariant, Parked
  <1>5. SUFFICES ASSUME job' \in [Threads -> Job], \A u \in Threads \ {t} : Like(u)
                 PROVE  Does(t)
    BY <1>1, <1>2, Alone, ReturnsTo DEF Now, Staged
  <1>6. job[t].stage \in {"reserved", "final", "direct", "backstop", "park"}
    BY <1>1, <1>2 DEF Staged
  <1>7. CASE job[t].stage = "reserved"
    <2>1. Now(t, "finalize", job[t].sub, job[t].outcome, "reserved", job[t].todo, job[t].pend)
      BY <1>1, <1>7, ReturnsTo
    <2>2. (job')[t].pc \in Duties \ Notes /\ ~Settling(t)'
      BY <2>1 DEF Now, Duties, Notes, Settling
    <2>3. Staged(t)'
      BY <1>1, <1>2, <1>7, <2>1, <2>2, StagedOn DEF Now
    <2>4. Told(t)' /\ Telling(t)'
      BY <1>1, <1>7, <2>1 DEF Telling, Told, Now
    <2>5. Moves({t})
      BY <1>5 DEF Moves
    <2> QED BY <1>2, <1>7, <2>1, <2>2, <2>3, <2>4, <2>5, OnDuty DEF Now
  <1>8. CASE job[t].stage = "final" /\ t # Loop
    <2>1. Now(t, "idle", t, "none", "none", {}, {})
      BY <1>1, <1>8, ReturnsTo
    <2>2. t \in Kids /\ job[t].sub = t
      BY <1>1, <1>2, <1>8 DEF Staged
    <2>3. View(t)'
      <3>1. Placed(t)' /\ Staged(t)'
        BY <2>1, <2>2, SubagentsAssumption DEF Placed, Staged, Now, Duties, Notes, Subs
      <3>2. RowHeld(t)' /\ Telling(t)'
        BY <2>1 DEF RowHeld, Telling, Working, Now, Turns, Notes
      <3> QED BY <3>1, <3>2 DEF View
    <2>4. Starts(t) /\ Drives(t) /\ Reaches(t) /\ WakesOn(t)
      BY <1>2, <2>1, <2>2 DEF Starts, Drives, Reaches, WakesOn, Settling, At, Now
    <2>5. Works(t)
      BY <1>1, <1>3, <1>8, <2>2 DEF Works, RowHeld
    <2> QED BY <1>8, <2>2, <2>3, <2>4, <2>5, SubagentsAssumption DEF Does
  <1>9. CASE job[t].stage = "final" /\ t = Loop
    <2>1. Now(t, "reconcile", P, "none", "none", job[t].todo, job[t].pend)
      BY <1>1, <1>9, ReturnsTo
    <2>2. View(t)'
      <3>1. Placed(t)' /\ Staged(t)'
        BY <1>1, <1>9, <2>1, SubagentsAssumption DEF Placed, Staged, Now, Duties, Notes, LoopPcs, Subs
      <3>2. RowHeld(t)' /\ Telling(t)'
        BY <1>9, <2>1, SubagentsAssumption DEF RowHeld, Telling, Working, Now, Turns, Notes, Subs
      <3> QED BY <3>1, <3>2 DEF View
    <2>3. Starts(t) /\ Drives(t) /\ Reaches(t) /\ WakesOn(t)
      BY <1>2, <1>9, <2>1, SubagentsAssumption
         DEF Starts, Drives, Reaches, WakesOn, Settling, At, Now, Subs
    <2>4. Works(t)
      BY <1>9 DEF Works, Invariant, CrashFree
    <2>5. LoopAlone'
      <3>1. LoopAlone /\ Booting /\ job[Loop].todo \subseteq Subs
        BY <1>1, <1>9, Typed DEF Booting, Invariant
      <3>2. \A s \in Subs : (job')[s].pc = "idle"
        BY <1>5, <1>9, <3>1, SubagentsAssumption DEF LoopAlone, Like, Threads
      <3>3. \A s \in job[Loop].todo : (row')[s].status = "terminalizing"
        BY <1>3, <1>9, <3>1 DEF LoopAlone
      <3>4. ~Scanning'
        BY <1>9, <2>1 DEF Now, Scanning, Expiry
      <3> QED BY <1>9, <2>1, <3>2, <3>3, <3>4 DEF LoopAlone, Now, Expiry
    <2>6. Backstop'
      BY <1>9, <2>1 DEF Now, Backstop
    <2> QED BY <1>9, <2>2, <2>3, <2>4, <2>5, <2>6, SubagentsAssumption DEF Does, Subs
  <1>a. CASE job[t].stage = "direct" /\ t = Loop
    <2>1. Now(t, "release", P, "none", "none", job[t].todo, job[t].pend)
      BY <1>1, <1>a, ReturnsTo
    <2>2. View(t)'
      <3>1. Placed(t)' /\ Staged(t)'
        BY <1>1, <1>a, <2>1, SubagentsAssumption DEF Placed, Staged, Now, Duties, Notes, LoopPcs, Subs
      <3>2. RowHeld(t)' /\ Telling(t)'
        BY <1>a, <2>1, SubagentsAssumption DEF RowHeld, Telling, Working, Now, Turns, Notes, Subs
      <3> QED BY <3>1, <3>2 DEF View
    <2>3. Starts(t) /\ Drives(t) /\ Reaches(t) /\ WakesOn(t)
      BY <1>2, <1>a, <2>1, SubagentsAssumption
         DEF Starts, Drives, Reaches, WakesOn, Settling, At, Now, Subs
    <2>4. Works(t)
      BY <1>a DEF Works, Invariant, CrashFree
    <2>5. LoopAlone' /\ Backstop'
      BY <1>a, <2>1 DEF Now, LoopAlone, Backstop, Booting, Scanning, Expiry
    <2> QED BY <1>a, <2>2, <2>3, <2>4, <2>5, SubagentsAssumption DEF Does, Subs
  <1>b. CASE job[t].stage = "direct" /\ t # Loop
    <2>1. t = P
      BY <1>1, <1>2, <1>b DEF Staged
    <2>2. Now(P, "cascade", P, "none", "none", job[P].todo, job[P].pend)
      BY <1>1, <1>b, <2>1, ReturnsTo
    <2>3. View(P)'
      <3>1. Placed(P)' /\ Staged(P)'
        BY <1>1, <2>1, <2>2, SubagentsAssumption DEF Placed, Staged, Now, Duties, Notes, Subs
      <3>2. RowHeld(P)' /\ Telling(P)'
        BY <2>2 DEF RowHeld, Telling, Working, Now, Turns, Notes
      <3> QED BY <3>1, <3>2 DEF View
    <2>4. Starts(P) /\ Drives(P) /\ Reaches(P) /\ WakesOn(P)
      BY <1>2, <2>1, <2>2, SubagentsAssumption
         DEF Starts, Drives, Reaches, WakesOn, Settling, At, Now
    <2>5. Works(P)
      <3>1. ~Working(P)
        BY <1>b, <2>1, <1>2 DEF Working, Turns, Notes
      <3>2. P \in Subs /\ P # Loop
        BY SubagentsAssumption DEF Subs
      <3> QED BY <1>4, <1>b, <2>1, <3>1, <3>2 DEF Works, Invariant, CrashFree
    <2>6. Parked' /\ Dangling'
      BY <1>4, <2>1, <2>2 DEF Parked, Dangling, Now
    <2>7. Calling'
      <3>1. Drained
        BY <2>1, <1>2 DEF Invariant, Calling, Notes
      <3> QED BY <2>2, <3>1 DEF Calling, Drained, Now
    <2>8. Orphans'
      <3>1. Cascading /\ Orphans
        BY <1>b, <2>1 DEF Cascading, Invariant
      <3> QED BY <1>3, <1>4, <2>1, <2>2, <3>1 DEF Orphans, Now, Terminal
    <2> QED BY <1>b, <2>1, <2>3, <2>4, <2>5, <2>6, <2>7, <2>8 DEF Does
  <1>c. CASE job[t].stage = "backstop"
    <2>1. t = Loop
      BY <1>1, <1>2, <1>c DEF Staged
    <2>2. Now(Loop, "backstop", P, "none", "none", job[Loop].todo, job[Loop].pend)
      BY <1>1, <1>c, <2>1, ReturnsTo
    <2>3. View(Loop)'
      <3>1. Placed(Loop)' /\ Staged(Loop)'
        BY <1>1, <2>1, <2>2, SubagentsAssumption DEF Placed, Staged, Now, Duties, Notes, LoopPcs, Subs
      <3>2. RowHeld(Loop)' /\ Telling(Loop)'
        BY <2>2, SubagentsAssumption DEF RowHeld, Telling, Working, Now, Turns, Notes, Subs
      <3> QED BY <3>1, <3>2 DEF View
    <2>4. Starts(Loop) /\ Drives(Loop) /\ Reaches(Loop) /\ WakesOn(Loop)
      BY <1>2, <2>1, <2>2, SubagentsAssumption
         DEF Starts, Drives, Reaches, WakesOn, Settling, At, Now, Subs
    <2>5. Works(Loop)
      BY <2>2 DEF Works, Now
    <2>6. LoopAlone'
      <3>1. LoopAlone /\ Scanning
        BY <1>c, <2>1 DEF Scanning, Invariant
      <3>2. (job')[P].pc = "idle"
        BY <1>5, <2>1, <3>1, SubagentsAssumption DEF LoopAlone, Like, Threads, Subs
      <3>3. ~Booting'
        BY <2>2 DEF Booting, Now
      <3> QED BY <2>2, <3>2, <3>3 DEF LoopAlone, Now, Expiry
    <2>7. Backstop'
      <3>1. \A k \in Kids : Answered(k) => Answered(k)'
        BY <1>1, AnswersKept DEF Store
      <3>2. /\ job[Loop].todo \subseteq Children \ Live
            /\ \A k \in job[Loop].todo : k \in job[Loop].pend \/ Answered(k)
        BY <1>c, <2>1 DEF Invariant, Backstop
      <3>3. job[Loop].todo \subseteq Kids
        BY <3>2 DEF Children
      <3> QED BY <1>3, <2>2, <3>1, <3>2, <3>3 DEF Backstop, Now
    <2> QED BY <2>1, <2>3, <2>4, <2>5, <2>6, <2>7, SubagentsAssumption DEF Does, Subs
  <1>d. CASE job[t].stage = "park"
    <2>1. t = P
      BY <1>1, <1>2, <1>d DEF Staged
    <2>2. Now(P, "repair", P, "none", "none", job[P].todo, job[P].pend)
      BY <1>1, <1>d, <2>1, ReturnsTo
    <2>3. row[P].status = "running" /\ row[P].leased
      BY <1>1, <1>d, <2>1 DEF RowHeld, Working, Subs
    <2>4. View(P)'
      <3>1. Placed(P)' /\ Staged(P)'
        BY <1>1, <2>1, <2>2, SubagentsAssumption DEF Placed, Staged, Now, Duties, Notes, Turns, Subs
      <3>2. RowHeld(P)' /\ Telling(P)'
        BY <1>4, <2>1, <2>2, <2>3 DEF RowHeld, Telling, Now, Notes
      <3> QED BY <3>1, <3>2 DEF View
    <2>5. Starts(P) /\ Drives(P) /\ Reaches(P) /\ WakesOn(P)
      BY <1>2, <2>1, <2>2, SubagentsAssumption
         DEF Starts, Drives, Reaches, WakesOn, Settling, At, Now
    <2>6. Works(P)
      BY <1>4, <2>1, <2>2, <2>3, SubagentsAssumption DEF Works, Working, Turns, Now, Subs
    <2>7. Parked'
      <3>1. Parked
        BY DEF Invariant
      <3>2. \A k \in Kids : Spawned(k) => Spawned(k)'
        BY <1>1, AnswersKept DEF Store
      <3>3. \A k \in Children : k \in Kids
        BY DEF Children
      <3>4. \A k \in Children : Spawned(k)' \/ k \in job[P].todo
        BY <1>d, <2>1, <3>1, <3>2, <3>3 DEF Parked
      <3> QED BY <1>3, <1>4, <1>d, <2>1, <2>2, <3>1, <3>4 DEF Parked, Now
    <2>8. Calling'
      <3>1. Drained
        BY <2>1, <1>2 DEF Invariant, Calling, Notes
      <3> QED BY <2>2, <3>1 DEF Calling, Drained, Now
    <2>9. Dangling' /\ Orphans'
      BY <2>2 DEF Dangling, Orphans, Cascading, Now
    <2> QED BY <2>1, <2>4, <2>5, <2>6, <2>7, <2>8, <2>9, SubagentsAssumption DEF Does, Subs
  <1> QED BY <1>6, <1>7, <1>8, <1>9, <1>a, <1>b, <1>c, <1>d

LEMMA QuietReturn ==
  ASSUME Invariant, NEW t \in Threads, Still, Quiet, job[t].pc \in Notes,
         job' = [job EXCEPT ![t] = Return(t)],
         job[t].stage = "park" => Spawned(job[t].sub),
         t \in Kids => row[P].status # "waiting" \/ Live # {}
  PROVE  Invariant'
  <1>1. Store({t}) /\ Requeues
    BY Quietly DEF Requeues, Still
  <1>2. /\ settled' = settled /\ row' = row /\ Live' = Live
        /\ events' = events /\ author' = author /\ called' = called
    BY DEF Still, Quiet, Live, Children
  <1>3. job[t].stage = "park" => \A k \in Kids : k = job[t].sub => Spawned(k)'
    BY DEF Spawned, Logged, Still
  <1> QED BY <1>1, <1>2, <1>3, OnReturn

LEMMA LoadParentStep ==
  ASSUME Invariant, NEW t \in Threads, LoadParent(t)
  PROVE  Invariant'
  <1>1. Staged(t) /\ Still /\ Quiet /\ At(t, "wake")
    BY Unchanging DEF Invariant, View, LoadParent
  <1>2. job[t].pc \in Notes /\ job[t].stage # "park"
    BY <1>1 DEF At, Notes, Duties, Staged
  <1>3. CASE Terminal(P)
    <2>1. job' = [job EXCEPT ![t] = Return(t)] /\ row[P].status # "waiting"
      BY <1>3 DEF LoadParent, Terminal
    <2> QED BY <1>1, <1>2, <2>1, QuietReturn
  <1>4. CASE ~Terminal(P)
    <2>1. Goto(t, "spawned?") /\ "spawned?" \in Notes
      BY <1>4 DEF LoadParent, Notes
    <2> QED BY <1>1, <1>2, <2>1, WakeGoesOn
  <1> QED BY <1>3, <1>4

LEMMA CheckSpawnRecordStep ==
  ASSUME Invariant, NEW t \in Threads, CheckSpawnRecord(t)
  PROVE  Invariant'
  <1>1. Staged(t) /\ Still /\ Quiet /\ At(t, "spawned?") /\ job[t].pc \in Notes
    BY Unchanging DEF Invariant, View, CheckSpawnRecord, At, Notes
  <1>2. CASE ~Spawned(job[t].sub)
    <2>1. Goto(t, "author") /\ "author" \in Notes
      BY <1>2 DEF CheckSpawnRecord, Notes
    <2> QED BY <1>1, <2>1, WakeGoesOn
  <1>3. CASE Spawned(job[t].sub) /\ job[t].stage = "park"
    <2>1. job' = [job EXCEPT ![t] = Return(t)]
      BY <1>3 DEF CheckSpawnRecord
    <2>2. t \notin Kids
      BY <1>1, <1>3, SubagentsAssumption DEF Staged, Duties
    <2> QED BY <1>1, <1>3, <2>1, <2>2, QuietReturn
  <1>4. CASE Spawned(job[t].sub) /\ job[t].stage # "park"
    <2>1. Goto(t, "answered?") /\ "answered?" \in Notes
      BY <1>4 DEF CheckSpawnRecord, Notes
    <2> QED BY <1>1, <1>4, <2>1, WakeGoesOn
  <1> QED BY <1>2, <1>3, <1>4

LEMMA ListSiblingsStep ==
  ASSUME Invariant, NEW t \in Threads, ListSiblings(t)
  PROVE  Invariant'
  <1>1. Staged(t) /\ Still /\ Quiet /\ At(t, "siblings")
    BY Unchanging DEF Invariant, View, ListSiblings
  <1>2. job[t].pc \in Notes /\ job[t].stage # "park"
    BY <1>1 DEF At, Notes, Duties, Staged
  <1>3. CASE Live \subseteq {job[t].sub}
    <2>1. Goto(t, "resume") /\ "resume" \in Notes
      BY <1>3 DEF ListSiblings, Notes
    <2> QED BY <1>1, <1>2, <2>1, WakeGoesOn
  <1>4. CASE ~(Live \subseteq {job[t].sub})
    <2>1. job' = [job EXCEPT ![t] = Return(t)] /\ Live # {}
      BY <1>4 DEF ListSiblings
    <2> QED BY <1>1, <1>2, <2>1, QuietReturn
  <1> QED BY <1>3, <1>4

(* The record a wake repairs is that of a child which is over, or of one the
   parent has just dispatched. *)
LEMMA RepairSpawnRecordStep ==
  ASSUME Invariant, NEW t \in Threads, RepairSpawnRecord(t)
  PROVE  Invariant'
  <1>1. TypeOK /\ Placed(t) /\ Staged(t) /\ RowHeld(t) /\ Telling(t) /\ At(t, "author")
    BY DEF Invariant, View, RepairSpawnRecord
  <1>2. row' = row /\ settled' = settled /\ lapsed' = lapsed /\ Quiet
    BY DEF RepairSpawnRecord, turn, Quiet
  <1> DEFINE k == job[t].sub
  <1>3. k \in Kids /\ job[t].pc \in Notes /\ job[t].pc \in Duties
    BY <1>1 DEF Placed, At, Notes, Duties
  <1>4. /\ job[t].stage \in {"reserved", "final", "direct", "backstop", "park"}
        /\ job[t].stage = "park" => t = P
    BY <1>1, <1>3 DEF Staged
  <1>5. k \in Children /\ (Over(k) \/ job[P].pc # "exempt")
    <2>1. CASE job[t].stage = "park"
      BY <1>1, <1>3, <1>4, <2>1 DEF Invariant, Parked, At
    <2>2. CASE job[t].stage \in {"final", "direct", "backstop"}
      BY <1>1, <1>3, <2>2 DEF RowHeld, Children, Over
    <2>3. CASE job[t].stage = "reserved"
      BY <1>1, <1>3, <2>3 DEF RowHeld, Telling, Told, Children, Over
    <2> QED BY <1>4, <2>1, <2>2, <2>3
  <1>6. Logs /\ \A j \in Kids : j = k => Spawned(j)'
    <2> SUFFICES ASSUME NEW j \in Kids, j = k
                 PROVE  Logs /\ Spawned(j)'
      BY <1>3
    <2>1. Put(j, "spawn") /\ Allowed({j}, "spawn") /\ "spawn" \in Records
      BY <1>5 DEF RepairSpawnRecord, Allowed, Records
    <2>2. Logs
      BY <1>1, <2>1, LogOne
    <2> HIDE DEF k
    <2>3. log \in [Kids -> Seq(Records)] /\ log' = [log EXCEPT ![j] = Append(@, "spawn")]
      BY <1>1, <2>1 DEF TypeOK, Put
    <2>4. log[j] \in Seq(Records) /\ (log')[j] = Append(log[j], "spawn")
      BY <2>3
    <2>5. /\ Len(Append(log[j], "spawn")) = Len(log[j]) + 1
          /\ Append(log[j], "spawn")[Len(log[j]) + 1] = "spawn" /\ Len(log[j]) \in Nat
      BY <2>1, <2>4, Appended
    <2>6. Spawned(j)'
      BY <2>4, <2>5 DEF Spawned, Logged
    <2> QED BY <2>2, <2>6
  <1>7. Store({t}) /\ Requeues
    BY <1>1, <1>2, <1>6 DEF Store, Rows, Settles, Talks, Others, Quiet, TypeOK, Requeues
  <1>8. CASE job[t].stage = "park"
    <2>1. job' = [job EXCEPT ![t] = Return(t)]
      BY <1>8 DEF RepairSpawnRecord
    <2>2. t \notin Kids
      BY <1>4, <1>8, SubagentsAssumption
    <2> QED BY <1>2, <1>3, <1>6, <1>7, <2>1, <2>2, OnReturn DEF Quiet
  <1>9. CASE job[t].stage # "park"
    <2>1. Now(t, "answered?", k, job[t].outcome, job[t].stage, job[t].todo, job[t].pend)
      <3>1. Goto(t, "answered?") /\ "answered?" \in DutyPcs
        BY <1>9 DEF RepairSpawnRecord, DutyPcs
      <3> QED BY <1>1, <3>1, Goes
    <2>2. (job')[t].pc \in Duties /\ (job')[t].pc \in Notes /\ ~Settling(t)'
      BY <2>1 DEF Now, Duties, Notes, Settling
    <2>3. Staged(t)'
      BY <1>1, <1>3, <1>9, <2>1, <2>2, StagedOn DEF Now
    <2>4. Moves({t})
      BY <1>7, <2>1 DEF Moves, Now
    <2>5. PICK j \in Kids : j = k
      BY <1>3
    <2>6. Spawned(j)' /\ (Answered(j) => Answered(j)')
      BY <1>1, <1>6, <2>5, AnswersKept
    <2>7. Told(t) \/ (job[t].stage = "backstop" /\ Answered(j))
      BY <1>1, <1>3, <1>9, <2>5 DEF Telling
    <2>8. Told(t) => Told(t)'
      BY <1>2, <2>1 DEF Told, Now
    <2>9. Telling(t)'
      BY <2>1, <2>5, <2>6, <2>7, <2>8 DEF Telling, Now, Spawned, Answered, Logged
    <2>a. Does(t)
      BY <1>2, <1>3, <1>7, <2>1, <2>2, <2>3, <2>4, <2>9, OnDuty DEF Now, Quiet
    <2> QED BY <1>1, <2>4, <2>a, Alone DEF Moves, At
  <1> QED BY <1>8, <1>9

LEMMA ResumeIsResume ==
  ASSUME TypeOK, Requeue
  PROVE  /\ Requeues /\ Rows({}) /\ lapsed' \in BOOLEAN /\ nudge' \in BOOLEAN
         /\ lapsed => lapsed' \/ (row')[P].status # "waiting"
         /\ (row')[P].status # "waiting" /\ row' \in [Subs -> Row]
         /\ \A T : Rows(T)
  <1>1. row \in [Subs -> Row] /\ P \in Subs /\ lapsed \in BOOLEAN /\ nudge \in BOOLEAN
    BY DEF TypeOK, Subs
  <1>2. CASE row[P].status = "waiting"
    <2>1. row' = [row EXCEPT ![P].status = "queued"] /\ lapsed' = FALSE /\ nudge' = TRUE
      BY <1>2 DEF Requeue, SetStatus
    <2>2. Resumes
      BY <1>1, <1>2, <2>1 DEF Resumes, Becomes, Row, Statuses
    <2> QED BY <1>1, <2>1, <2>2 DEF Rows, Requeues, Resumes, Becomes
  <1>3. CASE row[P].status # "waiting"
    <2>1. row' = row /\ lapsed' = lapsed /\ nudge' = nudge
      BY <1>3 DEF Requeue
    <2> QED BY <1>1, <1>3, <2>1 DEF Rows, Requeues
  <1> QED BY <1>2, <1>3

LEMMA ResumeParentStep ==
  ASSUME Invariant, NEW t \in Threads, ResumeParent(t)
  PROVE  Invariant'
  <1>1. TypeOK /\ Staged(t) /\ At(t, "resume") /\ Requeue
    BY DEF Invariant, View, ResumeParent
  <1>2. job[t].pc \in Notes /\ job[t].stage # "park"
    BY <1>1 DEF At, Notes, Duties, Staged
  <1>3. /\ log' = log /\ settled' = settled /\ events' = events /\ author' = author
        /\ suspended' = suspended /\ called' = called /\ parkedLate' = parkedLate
        /\ crashes' = crashes /\ job' = [job EXCEPT ![t] = Return(t)]
    BY DEF ResumeParent, turn
  <1>4. Store({t})
    BY <1>1, <1>3, ResumeIsResume, LogSame DEF Store, Settles, Talks, Others, TypeOK
  <1> QED BY <1>1, <1>2, <1>3, <1>4, ResumeIsResume, OnReturn

LEMMA SetStatusIs ==
  ASSUME TypeOK, NEW s \in Subs, NEW v \in Statuses, SetStatus(s, v)
  PROVE  Becomes(s, v, row[s].flag, row[s].leased)
  <1>1. row \in [Subs -> Row]
    BY DEF TypeOK
  <1> QED BY <1>1 DEF SetStatus, Becomes, Row

(* The moves of a step that changes one row and nothing else of the store. *)
LEMMA OneRow ==
  ASSUME TypeOK, NEW T, Rows(T), UNCHANGED <<log, settled, lapsed, turn, nudge, crashes>>
  PROVE  /\ Store(T) /\ Quiet
         /\ log' = log /\ settled' = settled /\ lapsed' = lapsed
  BY LogSame DEF turn, Store, Settles, Talks, Others, Quiet, TypeOK

LEMMA FinalizeSettlementStep ==
  ASSUME Invariant, NEW t \in Threads, FinalizeSettlement(t)
  PROVE  Invariant'
  <1>1. /\ TypeOK /\ Placed(t) /\ Staged(t) /\ RowHeld(t) /\ Telling(t) /\ At(t, "finalize")
        /\ job \in [Threads -> Job]
    BY DEF Invariant, View, FinalizeSettlement, TypeOK
  <1> DEFINE s == job[t].sub
  <1>2. /\ job[t].stage = "reserved" /\ t \in {s, Loop} /\ job[t].outcome \in Ends
        /\ Told(t)
    BY <1>1 DEF Staged, Telling, At, Duties, Notes
  <1>3. s \in Subs /\ row[s].status = "terminalizing"
    BY <1>1, <1>2, Typed DEF RowHeld
  <1>4. Becomes(s, "settled", row[s].flag, row[s].leased)
    <2>1. SetStatus(s, "settled") /\ "settled" \in Statuses
      BY <1>3 DEF FinalizeSettlement, Statuses
    <2> HIDE DEF s
    <2> QED BY <1>1, <1>3, <2>1, SetStatusIs
  <1>5. (row')[s].status = "settled" /\ \A q \in Subs \ {s} : (row')[q] = row[q]
    BY <1>4 DEF Becomes
  <1>6. t # Loop => t = s /\ t \in Subs
    BY <1>2, <1>3
  <1>7. CASE s # P
    <2>1. Now(t, "wake", s, job[t].outcome, "final", job[t].todo, job[t].pend)
      <3>1. job' = [job EXCEPT ![t].pc = "wake", ![t].stage = "final"]
        BY <1>7 DEF FinalizeSettlement
      <3>2. "wake" \in DutyPcs /\ "final" \in Stages
        BY DEF DutyPcs, Stages
      <3> QED BY <1>1, <3>1, <3>2 DEF Now, Job, Like
    <2>2. Rows({t})
      BY <1>1, <1>3, <1>4, <2>1 DEF Rows, Finalizes, Now
    <2>3. Store({t}) /\ Quiet /\ settled' = settled
      BY <1>1, <2>2, OneRow DEF FinalizeSettlement
    <2>4. View(t)'
      <3>1. Placed(t)' /\ Staged(t)'
        BY <1>1, <1>2, <1>3, <1>7, <2>1, SubagentsAssumption
           DEF Placed, Staged, Now, Duties, Notes, Subs
      <3>2. Told(t)'
        BY <1>2, <2>1, <2>3 DEF Told, Now
      <3>3. RowHeld(t)' /\ Telling(t)'
        BY <1>5, <2>1, <3>2 DEF RowHeld, Telling, Working, Now, Turns, Notes
      <3> QED BY <3>1, <3>3 DEF View
    <2>5. Starts(t) /\ Drives(t) /\ Reaches(t) /\ WakesOn(t)
      BY <1>1, <2>1 DEF Starts, Drives, Reaches, WakesOn, Settling, Waking, DutyPcs, At, Now
    <2>6. Works(t)
      <3>1. crashes = 0 => t # Loop
        BY <1>2 DEF Invariant, CrashFree
      <3> QED BY <1>5, <1>6, <3>1 DEF Works
    <2>7. t # P
      BY <1>6, <1>7, SubagentsAssumption DEF Subs
    <2>8. ASSUME t = Loop PROVE LoopAlone' /\ Backstop'
      <3>1. LoopAlone /\ Booting /\ job[Loop].todo \subseteq Subs /\ job[Loop].pc # "reconcile"
        BY <1>1, <1>2, <2>8, Typed DEF Booting, Invariant, At
      <3>2. \A q \in Subs : (job')[q].pc = "idle"
        BY <2>1, <2>8, <3>1, SubagentsAssumption DEF LoopAlone, Like, Threads, Now
      <3>3. \A q \in job[Loop].todo : q # s /\ (row')[q].status = "terminalizing"
        BY <1>2, <1>5, <2>8, <3>1 DEF LoopAlone
      <3>4. ~Scanning'
        BY <2>1, <2>8 DEF Now, Scanning, Expiry
      <3>5. LoopAlone'
        BY <2>1, <2>8, <3>2, <3>3, <3>4 DEF LoopAlone, Now, Expiry
      <3> QED BY <2>1, <2>8, <3>5 DEF Backstop, Now
    <2>9. Does(t)
      BY <2>4, <2>5, <2>6, <2>7, <2>8 DEF Does
    <2> QED BY <1>1, <2>1, <2>3, <2>9, Alone DEF Now, At
  <1>8. CASE s = P
    <2> DEFINE p == IF t = Loop THEN "reconcile" ELSE "orphans"
    <2>1. Now(t, p, P, "none", "none", job[t].todo, {})
      <3>1. job' = [job EXCEPT ![t] = NewJob(P, p, "none", "none"), ![t].todo = job[t].todo]
        BY <1>8 DEF FinalizeSettlement
      <3>2. p \in RunPcs \cup LoopPcs
        BY DEF RunPcs, LoopPcs
      <3> HIDE DEF p
      <3> DEFINE r == [NewJob(P, p, "none", "none") EXCEPT !.todo = job[t].todo]
      <3>3. job[t].todo \subseteq Subs /\ P \in Subs
        BY <1>1, Typed DEF Subs
      <3>4. /\ r \in Job /\ r.pc = p /\ r.sub = P /\ r.outcome = "none" /\ r.stage = "none"
            /\ r.todo = job[t].todo /\ r.pend = {}
        BY <3>2, <3>3 DEF NewJob, Job, Stages
      <3>5. job' = [job EXCEPT ![t] = r]
        BY <1>1, <3>1
      <3> HIDE DEF r
      <3> QED BY <1>1, <3>4, <3>5 DEF Now, Like
    <2>2. Rows({t})
      <3>1. t \notin Kids
        <4>1. P \notin Kids /\ Loop \notin Kids
          BY SubagentsAssumption DEF Subs
        <4> QED BY <1>6, <1>8, <4>1
      <3>2. Finalizes({t})
        BY <1>1, <1>3, <1>4, <3>1 DEF Finalizes
      <3> QED BY <3>2 DEF Rows
    <2>3. Store({t}) /\ Quiet
      BY <1>1, <2>2, OneRow DEF FinalizeSettlement
    <2>4. View(t)'
      <3>1. t \notin Kids
        BY <1>6, <1>8, SubagentsAssumption DEF Subs
      <3>2. Placed(t)' /\ Staged(t)'
        BY <1>6, <1>8, <2>1, <3>1, SubagentsAssumption
           DEF Placed, Staged, Now, Duties, Notes, LoopPcs, Subs
      <3>3. RowHeld(t)' /\ Telling(t)'
        BY <2>1 DEF RowHeld, Telling, Working, Now, Turns, Notes
      <3> QED BY <3>2, <3>3 DEF View
    <2>5. Starts(t) /\ Drives(t) /\ Reaches(t) /\ WakesOn(t)
      BY <1>1, <1>6, <1>8, <2>1, SubagentsAssumption
         DEF Starts, Drives, Reaches, WakesOn, Settling, At, Now, Subs
    <2>6. Works(t)
      <3>1. crashes = 0 => t # Loop
        BY <1>2 DEF Invariant, CrashFree
      <3> QED BY <1>5, <1>6, <3>1 DEF Works
    <2>7. ASSUME t = Loop PROVE LoopAlone' /\ Backstop'
      <3>1. LoopAlone /\ Booting /\ job[Loop].todo \subseteq Subs /\ job[Loop].pc # "reconcile"
        BY <1>1, <1>2, <2>7, Typed DEF Booting, Invariant, At
      <3>2. \A q \in Subs : (job')[q].pc = "idle"
        BY <2>1, <2>7, <3>1, SubagentsAssumption DEF LoopAlone, Like, Threads, Now
      <3>3. \A q \in job[Loop].todo : q # s /\ (row')[q].status = "terminalizing"
        BY <1>2, <1>5, <2>7, <3>1 DEF LoopAlone
      <3>4. ~Scanning'
        BY <2>1, <2>7 DEF Now, Scanning, Expiry
      <3>5. LoopAlone'
        BY <2>1, <2>7, <3>2, <3>3, <3>4 DEF LoopAlone, Now, Expiry
      <3> QED BY <2>1, <2>7, <3>5 DEF Backstop, Now
    <2>8. ASSUME t = P PROVE Parked' /\ Calling' /\ Dangling' /\ Orphans'
      <3>1. t # Loop /\ Drained
        BY <1>1, <2>8, SubagentsAssumption DEF Invariant, Calling, At, Subs
      <3> QED BY <1>5, <1>8, <2>1, <2>3, <2>8, <3>1
              DEF Parked, Calling, Dangling, Orphans, Cascading, Drained, Quiet, Now
    <2>9. Does(t)
      BY <2>4, <2>5, <2>6, <2>7, <2>8 DEF Does
    <2> QED BY <1>1, <2>1, <2>3, <2>9, Alone DEF Now, At
  <1> QED BY <1>7, <1>8

----------------------------------------------------------------------------
(* The run of a child, and of the parent, up to its settlement. *)

LEMMA Idles ==
  ASSUME TypeOK, NEW s \in Subs, job' = [job EXCEPT ![s] = Idle(s)]
  PROVE  Now(s, "idle", s, "none", "none", {}, {})
  <1> DEFINE r == Idle(s)
  <1>1. s \in Threads /\ s # Loop /\ job \in [Threads -> Job]
    BY SubagentsAssumption DEF TypeOK, Threads
  <1>2. /\ r \in Job /\ r.pc = "idle" /\ r.sub = s /\ r.outcome = "none"
        /\ r.stage = "none" /\ r.todo = {} /\ r.pend = {}
    BY <1>1 DEF Idle, NewJob, Job, RunPcs, Stages
  <1>3. job' = [job EXCEPT ![s] = r]
    OBVIOUS
  <1> HIDE DEF r
  <1> QED BY <1>1, <1>2, <1>3 DEF Now, Like

LEMMA ChildGoes ==
  ASSUME Invariant, NEW k \in Kids, Still, Quiet,
         job[k].pc \in {"register", "recheck", "drive"},
         NEW p \in {"recheck", "drive", "back off", "settle"}, NEW o \in Ends \cup {"none"},
         Now(k, p, k, o, job[k].stage, job[k].todo, job[k].pend),
         p = "settle" => o \in Ends, p = "drive" => ~row[k].flag
  PROVE  Invariant'
  <1>1. /\ k \in Threads /\ k \in Subs /\ k # P /\ k # Loop
        /\ Placed(k) /\ Staged(k) /\ RowHeld(k)
    BY SubagentsAssumption DEF Invariant, View, Threads, Subs
  <1>2. Store({k})
    BY Quietly
  <1>3. job[k].stage \in {"none", "prompt", "resume"} /\ Working(k)
    BY <1>1 DEF Staged, Working, Duties, Notes, Turns
  <1>4. row[k].status = "running" /\ row[k].leased
    BY <1>1, <1>3 DEF RowHeld
  <1>5. Placed(k)' /\ Staged(k)'
    BY <1>1, <1>3 DEF Now, Placed, Staged, Duties, Notes
  <1>6. RowHeld(k)' /\ Telling(k)'
    BY <1>3, <1>4 DEF Now, RowHeld, Telling, Still, Notes
  <1>7. Starts(k) /\ Drives(k) /\ Reaches(k) /\ WakesOn(k)
    BY <1>1, <1>4 DEF Now, Starts, Drives, Reaches, WakesOn, Settling, Waking, DutyPcs, At, Still
  <1>8. Works(k)
    BY <1>1, <1>4 DEF Now, Works, Working, Turns, Still
  <1>9. Does(k)
    BY <1>1, <1>5, <1>6, <1>7, <1>8 DEF Does, View
  <1>a. job[k].pc # "idle"
    OBVIOUS
  <1> QED BY <1>1, <1>2, <1>9, <1>a, Alone DEF Now

LEMMA ChildStepKeeps ==
  ASSUME Invariant, NEW k \in Kids, Register(k) \/ Recheck(k) \/ DriveEnds(k)
  PROVE  Invariant'
  <1>1. Still /\ Quiet /\ job[k].pc \in {"register", "recheck", "drive"}
    BY Unchanging DEF Register, Recheck, DriveEnds, At
  <1>2. TypeOK /\ k \in Threads /\ job[k].sub = k
    BY <1>1 DEF Invariant, View, Placed, Threads, Subs, Duties, Notes
  <1>3. PICK p \in {"recheck", "drive", "back off", "settle"}, o \in Ends \cup {"none"} :
          /\ job' = [job EXCEPT ![k].outcome = o, ![k].pc = p]
          /\ p = "settle" => o \in Ends
          /\ p = "drive" => ~row[k].flag
    <2>1. job[k].outcome \in Ends \cup {"none"} /\ job \in [Threads -> Job]
      BY <1>2, Typed DEF TypeOK
    <2>2. ASSUME NEW p \in {"recheck", "drive", "back off"}, job' = [job EXCEPT ![k].pc = p]
          PROVE  job' = [job EXCEPT ![k].outcome = job[k].outcome, ![k].pc = p]
      BY <1>2, <2>1, <2>2 DEF Job
    <2>3. ASSUME NEW o \in Ends, job' = [job EXCEPT ![k].pc = "settle", ![k].outcome = o]
          PROVE  job' = [job EXCEPT ![k].outcome = o, ![k].pc = "settle"]
      BY <1>2, <2>1, <2>3 DEF Job
    <2>4. "done" \in Ends /\ "cancelled" \in Ends
      BY DEF Ends
    <2>5. CASE Register(k)
      BY <2>1, <2>2, <2>3, <2>4, <2>5 DEF Register, Goto
    <2>6. CASE Recheck(k)
      BY <2>1, <2>2, <2>3, <2>4, <2>6 DEF Recheck
    <2>7. CASE DriveEnds(k)
      BY <2>1, <2>2, <2>3, <2>4, <2>7 DEF DriveEnds, Goto
    <2> QED BY <2>5, <2>6, <2>7
  <1>4. p \in RunPcs \cup DutyPcs \cup LoopPcs
    BY DEF RunPcs
  <1>5. Now(k, p, k, o, job[k].stage, job[k].todo, job[k].pend)
    BY <1>2, <1>3, <1>4, GoesTelling
  <1> QED BY <1>1, <1>3, <1>5, ChildGoes

(* A parent with no run to its name, or about to settle, relies on little. *)
LEMMA ParentEases ==
  ASSUME Invariant, job[P].pc \in {"settle", "back off"}, (row')[P].status # "waiting",
         (job')[P].pc \in {"idle", "check"}, (job')[P].stage \in {"none", "reserved"},
         events' = events, author' = author
  PROVE  Parked' /\ Calling' /\ Dangling' /\ Orphans'
  <1>1. Drained
    BY DEF Invariant, Calling
  <1> QED BY <1>1 DEF Parked, Calling, Dangling, Orphans, Cascading, Drained

LEMMA ReserveSettlementStep ==
  ASSUME Invariant, NEW t \in Subs, ReserveSettlement(t)
  PROVE  Invariant'
  <1>1. /\ TypeOK /\ t \in Threads /\ t # Loop /\ job \in [Threads -> Job]
        /\ Placed(t) /\ RowHeld(t) /\ At(t, "settle")
    BY SubagentsAssumption DEF Invariant, View, TypeOK, Threads, ReserveSettlement
  <1>2. /\ row[t].status = "running" /\ row[t].leased /\ job[t].sub = t
        /\ job[t].outcome \in Ends
    BY <1>1 DEF RowHeld, Placed, Working, At, Duties, Notes
  <1>3. Becomes(t, "terminalizing", row[t].flag, row[t].leased)
    BY <1>1, <1>2, SetStatusIs DEF ReserveSettlement, Statuses
  <1>4. Rows({t})
    BY <1>2, <1>3 DEF Rows, Reserves
  <1>5. Store({t}) /\ Quiet /\ settled' = settled
    BY <1>1, <1>4, OneRow DEF ReserveSettlement
  <1>6. Now(t, "check", t, job[t].outcome, "reserved", job[t].todo, job[t].pend)
    <2>1. job' = [job EXCEPT ![t].pc = "check", ![t].stage = "reserved"]
      BY <1>2 DEF ReserveSettlement
    <2>2. "check" \in DutyPcs /\ "reserved" \in Stages
      BY DEF DutyPcs, Stages
    <2>3. Now(t, "check", job[t].sub, job[t].outcome, "reserved", job[t].todo, job[t].pend)
      BY <1>1, <2>1, <2>2 DEF Now, Job, Like
    <2> QED BY <1>2, <2>3
  <1>7. (row')[t].status = "terminalizing"
    BY <1>3 DEF Becomes
  <1>8. Placed(t)' /\ Staged(t)'
    BY <1>1, <1>2, <1>6 DEF Now, Placed, Staged, Duties, Notes
  <1>9. RowHeld(t)' /\ Telling(t)'
    BY <1>6, <1>7 DEF Now, RowHeld, Telling, Working, Turns, Notes
  <1>a. Starts(t) /\ Drives(t) /\ Reaches(t) /\ WakesOn(t)
    BY <1>1, <1>2, <1>6 DEF Now, Starts, Drives, Reaches, WakesOn, Waking, DutyPcs, At
  <1>b. Works(t)
    BY <1>1, <1>6, <1>7 DEF Now, Works
  <1>c. t = P => Parked' /\ Calling' /\ Dangling' /\ Orphans'
    BY <1>1, <1>5, <1>6, <1>7, ParentEases DEF Now, At, Quiet
  <1>d. Does(t)
    BY <1>1, <1>8, <1>9, <1>a, <1>b, <1>c DEF Does, View
  <1> QED BY <1>1, <1>5, <1>6, <1>d, Alone DEF Now, At

LEMMA BackOffStep ==
  ASSUME Invariant, NEW t \in Subs, BackOff(t)
  PROVE  Invariant'
  <1>1. /\ TypeOK /\ t \in Threads /\ t # Loop /\ row \in [Subs -> Row]
        /\ RowHeld(t) /\ At(t, "back off")
    BY SubagentsAssumption DEF Invariant, View, TypeOK, Threads, BackOff
  <1>2. row[t].status = "running"
    BY <1>1 DEF RowHeld, Working, At
  <1>3. Becomes(t, "queued", row[t].flag, FALSE)
    <2>1. row' = [row EXCEPT ![t].status = "queued", ![t].leased = FALSE]
      BY <1>2 DEF BackOff, Released
    <2>2. "queued" \in Statuses
      BY DEF Statuses
    <2> QED BY <1>1, <2>1, <2>2 DEF Becomes, Row
  <1>4. Rows({t})
    BY <1>2, <1>3 DEF Rows, Releases
  <1>5. Store({t}) /\ Quiet /\ settled' = settled
    BY <1>1, <1>4, OneRow DEF BackOff
  <1>6. Now(t, "idle", t, "none", "none", {}, {})
    BY <1>1, Idles DEF BackOff
  <1>7. (row')[t].status = "queued"
    BY <1>3 DEF Becomes
  <1>8. Placed(t)' /\ Staged(t)'
    BY <1>1, <1>6 DEF Now, Placed, Staged, Duties, Notes
  <1>9. RowHeld(t)' /\ Telling(t)'
    BY <1>6 DEF Now, RowHeld, Telling, Working, Turns, Notes
  <1>a. Starts(t) /\ Drives(t) /\ Reaches(t) /\ WakesOn(t)
    BY <1>1, <1>6 DEF Now, Starts, Drives, Reaches, WakesOn, Waking, Settling, DutyPcs, At
  <1>b. Works(t)
    BY <1>1, <1>6, <1>7 DEF Now, Works
  <1>c. t = P => Parked' /\ Calling' /\ Dangling' /\ Orphans'
    BY <1>1, <1>5, <1>6, <1>7, ParentEases DEF Now, At, Quiet
  <1>d. Does(t)
    BY <1>1, <1>8, <1>9, <1>a, <1>b, <1>c DEF Does, View
  <1> QED BY <1>1, <1>5, <1>6, <1>d, Alone DEF Now, At

----------------------------------------------------------------------------
(* The run of the parent. *)

ParentPcs == Turns \cup {"orphans", "cascade"}

LEMMA ParentGoes ==
  ASSUME Invariant, Store({P}), (row')[P] = row[P], job[P].pc \in ParentPcs,
         job' \in [Threads -> Job], \A u \in Threads \ {P} : Like(u),
         (job')[P].pc \in ParentPcs \cup {"spawned?", "settle", "back off", "idle"},
         (job')[P].pc \in {"dispatch", "spawned?"} => (job')[P].sub \in Kids,
         (job')[P].pc \notin {"dispatch", "spawned?"} => (job')[P].sub = P,
         (job')[P].pc = "spawned?" => (job')[P].stage = "park",
         (job')[P].pc # "spawned?" => (job')[P].stage \in {"none", "prompt", "resume"},
         (job')[P].pc = "settle" => (job')[P].outcome \in Ends,
         (job')[P].pc \in Turns \cup {"spawned?", "settle", "back off"} <=> job[P].pc \in Turns,
         (job')[P].pend \subseteq Kids, Parked', Calling', Dangling', Orphans'
  PROVE  Invariant'
  <1> DEFINE p == (job')[P].pc
             s == (job')[P].sub
             o == (job')[P].outcome
             g == (job')[P].stage
  <1>0. /\ p \in ParentPcs \cup {"spawned?", "settle", "back off", "idle"}
        /\ p \in {"dispatch", "spawned?"} => s \in Kids
        /\ p \notin {"dispatch", "spawned?"} => s = P
        /\ p = "spawned?" => g = "park"
        /\ p # "spawned?" => g \in {"none", "prompt", "resume"}
        /\ p = "settle" => o \in Ends
        /\ p \in Turns \cup {"spawned?", "settle", "back off"} <=> job[P].pc \in Turns
        /\ Now(P, p, s, o, g, (job')[P].todo, (job')[P].pend)
    BY DEF Now
  <1> HIDE DEF p, s, o, g
  <1>1. /\ P \in Threads /\ P \in Subs /\ P \notin Kids /\ P # Loop
        /\ Placed(P) /\ Staged(P) /\ RowHeld(P) /\ CrashFree
    BY SubagentsAssumption DEF Invariant, View, Threads, Subs
  <1>2. job[P].stage \in {"none", "prompt", "resume"}
        /\ job[P].pc \notin DutyPcs \cup {"idle"}
    BY <1>1 DEF Staged, Duties, Notes, ParentPcs, Turns, DutyPcs
  <1>3. Working(P) <=> job[P].pc \in Turns
    BY <1>2 DEF Working, ParentPcs, Turns
  <1>4. Working(P)' <=> job[P].pc \in Turns
    BY <1>0 DEF Now, Working, ParentPcs, Turns
  <1>5. Placed(P)' /\ Staged(P)'
    <2>1. p = "settle" => o \in Ends
      BY <1>0
    <2>2. p \in Turns \cup Duties \cup {"idle", "back off", "settle", "orphans", "cascade", "interrupt"}
      BY <1>0 DEF ParentPcs, Duties, Notes
    <2>3. p \in Notes \cup {"dispatch", "interrupt", "cancelled"} => s \in Kids
      BY <1>0 DEF ParentPcs, Notes, Turns
    <2>4. p \notin Duties \cup {"dispatch", "interrupt"} => s = P
      BY <1>0 DEF Duties, Notes
    <2>5. Placed(P)'
      BY <1>0, <1>1, <2>1, <2>2, <2>3, <2>4 DEF Now, Placed
    <2>6. p \in Duties <=> p = "spawned?"
      BY <1>0 DEF ParentPcs, Duties, Notes, Turns
    <2>7. "spawned?" \in Notes
      BY DEF Notes
    <2>8. Staged(P)'
      BY <1>0, <2>6, <2>7 DEF Now, Staged
    <2> QED BY <2>5, <2>8
  <1>6. RowHeld(P)' /\ Telling(P)'
    <2>1. g \notin {"reserved", "final", "direct", "backstop"}
      BY <1>0
    <2>2. RowHeld(P)'
      BY <1>0, <1>1, <1>3, <1>4, <2>1 DEF Now, RowHeld
    <2>3. p \notin {"append", "finalize", "answered?", "answer"}
          /\ (p \in Notes => g = "park")
      BY <1>0 DEF ParentPcs, Turns, Notes
    <2>4. Telling(P)'
      BY <1>0, <2>3 DEF Now, Telling
    <2> QED BY <2>2, <2>4
  <1>7. Starts(P) /\ Drives(P) /\ Reaches(P) /\ WakesOn(P)
    <2>1. p \notin {"check", "append"}
      BY <1>0 DEF ParentPcs, Turns
    <2>2. job[P].pc # "interrupt"
      BY <1>2 DEF DutyPcs
    <2> QED BY <1>0, <1>1, <2>1, <2>2 DEF Now, Starts, Drives, Reaches, WakesOn, Settling, At
  <1>8. Works(P)
    BY <1>1, <1>2, <1>3, <1>4 DEF Works, CrashFree
  <1>9. Does(P)
    BY <1>1, <1>5, <1>6, <1>7, <1>8 DEF Does, View
  <1> QED BY <1>1, <1>2, <1>9, Alone

(* What the parent knows while it has work of its own. *)
LEMMA ParentKnows ==
  ASSUME Invariant, job[P].pc \in ParentPcs
  PROVE  /\ TypeOK /\ P \in Threads /\ P \in Subs /\ P # Loop /\ P \notin Kids
         /\ job[P] \in Job /\ job \in [Threads -> Job] /\ row \in [Subs -> Row]
         /\ job[P].stage \in {"none", "prompt", "resume"}
         /\ job[P].pc # "dispatch" => job[P].sub = P
         /\ job[P].outcome \in Ends \cup {"none"}
         /\ job[P].pend \subseteq Kids /\ job[P].todo \subseteq Subs
         /\ row[P].status # "waiting"
         /\ job[P].pc \in Turns => row[P].status = "running"
  <1>1. /\ TypeOK /\ P \in Threads /\ P \in Subs /\ P \notin Kids /\ P # Loop
        /\ Placed(P) /\ Staged(P) /\ RowHeld(P) /\ Parked
    BY SubagentsAssumption DEF Invariant, View, Threads, Subs
  <1>2. job[P].pc \notin Duties \cup {"idle", "interrupt"}
    BY DEF ParentPcs, Turns, Duties, Notes
  <1>3. job[P].stage \in {"none", "prompt", "resume"}
    BY <1>1, <1>2 DEF Staged
  <1>4. job[P].pc # "dispatch" => job[P].sub = P
    BY <1>1, <1>2 DEF Placed
  <1>5. row[P].status # "waiting" /\ (job[P].pc \in Turns => row[P].status = "running")
    BY <1>1, <1>2 DEF Parked, RowHeld, Working
  <1>6. job \in [Threads -> Job] /\ row \in [Subs -> Row] /\ job[P].pend \subseteq Kids
    BY <1>1 DEF TypeOK, Placed
  <1> QED BY <1>1, <1>3, <1>4, <1>5, <1>6, Typed

LEMMA ScanDanglingCallsStep ==
  ASSUME Invariant, ScanDanglingCalls
  PROVE  Invariant'
  <1> DEFINE open == {k \in Kids : Logged(k, {"call"}) /\ ~Answered(k)}
             left == {k \in open : Spawned(k)}
  <1>1. Still /\ Quiet /\ At(P, "scan") /\ job[P].pc \in ParentPcs
    BY Unchanging DEF ScanDanglingCalls, At, ParentPcs, Turns
  <1>2. Store({P}) /\ (row')[P] = row[P]
    BY <1>1, Quietly DEF Still
  <1>3. job' = [job EXCEPT ![P].pc = "exempt", ![P].pend = open, ![P].todo = left]
    BY DEF ScanDanglingCalls
  <1>4. open \in SUBSET Kids /\ left \in SUBSET Subs
    BY DEF Subs
  <1>5. \A k \in open : Spawned(k) => k \in left
    OBVIOUS
  <1> HIDE DEF open, left
  <1>6. Now(P, "exempt", P, job[P].outcome, job[P].stage, left, open)
    <2>1. "exempt" \in RunPcs /\ open \in SUBSET Subs
      BY <1>4 DEF RunPcs, Subs
    <2>2. job[P].sub = P /\ TypeOK /\ P \in Threads
      BY <1>1, ParentKnows DEF At
    <2>3. Now(P, "exempt", job[P].sub, job[P].outcome, job[P].stage, left, open)
      BY <1>3, <1>4, <2>1, <2>2, SetsPcPendTodo
    <2> QED BY <2>2, <2>3
  <1>7. Drained /\ row[P].status # "waiting" /\ job[P].stage \in {"none", "prompt", "resume"}
    BY <1>1, ParentKnows DEF Invariant, Calling, At
  <1>8. Parked' /\ Calling' /\ Orphans'
    BY <1>1, <1>6, <1>7 DEF Parked, Calling, Orphans, Cascading, Now, Still, Quiet, Drained
  <1>9. Dangling'
    BY <1>1, <1>5, <1>6 DEF Dangling, Now, Spawned, Logged, Still
  <1>a. "exempt" \in ParentPcs /\ "exempt" \in Turns /\ job[P].pc \in Turns
    BY <1>1 DEF ParentPcs, Turns, At
  <1> QED BY <1>1, <1>2, <1>4, <1>6, <1>7, <1>8, <1>9, <1>a, ParentGoes DEF Now

LEMMA ExemptLiveChildStep ==
  ASSUME Invariant, ExemptLiveChild
  PROVE  Invariant'
  <1>1. PICK k \in job[P].todo :
          job' = [job EXCEPT ![P].todo = @ \ {k},
                             ![P].pend = IF k \in Live THEN @ \ {k} ELSE @]
    BY DEF ExemptLiveChild
  <1> DEFINE d == job[P].todo \ {k}
             e == IF k \in Live THEN job[P].pend \ {k} ELSE job[P].pend
  <1>2. Still /\ Quiet /\ At(P, "exempt") /\ job[P].pc \in ParentPcs
    BY Unchanging DEF ExemptLiveChild, At, ParentPcs, Turns
  <1>3. Store({P}) /\ (row')[P] = row[P]
    BY <1>2, Quietly DEF Still
  <1>4. /\ TypeOK /\ P \in Threads /\ job[P].sub = P /\ job[P].pend \subseteq Kids
        /\ job[P].todo \subseteq Subs /\ row[P].status # "waiting"
        /\ job[P].stage \in {"none", "prompt", "resume"} /\ job \in [Threads -> Job]
    BY <1>2, ParentKnows DEF At
  <1>5. d \in SUBSET Subs /\ e \in SUBSET Kids /\ e \in SUBSET Subs
    BY <1>4 DEF Subs
  <1>6. job' = [job EXCEPT ![P].todo = d, ![P].pend = e]
    BY <1>1, <1>4
  <1>7. \A j \in e : j \in job[P].pend /\ (j = k => k \notin Live)
    OBVIOUS
  <1>8. \A j \in job[P].todo : j \in d \/ j = k
    OBVIOUS
  <1> HIDE DEF d, e
  <1>9. Now(P, "exempt", P, job[P].outcome, job[P].stage, d, e)
    BY <1>2, <1>4, <1>5, <1>6, SetsTodoPend DEF At
  <1>a. Drained
    BY <1>2 DEF Invariant, Calling, At
  <1>b. Parked' /\ Calling' /\ Orphans'
    BY <1>2, <1>4, <1>9, <1>a DEF Parked, Calling, Orphans, Cascading, Now, Still, Quiet, Drained
  <1>c. Dangling'
    <2>1. ASSUME NEW j \in e, Spawned(j) PROVE j \in d \/ Over(j)
      <3>1. j \in job[P].todo \/ Over(j)
        BY <1>2, <1>7, <2>1 DEF Invariant, Dangling, At
      <3>2. j \in Children
        BY <1>5, <2>1 DEF Invariant, Spawning
      <3>3. j = k => Over(j)
        BY <1>7, <2>1, <3>2 DEF Live, Over
      <3> QED BY <1>8, <3>1, <3>3
    <2> QED BY <1>2, <1>9, <2>1 DEF Dangling, Now, Spawned, Logged, Over, Still
  <1>d. "exempt" \in ParentPcs /\ "exempt" \in Turns /\ job[P].pc \in Turns
    BY <1>2 DEF ParentPcs, Turns, At
  <1> QED BY <1>2, <1>3, <1>4, <1>5, <1>9, <1>b, <1>c, <1>d, ParentGoes DEF Now

LEMMA OpenTurnStep ==
  ASSUME Invariant, OpenTurn
  PROVE  Invariant'
  <1>1. Still /\ Quiet /\ At(P, "open") /\ job[P].pc \in ParentPcs /\ job[P].pc \in Turns
    BY Unchanging DEF OpenTurn, At, ParentPcs, Turns
  <1>2. Store({P}) /\ (row')[P] = row[P]
    BY <1>1, Quietly DEF Still
  <1>3. /\ TypeOK /\ P \in Threads /\ job[P].sub = P /\ job[P].pend \subseteq Kids
        /\ row[P].status # "waiting" /\ job[P].stage \in {"none", "prompt", "resume"} /\ Drained
    BY <1>1, ParentKnows DEF At, Invariant, Calling
  <1>4. CASE job' = [job EXCEPT ![P].pc = "drive", ![P].stage = "none"]
    <2>1. "drive" \in RunPcs /\ "none" \in Stages
      BY DEF RunPcs, Stages
    <2>2. Now(P, "drive", P, job[P].outcome, "none", job[P].todo, job[P].pend)
      BY <1>3, <1>4, <2>1, SetsPcStage
    <2>3. Parked' /\ Calling' /\ Dangling' /\ Orphans'
      BY <1>1, <1>3, <2>2 DEF Parked, Calling, Dangling, Orphans, Cascading, Now, Still
    <2>4. "drive" \in ParentPcs /\ "drive" \in Turns
      BY DEF ParentPcs, Turns
    <2> QED BY <1>1, <1>2, <1>3, <2>2, <2>3, <2>4, ParentGoes DEF Now
  <1>5. CASE job' = [job EXCEPT ![P].pc = "settle", ![P].outcome = "done"]
    <2>1. "settle" \in RunPcs /\ "done" \in Ends
      BY DEF RunPcs, Ends
    <2>2. Now(P, "settle", P, "done", job[P].stage, job[P].todo, job[P].pend)
      BY <1>3, <1>5, <2>1, SetsPcOutcome
    <2>3. Parked' /\ Calling' /\ Dangling' /\ Orphans'
      BY <1>1, <1>3, <2>2 DEF Parked, Calling, Dangling, Orphans, Cascading, Now, Still, Quiet, Drained
    <2> QED BY <1>1, <1>2, <1>3, <2>1, <2>2, <2>3, ParentGoes DEF Now
  <1> QED BY <1>4, <1>5 DEF OpenTurn

LEMMA ListSpawnedStep ==
  ASSUME Invariant, ListSpawned
  PROVE  Invariant'
  <1>1. /\ Still /\ Quiet /\ At(P, "drain") /\ Drained
        /\ job[P].pc \in ParentPcs /\ job[P].pc \in Turns
    BY Unchanging DEF ListSpawned, At, ParentPcs, Turns
  <1>2. Store({P}) /\ (row')[P] = row[P]
    BY <1>1, Quietly DEF Still
  <1>3. /\ TypeOK /\ P \in Threads /\ job[P].sub = P /\ job[P].pend \subseteq Kids
        /\ row[P].status # "waiting" /\ job[P].stage \in {"none", "prompt", "resume"}
    BY <1>1, ParentKnows DEF At
  <1>4. "repair" \in RunPcs /\ Children \in SUBSET Subs /\ Children' = Children
    BY <1>1 DEF RunPcs, Children, Subs, Still
  <1>5. job' = [job EXCEPT ![P].pc = "repair", ![P].todo = Children]
    BY DEF ListSpawned
  <1>6. Now(P, "repair", P, job[P].outcome, job[P].stage, Children, job[P].pend)
    BY <1>3, <1>4, <1>5, SetsPcTodo
  <1>7. Parked' /\ Calling' /\ Dangling' /\ Orphans'
    BY <1>1, <1>3, <1>4, <1>6
       DEF Parked, Calling, Dangling, Orphans, Cascading, Now, Still, Quiet, Drained
  <1>8. "repair" \in ParentPcs /\ "repair" \in Turns
    BY DEF ParentPcs, Turns
  <1> QED BY <1>1, <1>2, <1>3, <1>6, <1>7, <1>8, ParentGoes DEF Now

LEMMA RepairNextStep ==
  ASSUME Invariant, RepairNext
  PROVE  Invariant'
  <1>1. /\ Still /\ Quiet /\ At(P, "repair") /\ job[P].pc \in ParentPcs /\ job[P].pc \in Turns
    BY Unchanging DEF RepairNext, At, ParentPcs, Turns
  <1>2. Store({P}) /\ (row')[P] = row[P]
    BY <1>1, Quietly DEF Still
  <1>3. /\ TypeOK /\ P \in Threads /\ job[P].pend \subseteq Kids /\ job[P].todo \subseteq Subs
        /\ row[P].status # "waiting" /\ Drained /\ job \in [Threads -> Job]
    BY <1>1, ParentKnows DEF At, Invariant, Calling
  <1>4. job[P].todo \subseteq Children /\ \A k \in Children : Spawned(k) \/ k \in job[P].todo
    BY <1>1 DEF Invariant, Parked, At
  <1>5. PICK k \in job[P].todo :
          job' = [job EXCEPT ![P].pc = "spawned?", ![P].sub = k,
                             ![P].stage = "park", ![P].todo = @ \ {k}]
    BY DEF RepairNext
  <1> DEFINE d == job[P].todo \ {k}
  <1>6. /\ "spawned?" \in DutyPcs /\ "park" \in Stages /\ k \in Subs /\ d \in SUBSET Subs
        /\ k \in Kids /\ k \in Children /\ d \subseteq Children
    BY <1>3, <1>4 DEF DutyPcs, Stages, Children
  <1>7. job' = [job EXCEPT ![P].pc = "spawned?", ![P].sub = k, ![P].stage = "park", ![P].todo = d]
    BY <1>3, <1>5
  <1>8. \A j \in Children : Spawned(j) \/ j \in d \cup {k}
    BY <1>4
  <1> HIDE DEF d
  <1>9. Now(P, "spawned?", k, job[P].outcome, "park", d, job[P].pend)
    BY <1>3, <1>6, <1>7, SetsPcSubStageTodo
  <1>a. Children' = Children /\ \A j \in Kids : Spawned(j)' = Spawned(j)
    BY <1>1 DEF Children, Spawned, Logged, Still
  <1>b. Children \subseteq Kids
    BY DEF Children
  <1>c. Parked'
    BY <1>1, <1>3, <1>6, <1>8, <1>9, <1>a, <1>b DEF Parked, Now, Still
  <1>d. Calling' /\ Dangling' /\ Orphans'
    BY <1>1, <1>3, <1>9 DEF Calling, Dangling, Orphans, Cascading, Now, Still, Quiet, Drained
  <1> QED BY <1>1, <1>2, <1>3, <1>6, <1>9, <1>c, <1>d, ParentGoes DEF Now

LEMMA ParentEndsStep ==
  ASSUME Invariant, ParentEnds
  PROVE  Invariant'
  <1>1. /\ Still /\ Quiet /\ job[P].pc \in {"drive", "scan"} /\ Drained
        /\ job[P].pc \in ParentPcs /\ job[P].pc \in Turns
    BY Unchanging DEF ParentEnds, At, ParentPcs, Turns
  <1>2. Store({P}) /\ (row')[P] = row[P]
    BY <1>1, Quietly DEF Still
  <1>3. /\ TypeOK /\ P \in Threads /\ job[P].sub = P /\ job[P].pend \subseteq Kids
        /\ row[P].status # "waiting" /\ job[P].stage \in {"none", "prompt", "resume"}
    BY <1>1, ParentKnows
  <1>4. CASE job' = [job EXCEPT ![P].pc = "settle", ![P].outcome = "done"]
    <2>1. "settle" \in RunPcs /\ "done" \in Ends
      BY DEF RunPcs, Ends
    <2>2. Now(P, "settle", P, "done", job[P].stage, job[P].todo, job[P].pend)
      BY <1>3, <1>4, <2>1, SetsPcOutcome
    <2>3. Parked' /\ Calling' /\ Dangling' /\ Orphans'
      BY <1>1, <1>3, <2>2 DEF Parked, Calling, Dangling, Orphans, Cascading, Now, Still, Quiet, Drained
    <2> QED BY <1>1, <1>2, <1>3, <2>1, <2>2, <2>3, ParentGoes DEF Now
  <1>5. CASE Goto(P, "back off")
    <2>1. "back off" \in RunPcs
      BY DEF RunPcs
    <2>2. Now(P, "back off", P, job[P].outcome, job[P].stage, job[P].todo, job[P].pend)
      BY <1>3, <1>5, <2>1, Goes
    <2>3. Parked' /\ Calling' /\ Dangling' /\ Orphans'
      BY <1>1, <1>3, <2>2 DEF Parked, Calling, Dangling, Orphans, Cascading, Now, Still, Quiet, Drained
    <2> QED BY <1>1, <1>2, <1>3, <2>2, <2>3, ParentGoes DEF Now
  <1> QED BY <1>4, <1>5 DEF ParentEnds

LEMMA ListOrphansStep ==
  ASSUME Invariant, ListOrphans
  PROVE  Invariant'
  <1>1. /\ Still /\ Quiet /\ At(P, "orphans") /\ job[P].pc \in ParentPcs /\ job[P].pc \notin Turns
    BY Unchanging DEF ListOrphans, At, ParentPcs, Turns
  <1>2. Store({P}) /\ (row')[P] = row[P]
    BY <1>1, Quietly DEF Still
  <1>3. /\ TypeOK /\ P \in Threads /\ job[P].sub = P /\ job[P].pend \subseteq Kids
        /\ row[P].status # "waiting" /\ job[P].stage \in {"none", "prompt", "resume"} /\ Drained
    BY <1>1, ParentKnows DEF At, Invariant, Calling
  <1>4. "cascade" \in RunPcs /\ Live \in SUBSET Subs /\ Live \subseteq Kids /\ Live' = Live
    BY <1>1 DEF RunPcs, Live, Children, Subs, Still
  <1>5. job' = [job EXCEPT ![P].pc = "cascade", ![P].todo = Live]
    BY DEF ListOrphans
  <1>6. Now(P, "cascade", P, job[P].outcome, job[P].stage, Live, job[P].pend)
    BY <1>3, <1>4, <1>5, SetsPcTodo
  <1>7. Parked' /\ Calling' /\ Dangling' /\ Orphans'
    BY <1>1, <1>3, <1>4, <1>6
       DEF Parked, Calling, Dangling, Orphans, Cascading, Now, Still, Quiet, Drained
  <1>8. "cascade" \in ParentPcs /\ "cascade" \notin Turns
    BY DEF ParentPcs, Turns
  <1> QED BY <1>1, <1>2, <1>3, <1>6, <1>7, <1>8, ParentGoes DEF Now

LEMMA CascadeEndsStep ==
  ASSUME Invariant, CascadeEnds
  PROVE  Invariant'
  <1>1. /\ Still /\ Quiet /\ At(P, "cascade") /\ job[P].pc \in ParentPcs /\ job[P].pc \notin Turns
    BY Unchanging DEF CascadeEnds, At, ParentPcs, Turns
  <1>2. Store({P}) /\ (row')[P] = row[P]
    BY <1>1, Quietly DEF Still
  <1>3. TypeOK /\ P \in Subs /\ row[P].status # "waiting" /\ Drained
    BY <1>1, ParentKnows DEF At, Invariant, Calling
  <1>4. Now(P, "idle", P, "none", "none", {}, {})
    BY <1>3, Idles DEF CascadeEnds
  <1>5. Parked' /\ Calling' /\ Dangling' /\ Orphans'
    BY <1>1, <1>3, <1>4 DEF Parked, Calling, Dangling, Orphans, Cascading, Now, Still, Quiet, Drained
  <1>6. "idle" \notin Turns
    BY DEF Turns
  <1> QED BY <1>1, <1>2, <1>4, <1>5, <1>6, ParentGoes DEF Now

LEMMA SynthesizeOutcomesStep ==
  ASSUME Invariant, SynthesizeOutcomes
  PROVE  Invariant'
  <1>1. /\ row' = row /\ settled' = settled /\ lapsed' = lapsed /\ Quiet
        /\ At(P, "exempt") /\ job[P].pc \in ParentPcs /\ job[P].pc \in Turns
    BY DEF SynthesizeOutcomes, turn, Quiet, At, ParentPcs, Turns
  <1>2. /\ TypeOK /\ P \in Threads /\ job[P].sub = P /\ job[P].pend \subseteq Kids
        /\ row[P].status # "waiting" /\ job[P].stage \in {"none", "prompt", "resume"} /\ Drained
    BY <1>1, ParentKnows DEF At, Invariant, Calling
  <1>3. Logs
    <2>1. Wrote(job[P].pend, "dangling")
      BY DEF SynthesizeOutcomes, Wrote
    <2>2. \A k \in job[P].pend : Spawned(k) => Over(k)
      BY <1>1 DEF Invariant, Dangling, At, SynthesizeOutcomes
    <2>3. Allowed(job[P].pend, "dangling") /\ "dangling" \in Records
      BY <2>2 DEF Allowed, Records, Answers
    <2> QED BY <1>2, <2>1, <2>3 DEF Logs
  <1>4. Store({P}) /\ (row')[P] = row[P]
    BY <1>1, <1>2, <1>3 DEF Store, Rows, Settles, Talks, Others, Quiet, TypeOK
  <1>5. "open" \in RunPcs /\ {} \in SUBSET Subs
    BY DEF RunPcs
  <1>6. job' = [job EXCEPT ![P].pc = "open", ![P].pend = {}]
    BY DEF SynthesizeOutcomes
  <1>7. Now(P, "open", P, job[P].outcome, job[P].stage, job[P].todo, {})
    BY <1>2, <1>5, <1>6, SetsPcPend
  <1>8. Parked' /\ Calling' /\ Dangling' /\ Orphans'
    BY <1>1, <1>2, <1>7 DEF Parked, Calling, Dangling, Orphans, Cascading, Now, Quiet, Drained
  <1>9. "open" \in ParentPcs /\ "open" \in Turns
    BY DEF ParentPcs, Turns
  <1> QED BY <1>1, <1>2, <1>4, <1>7, <1>8, <1>9, ParentGoes DEF Now

(* The agent's events, and what of them the channel keeps. *)
Heard == {"call", "spawn", "rejected"} \X Kids

Spawns(evs, C) == \A i \in 1 .. Len(evs) : evs[i][1] = "spawn" => evs[i][2] \in C

LEMMA Emitted ==
  ASSUME NEW C, events \in Seq(Heard), Spawns(events, C), NEW evs \in Seq(Heard),
         Spawns(evs, C), Emit(evs)
  PROVE  events' \in Seq(Heard) /\ Spawns(events', C)
  <1>1. PICK kept \in Kept(evs) : events' = events \o kept
    BY DEF Emit
  <1>2. kept \in Seq(Heard) /\ Spawns(kept, C)
    <2>1. CASE kept = evs
      BY <2>1
    <2>0. CASE kept = <<>>
      BY <2>0 DEF Spawns
    <2>2. ASSUME NEW j \in 1 .. Len(evs), kept = <<evs[j]>>
          PROVE  kept \in Seq(Heard) /\ Spawns(kept, C)
      <3>1. evs[j] \in Heard
        OBVIOUS
      <3>2. Len(<<evs[j]>>) = 1 /\ <<evs[j]>>[1] = evs[j] /\ <<evs[j]>> \in Seq(Heard)
        BY <3>1
      <3> QED BY <2>2, <3>2 DEF Spawns
    <2> QED BY <2>0, <2>1, <2>2 DEF Kept
  <1>3. events \o kept \in Seq(Heard) /\ Len(events \o kept) = Len(events) + Len(kept)
    BY <1>2
  <1>4. ASSUME NEW i \in 1 .. Len(events \o kept), (events \o kept)[i][1] = "spawn"
        PROVE  (events \o kept)[i][2] \in C
    <2>1. CASE i \in 1 .. Len(events)
      <3>1. (events \o kept)[i] = events[i]
        BY <1>2, <2>1
      <3> QED BY <1>4, <2>1, <3>1 DEF Spawns
    <2>2. CASE i \notin 1 .. Len(events)
      <3>1. /\ (events \o kept)[i] = kept[i - Len(events)]
            /\ i - Len(events) \in 1 .. Len(kept)
        BY <1>2, <1>3, <2>2
      <3> QED BY <1>2, <1>4, <3>1 DEF Spawns
    <2> QED BY <2>1, <2>2
  <1> QED BY <1>1, <1>3, <1>4 DEF Spawns

(* What it keeps is a move of the parent. *)
LEMMA Speaks ==
  ASSUME Invariant, NEW evs \in Seq(Heard), Spawns(evs, Children'),
         Children \subseteq Children', author' = author,
         Emit(evs) \/ events' = events,
         called' \subseteq Kids, Children' \subseteq called'
  PROVE  Talks({P})
  <1>1. /\ events \in Seq(Heard) /\ Spawns(events, Children') /\ author \subseteq Children'
    <2>1. \A k \in Kids : k \in author => k \in Children
      BY DEF Invariant, Spawning
    <2>2. author \subseteq Kids /\ events \in Seq(Heard)
      BY DEF Invariant, TypeOK, Heard
    <2>3. Spawns(events, Children)
      BY DEF Invariant, Spawning, Spawns
    <2> QED BY <2>1, <2>2, <2>3 DEF Spawns
  <1>2. events' \in Seq(Heard) /\ Spawns(events', Children')
    <2>1. CASE events' = events
      BY <1>1, <2>1
    <2>2. CASE Emit(evs)
      <3> DEFINE C == Children'
      <3> HIDE DEF C
      <3>1. events' \in Seq(Heard) /\ Spawns(events', C)
        BY <1>1, <2>2, Emitted DEF C
      <3> QED BY <3>1 DEF C
    <2> QED BY <2>1, <2>2
  <1> QED BY <1>1, <1>2 DEF Talks, Heard, Spawns

LEMMA CallTasksStep ==
  ASSUME Invariant, CallTasks
  PROVE  Invariant'
  <1>1. /\ Still /\ events' = events /\ author' = author /\ suspended' = FALSE
        /\ parkedLate' = parkedLate /\ nudge' = nudge /\ crashes' = crashes
        /\ At(P, "drive") /\ Drained
        /\ job[P].pc \in ParentPcs /\ job[P].pc \in Turns
    BY DEF CallTasks, store, Still, At, ParentPcs, Turns
  <1>2. /\ TypeOK /\ P \in Threads /\ job[P].sub = P /\ job[P].pend \subseteq Kids
        /\ row[P].status # "waiting" /\ job[P].stage \in {"none", "prompt", "resume"}
    BY <1>1, ParentKnows DEF At
  <1>3. PICK batch \in SUBSET (Kids \ called) :
          /\ called' = called \cup batch
          /\ job' = [job EXCEPT ![P].pc = "tools", ![P].todo = batch]
    BY DEF CallTasks
  <1>4. called \subseteq Kids /\ Children \subseteq called /\ Children' = Children
    BY <1>1 DEF Invariant, TypeOK, Spawning, Children, Still
  <1>5. Store({P}) /\ (row')[P] = row[P]
    <2>1. <<>> \in Seq(Heard) /\ Spawns(<<>>, Children')
      BY DEF Spawns
    <2>2. Talks({P})
      BY <1>1, <1>3, <1>4, <2>1, Speaks
    <2> QED BY <1>1, <1>2, <2>2, LogSame DEF Store, Rows, Settles, Others, Still, TypeOK
  <1>6. "tools" \in RunPcs /\ batch \in SUBSET Subs
    BY <1>3 DEF RunPcs, Subs
  <1>7. Now(P, "tools", P, job[P].outcome, job[P].stage, batch, job[P].pend)
    BY <1>2, <1>3, <1>6, SetsPcTodo
  <1>8. Calling'
    BY <1>3, <1>4, <1>7 DEF Calling, Now
  <1>9. Parked' /\ Dangling' /\ Orphans'
    BY <1>1, <1>2, <1>7 DEF Parked, Dangling, Orphans, Cascading, Now, Still
  <1>a. "tools" \in ParentPcs /\ "tools" \in Turns
    BY DEF ParentPcs, Turns
  <1> QED BY <1>1, <1>2, <1>5, <1>7, <1>8, <1>9, <1>a, ParentGoes DEF Now

LEMMA ExecuteTaskStep ==
  ASSUME Invariant, ExecuteTask
  PROVE  Invariant'
  <1>1. /\ Still /\ author' = author /\ suspended' = suspended /\ called' = called
        /\ parkedLate' = parkedLate /\ nudge' = nudge /\ crashes' = crashes
        /\ At(P, "tools")
        /\ job[P].pc \in ParentPcs /\ job[P].pc \in Turns
    BY DEF ExecuteTask, store, Still, At, ParentPcs, Turns
  <1>2. /\ TypeOK /\ P \in Threads /\ job[P].sub = P /\ job[P].pend \subseteq Kids
        /\ row[P].status # "waiting" /\ job[P].stage \in {"none", "prompt", "resume"}
        /\ job \in [Threads -> Job] /\ job[P].todo \subseteq Subs
    BY <1>1, ParentKnows DEF At
  <1>3. job[P].todo \subseteq called \ Children
    BY <1>1 DEF Invariant, Calling, At
  <1>4. called \subseteq Kids /\ Children \subseteq called /\ Children' = Children
    BY <1>1 DEF Invariant, TypeOK, Spawning, Children, Still
  <1>5. PICK k \in job[P].todo :
          \/ /\ Emit(<< <<"call", k>>, <<"rejected", k>> >>)
             /\ job' = [job EXCEPT ![P].todo = @ \ {k},
                                   ![P].pc = AfterCall(job[P].todo \ {k}, suspended)]
          \/ /\ Emit(<< <<"call", k>> >>)
             /\ job' = [job EXCEPT ![P].todo = @ \ {k}, ![P].pc = "dispatch", ![P].sub = k]
    BY DEF ExecuteTask
  <1> DEFINE d == job[P].todo \ {k}
             p == AfterCall(d, suspended)
  <1>6. /\ k \in Kids /\ d \in SUBSET Subs /\ k \in called \ (Children \cup d)
        /\ d \subseteq called \ Children
        /\ p \in {"tools", "drain", "drive"} /\ p \in RunPcs /\ "dispatch" \in RunPcs
    BY <1>2, <1>3, <1>4 DEF RunPcs, AfterCall
  <1>7. ASSUME NEW evs \in Seq(Heard), Spawns(evs, Children'), Emit(evs)
        PROVE  Store({P}) /\ (row')[P] = row[P]
    <2>1. Talks({P})
      BY <1>1, <1>4, <1>7, Speaks
    <2> QED BY <1>1, <1>2, <2>1, LogSame DEF Store, Rows, Settles, Others, Still, TypeOK
  <1>8. CASE Emit(<< <<"call", k>>, <<"rejected", k>> >>)
             /\ job' = [job EXCEPT ![P].todo = d, ![P].pc = p]
    <2>1. << <<"call", k>>, <<"rejected", k>> >> \in Seq(Heard)
      BY <1>6 DEF Heard
    <2>2. Spawns(<< <<"call", k>>, <<"rejected", k>> >>, Children')
      BY DEF Spawns
    <2>3. Store({P}) /\ (row')[P] = row[P]
      BY <1>7, <1>8, <2>1, <2>2
    <2> HIDE DEF d, p
    <2>4. Now(P, p, P, job[P].outcome, job[P].stage, d, job[P].pend)
      <3>1. job' = [job EXCEPT ![P].todo = d, ![P].pc = p]
        BY <1>8
      <3>2. p \in RunPcs \cup DutyPcs \cup LoopPcs /\ d \in SUBSET Subs
        BY <1>6
      <3>3. Now(P, p, job[P].sub, job[P].outcome, job[P].stage, d, job[P].pend)
        BY <1>2, <3>1, <3>2, SetsTodoPc
      <3> QED BY <1>2, <3>3
    <2>5. Calling'
      BY <1>1, <1>4, <1>6, <2>4 DEF Calling, Now
    <2>6. Parked' /\ Dangling' /\ Orphans'
      BY <1>1, <1>2, <1>6, <2>4 DEF Parked, Dangling, Orphans, Cascading, Now, Still
    <2>7. p \in ParentPcs /\ p \in Turns
      BY <1>6 DEF ParentPcs, Turns
    <2> QED BY <1>1, <1>2, <1>6, <2>3, <2>4, <2>5, <2>6, <2>7, ParentGoes DEF Now
  <1>9. CASE Emit(<< <<"call", k>> >>)
             /\ job' = [job EXCEPT ![P].todo = d, ![P].pc = "dispatch", ![P].sub = k]
    <2>1. << <<"call", k>> >> \in Seq(Heard)
      BY <1>6 DEF Heard
    <2>2. Spawns(<< <<"call", k>> >>, Children')
      BY DEF Spawns
    <2>3. Store({P}) /\ (row')[P] = row[P]
      BY <1>7, <1>9, <2>1, <2>2
    <2>k. k \in Subs
      BY <1>6 DEF Subs
    <2> HIDE DEF d, p
    <2>4. Now(P, "dispatch", k, job[P].outcome, job[P].stage, d, job[P].pend)
      BY <1>2, <1>6, <1>9, <2>k, SetsTodoPcSub
    <2>5. Calling'
      BY <1>1, <1>4, <1>6, <2>4 DEF Calling, Now
    <2>6. Parked' /\ Dangling' /\ Orphans'
      BY <1>1, <1>2, <2>4 DEF Parked, Dangling, Orphans, Cascading, Now, Still
    <2>7. "dispatch" \in ParentPcs /\ "dispatch" \in Turns
      BY DEF ParentPcs, Turns
    <2> QED BY <1>1, <1>2, <1>6, <2>3, <2>4, <2>5, <2>6, <2>7, ParentGoes DEF Now
  <1> QED BY <1>2, <1>5, <1>8, <1>9

LEMMA DispatchChildStep ==
  ASSUME Invariant, DispatchChild
  PROVE  Invariant'
  <1>1. /\ log' = log /\ settled' = settled /\ lapsed' = lapsed /\ author' = author
        /\ suspended' = TRUE /\ nudge' = TRUE /\ called' = called
        /\ parkedLate' = parkedLate /\ crashes' = crashes
        /\ At(P, "dispatch")
        /\ job[P].pc \in ParentPcs /\ job[P].pc \in Turns
    BY DEF DispatchChild, At, ParentPcs, Turns
  <1>2. /\ TypeOK /\ P \in Threads /\ P \in Subs /\ P \notin Kids /\ job[P].pend \subseteq Kids
        /\ row[P].status # "waiting" /\ job[P].stage \in {"none", "prompt", "resume"}
        /\ job \in [Threads -> Job] /\ row \in [Subs -> Row] /\ job[P].todo \subseteq Subs
    BY <1>1, ParentKnows
  <1> DEFINE k == job[P].sub
             p == AfterCall(job[P].todo, TRUE)
  <1>3. k \in called /\ k \notin Children /\ k \notin job[P].todo
        /\ job[P].todo \subseteq called \ Children
    <2>1. job[P].pc \in {"tools", "dispatch"}
      BY <1>1 DEF At
    <2> QED BY <1>1, <2>1 DEF Invariant, Calling, At
  <1>4. called \subseteq Kids /\ Children \subseteq called
    BY DEF Invariant, TypeOK, Spawning
  <1>5. k \in Kids /\ k \in Subs /\ row[k].status = "absent" /\ k # P
    BY <1>2, <1>3, <1>4 DEF Children, Subs
  <1>6. Becomes(k, "queued", FALSE, FALSE)
    <2>1. row' = [row EXCEPT ![k] = NewRow("queued")]
      BY DEF DispatchChild
    <2>2. NewRow("queued") \in Row /\ NewRow("queued").status = "queued"
          /\ NewRow("queued").flag = FALSE /\ NewRow("queued").leased = FALSE
      BY DEF NewRow, Row, Statuses
    <2> HIDE DEF k
    <2> QED BY <1>2, <1>5, <2>1, <2>2 DEF Becomes
  <1>7. Rows({P})
    BY <1>1, <1>5, <1>6 DEF Rows, Admits
  <1>8. (row')[P] = row[P] /\ \A j \in Subs \ {k} : (row')[j] = row[j]
    BY <1>2, <1>5, <1>6 DEF Becomes
  <1>9. Children' = Children \cup {k}
    <2>1. (row')[k].status = "queued"
      BY <1>6 DEF Becomes
    <2> HIDE DEF k
    <2> QED BY <1>5, <1>8, <2>1 DEF Children, Subs
  <1>a. Talks({P})
    <2>1. Emit(<< <<"spawn", k>> >>)
      BY DEF DispatchChild
    <2>2. << <<"spawn", k>> >> \in Seq(Heard) /\ Spawns(<< <<"spawn", k>> >>, Children')
      BY <1>5, <1>9 DEF Heard, Spawns
    <2>3. called' \subseteq Kids /\ Children' \subseteq called' /\ Children \subseteq Children'
      BY <1>1, <1>3, <1>4, <1>9
    <2> HIDE DEF k
    <2> QED BY <1>1, <2>1, <2>2, <2>3, Speaks
  <1>b. Store({P})
    <2>1. Logs /\ Settles({P})
      BY <1>1, <1>2, LogSame DEF Settles
    <2>2. Others({P})
      BY <1>1, <1>2 DEF Others, TypeOK
    <2> QED BY <1>7, <1>a, <2>1, <2>2 DEF Store
  <1>c. p \in {"tools", "drain"} /\ p \in RunPcs
    BY DEF AfterCall, RunPcs
  <1> HIDE DEF k, p
  <1>d. Now(P, p, P, job[P].outcome, job[P].stage, job[P].todo, job[P].pend)
    <2>1. job' = [job EXCEPT ![P].pc = p, ![P].sub = P]
      BY DEF DispatchChild, p
    <2> QED BY <1>2, <1>c, <2>1, SetsPcSub
  <1>e. Calling'
    BY <1>1, <1>3, <1>9, <1>c, <1>d DEF Calling, Now
  <1>f. Parked' /\ Dangling' /\ Orphans'
    BY <1>2, <1>8, <1>c, <1>d DEF Parked, Dangling, Orphans, Cascading, Now
  <1>g. p \in ParentPcs /\ p \in Turns
    BY <1>c DEF ParentPcs, Turns
  <1> QED BY <1>1, <1>2, <1>8, <1>b, <1>c, <1>d, <1>e, <1>f, <1>g, ParentGoes DEF Now

LEMMA WaitSubmissionStep ==
  ASSUME Invariant, WaitSubmission
  PROVE  Invariant'
  <1>1. /\ log' = log /\ settled' = settled /\ lapsed' = lapsed /\ author' = author
        /\ suspended' = FALSE /\ nudge' = nudge /\ called' = called /\ events' = events
        /\ parkedLate' = (Live = {}) /\ crashes' = crashes
        /\ At(P, "repair") /\ job[P].todo = {}
        /\ job[P].pc \in ParentPcs /\ job[P].pc \in Turns
    BY DEF WaitSubmission, At, ParentPcs, Turns
  <1>2. /\ TypeOK /\ P \in Threads /\ P \in Subs /\ P # Loop /\ P \notin Kids
        /\ row[P].status = "running" /\ row \in [Subs -> Row]
    BY <1>1, ParentKnows
  <1>3. Becomes(P, "waiting", row[P].flag, FALSE)
    <2>1. row' = [row EXCEPT ![P].status = "waiting", ![P].resume = TRUE, ![P].leased = FALSE]
      BY <1>2 DEF WaitSubmission
    <2>2. "waiting" \in Statuses
      BY DEF Statuses
    <2> QED BY <1>2, <2>1, <2>2 DEF Becomes, Row
  <1>4. Rows({P})
    BY <1>1, <1>2, <1>3 DEF Rows, Parks
  <1>5. Store({P})
    <2>1. Logs /\ Settles({P})
      BY <1>1, <1>2, LogSame DEF Settles
    <2>2. Others({P})
      BY <1>1, <1>2 DEF Others, TypeOK
    <2> QED BY <1>1, <1>4, <2>1, <2>2 DEF Store, Talks
  <1>6. Now(P, "idle", P, "none", "none", {}, {})
    BY <1>2, Idles DEF WaitSubmission
  <1>7. (row')[P].status = "waiting" /\ \A j \in Subs \ {P} : (row')[j] = row[j]
    BY <1>3 DEF Becomes
  <1>8. Placed(P)' /\ Staged(P)'
    BY <1>2, <1>6 DEF Now, Placed, Staged, Duties, Notes
  <1>9. RowHeld(P)' /\ Telling(P)'
    BY <1>6 DEF Now, RowHeld, Telling, Working, Turns, Notes
  <1>a. Starts(P) /\ Drives(P) /\ Reaches(P) /\ WakesOn(P)
    BY <1>1, <1>2, <1>6 DEF Now, Starts, Drives, Reaches, WakesOn, Settling, At
  <1>b. Works(P)
    BY <1>2, <1>6, <1>7 DEF Now, Works
  <1>c. Parked'
    <2>1. \A k \in Children : Spawned(k)
      BY <1>1 DEF Invariant, Parked, At
    <2>2. Children' = Children
      BY <1>2, <1>7 DEF Children, Subs
    <2>3. \A k \in Kids : Spawned(k)' = Spawned(k)
      BY <1>1 DEF Spawned, Logged
    <2>4. Children \subseteq Kids
      BY DEF Children
    <2> QED BY <1>6, <2>1, <2>2, <2>3, <2>4 DEF Parked, Now
  <1>d. Drained
    BY <1>1 DEF Invariant, Calling, At
  <1>e. Calling' /\ Dangling' /\ Orphans'
    BY <1>1, <1>6, <1>d DEF Calling, Dangling, Orphans, Cascading, Drained, Now
  <1>f. Does(P)
    BY <1>2, <1>8, <1>9, <1>a, <1>b, <1>c, <1>e DEF Does, View
  <1> QED BY <1>1, <1>2, <1>5, <1>6, <1>f, Alone DEF Now, At

----------------------------------------------------------------------------
(* Cancellation, by the parent and by the loop. *)

LEMMA CascadeGoes ==
  ASSUME Invariant, Store({P}), (row')[P] = row[P], job[P].pc \in {"cascade", "interrupt"},
         job' \in [Threads -> Job], \A u \in Threads \ {P} : Like(u),
         (job')[P].pc \in {"cascade", "interrupt", "check"}, (job')[P].pend = job[P].pend,
         IF (job')[P].pc = "cascade" THEN (job')[P].sub = P ELSE (job')[P].sub \in Kids,
         (job')[P].pc # "check" => (job')[P].stage = job[P].stage,
         (job')[P].pc = "check" =>
           /\ (job')[P].stage = "direct" /\ (job')[P].outcome \in Ends
           /\ row[(job')[P].sub].status = "queued"
           /\ (row')[(job')[P].sub].status = "settled",
         At(P, "interrupt") => (At(job[P].sub, "drive") => (job')[job[P].sub].cut),
         events' = events, author' = author, Orphans'
  PROVE  Invariant'
  <1> DEFINE p == (job')[P].pc
             s == (job')[P].sub
             g == (job')[P].stage
  <1>1. /\ P \in Threads /\ P \in Subs /\ P \notin Kids /\ P # Loop
        /\ Placed(P) /\ Staged(P) /\ CrashFree /\ Drained /\ row[P].status # "waiting"
    BY SubagentsAssumption DEF Invariant, View, Threads, Subs, Calling, Parked
  <1>2. job[P].stage \in {"none", "prompt", "resume"} /\ job[P].pend \subseteq Kids
    BY <1>1 DEF Staged, Placed, Duties, Notes
  <1>3. ~Working(P)
    BY <1>2 DEF Working, Turns
  <1>4. ~Working(P)'
    BY <1>2 DEF Working, Turns
  <1>5. Placed(P)'
    BY <1>1, <1>2 DEF Placed, Duties, Notes
  <1>6. Staged(P)'
    BY <1>2 DEF Staged, Duties, Notes
  <1>7. RowHeld(P)' /\ Telling(P)'
    BY <1>2, <1>4 DEF RowHeld, Telling, Notes
  <1>8. Starts(P) /\ Drives(P) /\ Reaches(P) /\ WakesOn(P)
    BY <1>1 DEF Starts, Drives, Reaches, WakesOn, Settling, At
  <1>9. Works(P)
    BY <1>1, <1>2, <1>3 DEF Works, CrashFree
  <1>a. Parked' /\ Calling' /\ Dangling'
    BY <1>1, <1>2 DEF Parked, Calling, Dangling, Drained
  <1>b. Does(P)
    BY <1>1, <1>5, <1>6, <1>7, <1>8, <1>9, <1>a DEF Does, View
  <1> QED BY <1>1, <1>b, Alone

(* What the loop knows between its duties. *)
LoopOwn == LoopPcs \cup {"interrupt"}

LEMMA LoopKnows ==
  ASSUME Invariant, job[Loop].pc \in LoopOwn
  PROVE  /\ TypeOK /\ Loop \in Threads /\ Loop \notin Subs /\ P \in Subs /\ P \notin Kids
         /\ job \in [Threads -> Job] /\ row \in [Subs -> Row]
         /\ job[Loop].stage \in {"none", "prompt", "resume"}
         /\ job[Loop].pend \subseteq Kids /\ job[Loop].todo \subseteq Subs
         /\ LoopAlone /\ Backstop
  <1>1. /\ TypeOK /\ Loop \in Threads /\ Loop \notin Subs /\ P \in Subs /\ P \notin Kids
        /\ Placed(Loop) /\ Staged(Loop) /\ LoopAlone /\ Backstop
    BY SubagentsAssumption DEF Invariant, View, Threads, Subs
  <1>2. job[Loop].pc \notin Duties
    BY DEF LoopOwn, LoopPcs, Duties, Notes
  <1>3. job[Loop].stage \in {"none", "prompt", "resume"}
    BY <1>1, <1>2 DEF Staged
  <1>4. job \in [Threads -> Job] /\ row \in [Subs -> Row] /\ job[Loop].pend \subseteq Kids
    BY <1>1 DEF TypeOK, Placed
  <1> QED BY <1>1, <1>3, <1>4, Typed

LEMMA LoopPasses ==
  ASSUME Invariant, Store({Loop}), job[Loop].pc \in LoopOwn, (job')[Loop].pc \in LoopOwn,
         job' \in [Threads -> Job], \A u \in Threads \ {Loop} : Like(u),
         (job')[Loop].pc \in {"interrupt", "cancelled"} => (job')[Loop].sub \in Kids,
         (job')[Loop].stage = job[Loop].stage, (job')[Loop].pend \subseteq Kids,
         crashes = 0 => /\ (job')[Loop].pc # "cancelled"
                        /\ (job')[Loop].pc \in {"reconcile", "release"} => (job')[Loop].todo = {},
         At(Loop, "interrupt") => (At(job[Loop].sub, "drive") => (job')[job[Loop].sub].cut),
         LoopAlone', Backstop'
  PROVE  Invariant'
  <1>1. /\ Loop \in Threads /\ Loop \notin Subs /\ Loop \notin Kids /\ Loop # P
        /\ job[Loop].stage \in {"none", "prompt", "resume"}
    BY LoopKnows DEF Subs
  <1>2. (job')[Loop].pc \notin Duties /\ (job')[Loop].pc \notin {"idle", "settle", "dispatch"}
        /\ (job')[Loop].pc \notin Notes
    BY DEF LoopOwn, LoopPcs, Duties, Notes
  <1>3. Placed(Loop)'
    BY <1>1, <1>2 DEF Placed, LoopOwn
  <1>4. Staged(Loop)'
    BY <1>1, <1>2 DEF Staged
  <1>5. RowHeld(Loop)' /\ Telling(Loop)'
    BY <1>1, <1>2 DEF RowHeld, Telling, Duties, Notes
  <1>6. Starts(Loop) /\ Drives(Loop) /\ Reaches(Loop) /\ WakesOn(Loop)
    BY <1>1, <1>2 DEF Starts, Drives, Reaches, WakesOn, Settling, Duties
  <1>7. Works(Loop)
    BY <1>1 DEF Works
  <1>8. Does(Loop)
    BY <1>1, <1>3, <1>4, <1>5, <1>6, <1>7 DEF Does, View
  <1> QED BY <1>1, <1>8, Alone

LEMMA CancelChildParent ==
  ASSUME Invariant, CancelChild(P)
  PROVE  Invariant'
  <1>1. /\ TypeOK /\ P \in Threads /\ P \in Subs /\ P # Loop /\ P \notin Kids
        /\ job \in [Threads -> Job] /\ row \in [Subs -> Row] /\ Placed(P)
    BY SubagentsAssumption DEF Invariant, View, TypeOK, Threads, Subs
  <1>2. At(P, "cascade")
    BY <1>1 DEF CancelChild, Placed, At, Turns, Duties, Notes
  <1>3. /\ job[P].todo \subseteq Kids
        /\ \A k \in Live : k \in job[P].todo \/ row[k].flag \/ Terminal(k)
    BY <1>2 DEF Invariant, Orphans, Cascading, At
  <1>4. job[P].sub = P /\ job[P].pend \subseteq Kids
    BY <1>1, <1>2 DEF Placed, At, Duties, Notes
  <1>5. PICK k \in job[P].todo :
          LET rest == [job[P] EXCEPT !.todo = @ \ {k}]
          IN \/ /\ row[k].status = "queued"
                /\ SetStatus(k, "settled")
                /\ job' = [job EXCEPT ![P] = [rest EXCEPT !.pc = "check", !.sub = k,
                                                !.stage = "direct", !.outcome = "cancelled"]]
             \/ /\ row[k].status = "running"
                /\ row' = [row EXCEPT ![k].flag = TRUE]
                /\ job' = [job EXCEPT ![P] = [rest EXCEPT !.pc = "interrupt", !.sub = k]]
             \/ /\ Terminal(k)
                /\ job' = [job EXCEPT ![P] = rest]
                /\ UNCHANGED row
    BY <1>1 DEF CancelChild
  <1> DEFINE d == job[P].todo \ {k}
  <1>6. k \in Kids /\ k \in Subs /\ k # P /\ d \subseteq Kids /\ d \subseteq Subs
    BY <1>1, <1>3 DEF Subs
  <1>7. UNCHANGED <<log, settled, lapsed, turn, nudge, crashes>>
    BY DEF CancelChild
  <1>8. \A j \in Live : j \in d \/ j = k \/ row[j].flag \/ Terminal(j)
    BY <1>3
  <1>9. job[P] \in Job
    BY <1>1
  <1>a. CASE /\ row[k].status = "queued" /\ SetStatus(k, "settled")
             /\ job' = [job EXCEPT ![P] = [[job[P] EXCEPT !.todo = @ \ {k}]
                          EXCEPT !.pc = "check", !.sub = k,
                                 !.stage = "direct", !.outcome = "cancelled"]]
    <2> DEFINE r == [[job[P] EXCEPT !.todo = @ \ {k}]
                       EXCEPT !.pc = "check", !.sub = k, !.stage = "direct", !.outcome = "cancelled"]
    <2>1. /\ r \in Job /\ r.pc = "check" /\ r.sub = k /\ r.stage = "direct"
          /\ r.outcome = "cancelled" /\ r.todo = d /\ r.pend = job[P].pend
      BY <1>6, <1>9 DEF Job, DutyPcs, Stages, Ends
    <2>2. job' = [job EXCEPT ![P] = r]
      BY <1>a
    <2> HIDE DEF r, d
    <2>3. Now(P, "check", k, "cancelled", "direct", d, job[P].pend)
      BY <1>1, <2>1, <2>2 DEF Now, Like
    <2>4. Becomes(k, "settled", row[k].flag, row[k].leased)
      BY <1>1, <1>6, <1>a, SetStatusIs DEF Statuses
    <2>5. Rows({P})
      BY <1>6, <1>a, <2>4 DEF Rows, Cancels
    <2>6. Store({P}) /\ Quiet
      BY <1>1, <1>7, <2>5, OneRow
    <2>7. (row')[k].status = "settled" /\ \A j \in Subs \ {k} : (row')[j] = row[j]
      BY <2>4 DEF Becomes
    <2>8. Orphans'
      <3>1. \A j \in Live' : j \in Live /\ j # k /\ (row')[j] = row[j]
        BY <1>6, <2>7 DEF Live, Children, Subs
      <3> QED BY <1>6, <1>8, <2>3, <3>1 DEF Orphans, Now, Terminal
    <2>9. "cancelled" \in Ends
      BY DEF Ends
    <2> QED BY <1>1, <1>2, <1>6, <1>a, <2>3, <2>6, <2>7, <2>8, <2>9, CascadeGoes
            DEF Now, At, Quiet
  <1>b. CASE /\ row[k].status = "running" /\ row' = [row EXCEPT ![k].flag = TRUE]
             /\ job' = [job EXCEPT ![P] = [[job[P] EXCEPT !.todo = @ \ {k}]
                                             EXCEPT !.pc = "interrupt", !.sub = k]]
    <2> DEFINE r == [[job[P] EXCEPT !.todo = @ \ {k}] EXCEPT !.pc = "interrupt", !.sub = k]
    <2>1. /\ r \in Job /\ r.pc = "interrupt" /\ r.sub = k /\ r.stage = job[P].stage
          /\ r.outcome = job[P].outcome /\ r.todo = d /\ r.pend = job[P].pend
      BY <1>6, <1>9 DEF Job, DutyPcs
    <2>2. job' = [job EXCEPT ![P] = r]
      BY <1>b
    <2> HIDE DEF r, d
    <2>3. Now(P, "interrupt", k, job[P].outcome, job[P].stage, d, job[P].pend)
      BY <1>1, <2>1, <2>2 DEF Now, Like
    <2>4. Becomes(k, "running", TRUE, row[k].leased)
      BY <1>1, <1>6, <1>b DEF Becomes, Row
    <2>5. Rows({P})
      BY <1>6, <1>1, <1>b, <2>3, <2>4 DEF Rows, Flags, Now
    <2>6. Store({P}) /\ Quiet
      BY <1>1, <1>7, <2>5, OneRow
    <2>7. /\ (row')[k].flag /\ (row')[k].status = row[k].status
          /\ \A j \in Subs \ {k} : (row')[j] = row[j]
      BY <1>b, <2>4 DEF Becomes
    <2>8. Orphans'
      <3>1. \A j \in Live' : j \in Live /\ (j = k \/ (row')[j] = row[j])
        BY <1>6, <2>7 DEF Live, Children, Subs
      <3> QED BY <1>6, <1>8, <2>3, <2>7, <3>1 DEF Orphans, Now, Terminal
    <2> QED BY <1>1, <1>2, <1>6, <2>3, <2>6, <2>7, <2>8, CascadeGoes DEF Now, At, Quiet
  <1>c. CASE /\ Terminal(k) /\ job' = [job EXCEPT ![P] = [job[P] EXCEPT !.todo = @ \ {k}]]
             /\ UNCHANGED row
    <2> DEFINE r == [job[P] EXCEPT !.todo = @ \ {k}]
    <2>1. /\ r \in Job /\ r.pc = job[P].pc /\ r.sub = job[P].sub /\ r.stage = job[P].stage
          /\ r.outcome = job[P].outcome /\ r.todo = d /\ r.pend = job[P].pend
      BY <1>6, <1>9 DEF Job
    <2>2. job' = [job EXCEPT ![P] = r]
      BY <1>c
    <2> HIDE DEF r, d
    <2>3. Now(P, "cascade", P, job[P].outcome, job[P].stage, d, job[P].pend)
      BY <1>1, <1>2, <1>4, <2>1, <2>2 DEF Now, Like, At
    <2>5. Rows({P}) /\ row' = row
      BY <1>c DEF Rows
    <2>6. Store({P}) /\ Quiet
      BY <1>1, <1>7, <2>5, OneRow
    <2>8. Orphans'
      <3>1. Live' = Live
        BY <2>5 DEF Live, Children
      <3> QED BY <1>6, <1>8, <1>c, <2>3, <2>5, <3>1 DEF Orphans, Now, Terminal
    <2> QED BY <1>1, <1>2, <2>3, <2>5, <2>6, <2>8, CascadeGoes DEF Now, At, Quiet
  <1> QED BY <1>5, <1>a, <1>b, <1>c

LEMMA CancelChildLoop ==
  ASSUME Invariant, CancelChild(Loop)
  PROVE  Invariant'
  <1>1. /\ Loop \in Threads /\ Loop \notin Subs /\ P # Loop /\ Placed(Loop)
    BY SubagentsAssumption DEF Invariant, View, TypeOK, Threads, Subs
  <1>2. At(Loop, "cancel") /\ job[Loop].pc \in LoopOwn
    BY <1>1 DEF CancelChild, Placed, At, LoopPcs, Duties, Notes, LoopOwn
  <1>3. /\ TypeOK /\ P \in Subs /\ P \notin Kids /\ job[Loop].pend \subseteq Kids
        /\ job \in [Threads -> Job] /\ row \in [Subs -> Row] /\ LoopAlone
    BY <1>2, LoopKnows
  <1>4. /\ job[Loop].todo \subseteq Kids /\ job[P].pc = "idle"
        /\ row[P].status = "waiting" => lapsed
    BY <1>2, <1>3 DEF LoopAlone, Scanning, Expiry, At
  <1>5. PICK k \in job[Loop].todo :
          LET rest == [job[Loop] EXCEPT !.todo = @ \ {k}]
          IN \/ /\ row[k].status = "queued"
                /\ SetStatus(k, "settled")
                /\ job' = [job EXCEPT ![Loop] = rest]
             \/ /\ row[k].status = "running"
                /\ row' = [row EXCEPT ![k].flag = TRUE]
                /\ job' = [job EXCEPT ![Loop] = [rest EXCEPT !.pc = "interrupt", !.sub = k]]
             \/ /\ Terminal(k)
                /\ job' = [job EXCEPT ![Loop] = rest]
                /\ UNCHANGED row
    BY DEF CancelChild
  <1> DEFINE d == job[Loop].todo \ {k}
  <1>6. k \in Kids /\ k \in Subs /\ k # P /\ d \subseteq Kids /\ d \subseteq Subs
    BY <1>3, <1>4 DEF Subs
  <1>7. UNCHANGED <<log, settled, lapsed, turn, nudge, crashes>>
    BY DEF CancelChild
  <1>8. job[Loop] \in Job
    BY <1>1, <1>3
  <1>9. ASSUME NEW p \in {"cancel", "interrupt"}, NEW s \in Subs, p = "interrupt" => s \in Kids,
               Rows({Loop}), (row')[P] = row[P],
               Now(Loop, p, s, job[Loop].outcome, job[Loop].stage, d, job[Loop].pend)
        PROVE  Invariant'
    <2> HIDE DEF d
    <2>1. Store({Loop}) /\ lapsed' = lapsed
      BY <1>3, <1>7, <1>9, OneRow
    <2>2. \A u \in Subs : Like(u)
      BY <1>1, <1>9 DEF Now, Threads
    <2>3. job[Loop].stage \in {"none", "prompt", "resume"}
      BY <1>2, LoopKnows
    <2>4. LoopAlone'
      BY <1>3, <1>4, <1>6, <1>9, <2>1, <2>2, <2>3
         DEF LoopAlone, Booting, Scanning, Expiry, Now, Like
    <2>5. Backstop'
      BY <1>9, <2>3 DEF Backstop, Now
    <2>6. p \in LoopOwn /\ p \notin {"cancelled", "reconcile", "release"}
      BY DEF LoopOwn, LoopPcs
    <2> QED BY <1>2, <1>3, <1>9, <2>1, <2>4, <2>5, <2>6, LoopPasses DEF Now, At
  <1>a. CASE /\ row[k].status = "queued" /\ SetStatus(k, "settled")
             /\ job' = [job EXCEPT ![Loop] = [job[Loop] EXCEPT !.todo = @ \ {k}]]
    <2> DEFINE r == [job[Loop] EXCEPT !.todo = @ \ {k}]
    <2>1. /\ r \in Job /\ r.pc = job[Loop].pc /\ r.sub = job[Loop].sub
          /\ r.stage = job[Loop].stage /\ r.outcome = job[Loop].outcome /\ r.todo = d
          /\ r.pend = job[Loop].pend
      BY <1>6, <1>8 DEF Job
    <2>2. job' = [job EXCEPT ![Loop] = r]
      BY <1>a
    <2> HIDE DEF r, d
    <2>3. Now(Loop, "cancel", job[Loop].sub, job[Loop].outcome, job[Loop].stage, d, job[Loop].pend)
      BY <1>1, <1>2, <1>3, <2>1, <2>2 DEF Now, Like, At
    <2>4. Becomes(k, "settled", row[k].flag, row[k].leased)
      BY <1>3, <1>6, <1>a, SetStatusIs DEF Statuses
    <2>5. Rows({Loop})
      BY <1>4, <1>6, <1>a, <2>4 DEF Rows, Cancels
    <2>6. (row')[P] = row[P] /\ job[Loop].sub \in Subs
      BY <1>1, <1>3, <1>6, <2>4, Typed DEF Becomes
    <2> QED BY <1>9, <2>3, <2>5, <2>6
  <1>b. CASE /\ row[k].status = "running" /\ row' = [row EXCEPT ![k].flag = TRUE]
             /\ job' = [job EXCEPT ![Loop] = [[job[Loop] EXCEPT !.todo = @ \ {k}]
                                                EXCEPT !.pc = "interrupt", !.sub = k]]
    <2> DEFINE r == [[job[Loop] EXCEPT !.todo = @ \ {k}] EXCEPT !.pc = "interrupt", !.sub = k]
    <2>1. /\ r \in Job /\ r.pc = "interrupt" /\ r.sub = k
          /\ r.stage = job[Loop].stage /\ r.outcome = job[Loop].outcome /\ r.todo = d
          /\ r.pend = job[Loop].pend
      BY <1>6, <1>8 DEF Job, DutyPcs
    <2>2. job' = [job EXCEPT ![Loop] = r]
      BY <1>b
    <2> HIDE DEF r, d
    <2>3. Now(Loop, "interrupt", k, job[Loop].outcome, job[Loop].stage, d, job[Loop].pend)
      BY <1>1, <1>3, <2>1, <2>2 DEF Now, Like
    <2>4. Becomes(k, "running", TRUE, row[k].leased)
      BY <1>3, <1>6, <1>b DEF Becomes, Row
    <2>5. Rows({Loop})
      BY <1>1, <1>6, <1>b, <2>3, <2>4 DEF Rows, Flags, Now
    <2>6. (row')[P] = row[P]
      BY <1>3, <1>6, <2>4 DEF Becomes
    <2> QED BY <1>6, <1>9, <2>3, <2>5, <2>6
  <1>c. CASE /\ job' = [job EXCEPT ![Loop] = [job[Loop] EXCEPT !.todo = @ \ {k}]]
             /\ UNCHANGED row
    <2> DEFINE r == [job[Loop] EXCEPT !.todo = @ \ {k}]
    <2>1. /\ r \in Job /\ r.pc = job[Loop].pc /\ r.sub = job[Loop].sub
          /\ r.stage = job[Loop].stage /\ r.outcome = job[Loop].outcome /\ r.todo = d
          /\ r.pend = job[Loop].pend
      BY <1>6, <1>8 DEF Job
    <2>2. job' = [job EXCEPT ![Loop] = r]
      BY <1>c
    <2> HIDE DEF r, d
    <2>3. Now(Loop, "cancel", job[Loop].sub, job[Loop].outcome, job[Loop].stage, d, job[Loop].pend)
      BY <1>1, <1>2, <1>3, <2>1, <2>2 DEF Now, Like, At
    <2>5. Rows({Loop}) /\ (row')[P] = row[P] /\ job[Loop].sub \in Subs
      BY <1>1, <1>3, <1>c, Typed DEF Rows
    <2> QED BY <1>9, <2>3, <2>5
  <1> QED BY <1>5, <1>a, <1>b, <1>c

LEMMA Interrupts ==
  ASSUME Invariant, NEW t \in {P, Loop}, CancelLiveRun(t)
  PROVE  /\ Now(t, IF t = Loop THEN "cancel" ELSE "cascade", P, job[t].outcome,
                job[t].stage, job[t].todo, job[t].pend)
         /\ At(job[t].sub, "drive") => (job')[job[t].sub].cut
         /\ At(t, "interrupt") /\ Still /\ Quiet
  <1>1. /\ t \in Threads /\ t \notin Kids /\ P \in Subs /\ Kids \subseteq Threads
        /\ TypeOK /\ job \in [Threads -> Job] /\ Placed(t)
    BY SubagentsAssumption DEF Invariant, View, TypeOK, Threads, Subs
  <1>2. At(t, "interrupt") /\ Still /\ Quiet
    BY Unchanging DEF CancelLiveRun
  <1> DEFINE k == job[t].sub
             p == IF t = Loop THEN "cancel" ELSE "cascade"
             mid == [job EXCEPT ![t].pc = p, ![t].sub = P]
  <1>3. k \in Kids /\ k \in Threads /\ k # t
    BY <1>1, <1>2 DEF Placed, At
  <1>4. job' = [job EXCEPT ![t].pc = p, ![t].sub = P, ![k].cut = @ \/ Registered(k)]
    BY DEF CancelLiveRun
  <1>5. p \in RunPcs \cup DutyPcs \cup LoopPcs
    BY DEF RunPcs, LoopPcs
  <1> HIDE DEF k, p
  <1>6. /\ mid \in [Threads -> Job] /\ mid[t].pc = p /\ mid[t].sub = P
        /\ mid[t].outcome = job[t].outcome /\ mid[t].stage = job[t].stage
        /\ mid[t].todo = job[t].todo /\ mid[t].pend = job[t].pend
        /\ \A u \in Threads \ {t} : mid[u] = job[u]
    BY <1>1, <1>5 DEF Job
  <1>7. job' = [mid EXCEPT ![k].cut = @ \/ Registered(k)]
    BY <1>4
  <1> HIDE DEF mid
  <1>8. Registered(k) \in BOOLEAN
    BY DEF Registered
  <1>9. mid[k] \in Job /\ mid[k].cut \in BOOLEAN
    BY <1>3, <1>6 DEF Job
  <1> DEFINE r == [mid[k] EXCEPT !.cut = @ \/ Registered(k)]
  <1>a. /\ r \in Job /\ r.pc = mid[k].pc /\ r.sub = mid[k].sub /\ r.outcome = mid[k].outcome
        /\ r.stage = mid[k].stage /\ r.todo = mid[k].todo /\ r.pend = mid[k].pend
        /\ r.cut = (mid[k].cut \/ Registered(k))
    BY <1>8, <1>9 DEF Job
  <1>b. job' = [mid EXCEPT ![k] = r]
    BY <1>7
  <1> HIDE DEF r
  <1>c. /\ job' \in [Threads -> Job] /\ (job')[k] = r
        /\ \A u \in Threads \ {k} : (job')[u] = mid[u]
    BY <1>3, <1>6, <1>a, <1>b
  <1>d. \A u \in Threads \ {t} : Like(u)
    BY <1>3, <1>6, <1>a, <1>c DEF Like
  <1>e. Now(t, p, P, job[t].outcome, job[t].stage, job[t].todo, job[t].pend)
    BY <1>1, <1>3, <1>6, <1>c, <1>d DEF Now
  <1>f. At(k, "drive") => (job')[k].cut
    BY <1>a, <1>c DEF At, Registered
  <1> QED BY <1>2, <1>e, <1>f DEF k, p

LEMMA CancelLiveRunParent ==
  ASSUME Invariant, CancelLiveRun(P)
  PROVE  Invariant'
  <1>1. P # Loop
    BY SubagentsAssumption DEF Subs
  <1>2. /\ Now(P, "cascade", P, job[P].outcome, job[P].stage, job[P].todo, job[P].pend)
        /\ At(job[P].sub, "drive") => (job')[job[P].sub].cut
        /\ At(P, "interrupt") /\ Still /\ Quiet
    BY <1>1, Interrupts
  <1>3. Store({P}) /\ (row')[P] = row[P]
    BY <1>2, Quietly DEF Still
  <1>4. Orphans'
    <2>1. Orphans /\ Cascading
      BY <1>2 DEF Invariant, Cascading, At
    <2>2. row' = row /\ Live' = Live
      BY <1>2 DEF Still, Live, Children
    <2> QED BY <1>2, <2>1, <2>2 DEF Orphans, Now, Terminal
  <1> QED BY <1>2, <1>3, <1>4, CascadeGoes DEF Now, At, Quiet

LEMMA CancelLiveRunLoop ==
  ASSUME Invariant, CancelLiveRun(Loop)
  PROVE  Invariant'
  <1>2. /\ Now(Loop, "cancel", P, job[Loop].outcome, job[Loop].stage, job[Loop].todo, job[Loop].pend)
        /\ At(job[Loop].sub, "drive") => (job')[job[Loop].sub].cut
        /\ At(Loop, "interrupt") /\ Still /\ Quiet
    BY Interrupts
  <1>3. Store({Loop})
    BY <1>2, Quietly
  <1>4. job[Loop].pc \in LoopOwn
    BY <1>2 DEF LoopOwn, At
  <1>5. /\ LoopAlone /\ P \in Subs /\ Loop \notin Subs /\ job[Loop].pend \subseteq Kids
        /\ job[Loop].stage \in {"none", "prompt", "resume"}
    BY <1>4, LoopKnows
  <1>6. LoopAlone'
    <2>1. \A u \in Subs : Like(u)
      BY <1>2, <1>5 DEF Now, Threads
    <2> QED BY <1>2, <1>5, <2>1 DEF LoopAlone, Booting, Scanning, Expiry, Now, Like, At, Still
  <1>7. Backstop'
    BY <1>2, <1>5 DEF Backstop, Now
  <1>8. "cancel" \in LoopOwn
    BY DEF LoopOwn, LoopPcs
  <1> QED BY <1>2, <1>3, <1>4, <1>5, <1>6, <1>7, <1>8, LoopPasses DEF Now, At

----------------------------------------------------------------------------
(* The claim loop. *)

LEMMA LoopTurns ==
  ASSUME Invariant, job[Loop].pc \in LoopOwn, NEW p \in LoopPcs, NEW d \in SUBSET Subs,
         NEW e \in SUBSET Kids, LoopGoes(p, d, e)
  PROVE  /\ Now(Loop, p, job[Loop].sub, job[Loop].outcome, job[Loop].stage, d, e)
         /\ \A u \in Subs : Like(u)
  <1>1. TypeOK /\ Loop \in Threads /\ Loop \notin Subs /\ e \in SUBSET Subs
    BY LoopKnows DEF Subs
  <1>2. Now(Loop, p, job[Loop].sub, job[Loop].outcome, job[Loop].stage, d, e)
    BY <1>1, SetsPcTodoPend DEF LoopGoes
  <1> QED BY <1>1, <1>2 DEF Now, Threads

LEMMA LoopStays ==
  ASSUME Invariant, job[Loop].pc \in LoopOwn, NEW p \in LoopPcs, Goto(Loop, p)
  PROVE  /\ Now(Loop, p, job[Loop].sub, job[Loop].outcome, job[Loop].stage,
                job[Loop].todo, job[Loop].pend)
         /\ \A u \in Subs : Like(u)
  <1>1. TypeOK /\ Loop \in Threads /\ Loop \notin Subs
    BY LoopKnows
  <1>2. Now(Loop, p, job[Loop].sub, job[Loop].outcome, job[Loop].stage,
            job[Loop].todo, job[Loop].pend)
    BY <1>1, Goes
  <1> QED BY <1>1, <1>2 DEF Now, Threads

(* A pass of the loop over leases and runnable rows. *)
LEMMA LoopRests ==
  ASSUME Invariant, Store({Loop}), job[Loop].pc \in LoopPcs,
         NEW p \in {"waiting", "reclaim", "release", "claiming"}, NEW s, NEW o, NEW d, NEW e,
         Now(Loop, p, s, o, job[Loop].stage, d, e), e \subseteq Kids,
         crashes = 0 /\ p = "release" => d = {}
  PROVE  Invariant'
  <1>1. job[Loop].pc \in LoopOwn /\ p \in LoopOwn
    BY DEF LoopOwn, LoopPcs
  <1>2. job[Loop].stage \in {"none", "prompt", "resume"}
    BY <1>1, LoopKnows
  <1>3. LoopAlone' /\ Backstop'
    BY <1>2 DEF LoopAlone, Booting, Scanning, Expiry, Backstop, Now
  <1>4. job[Loop].pc # "interrupt"
    BY DEF LoopPcs
  <1> QED BY <1>1, <1>3, <1>4, LoopPasses DEF Now, At

(* Its scans, while the parent has no run. *)
ScanPcs == Expiry \cup {"backlist", "backpending", "backstop"}

LEMMA LoopScans ==
  ASSUME Invariant, Store({Loop}), job[Loop].pc \in LoopPcs, NEW p \in ScanPcs,
         NEW s, NEW o, NEW d, NEW e,
         Now(Loop, p, s, o, job[Loop].stage, d, e), e \subseteq Kids,
         job[P].pc = "idle",
         p \in Expiry /\ (row')[P].status = "waiting" => lapsed',
         p = "cancel" => d \subseteq Kids,
         Backstop'
  PROVE  Invariant'
  <1>1. job[Loop].pc \in LoopOwn /\ p \in LoopOwn
        /\ p \notin {"boot", "reconcile", "interrupt", "cancelled", "release"}
    BY DEF LoopOwn, LoopPcs, ScanPcs, Expiry
  <1>2. /\ job[Loop].stage \in {"none", "prompt", "resume"} /\ P \in Subs /\ Loop \notin Subs
    BY <1>1, LoopKnows
  <1>3. (job')[P].pc = "idle"
    BY <1>2 DEF Now, Like, Threads
  <1>4. LoopAlone'
    BY <1>1, <1>2, <1>3 DEF LoopAlone, Booting, Scanning, Now
  <1>5. job[Loop].pc # "interrupt"
    BY DEF LoopPcs
  <1> QED BY <1>1, <1>4, <1>5, LoopPasses DEF Now, At

LEMMA NoBackstopYet ==
  ASSUME NEW p, NEW s, NEW o, NEW g \in {"none", "prompt", "resume"}, NEW d, NEW e,
         Now(Loop, p, s, o, g, d, e), p \notin {"backlist", "backpending", "backstop"}
  PROVE  Backstop'
  BY DEF Backstop, Now

LEMMA ListTerminalizingStep ==
  ASSUME Invariant, ListTerminalizing
  PROVE  Invariant'
  <1> DEFINE d == {s \in Subs : row[s].status = "terminalizing"}
  <1>1. Still /\ Quiet /\ At(Loop, "boot") /\ job[Loop].pc \in LoopOwn /\ "reconcile" \in LoopPcs
    BY Unchanging DEF ListTerminalizing, At, LoopOwn, LoopPcs
  <1>2. Store({Loop})
    BY <1>1, Quietly
  <1>3. /\ \A s \in d : row[s].status = "terminalizing" /\ s \in Subs
        /\ d \in SUBSET Subs /\ {} \in SUBSET Kids /\ LoopGoes("reconcile", d, {})
        /\ \A s \in Subs : row[s].status = "terminalizing" => s \in d
    BY DEF ListTerminalizing
  <1> HIDE DEF d
  <1>4. /\ Now(Loop, "reconcile", job[Loop].sub, job[Loop].outcome, job[Loop].stage, d, {})
        /\ \A u \in Subs : Like(u)
    BY <1>1, <1>3, LoopTurns
  <1>5. /\ LoopAlone /\ job[Loop].stage \in {"none", "prompt", "resume"}
    BY <1>1, LoopKnows
  <1>6. \A s \in Subs : job[s].pc = "idle"
    BY <1>1, <1>5 DEF LoopAlone, Booting, At
  <1>7. crashes = 0 => d = {}
    <2> SUFFICES ASSUME crashes = 0, NEW s \in d PROVE FALSE
      OBVIOUS
    <2>1. job[s].stage = "reserved"
      BY <1>3 DEF Invariant, CrashFree
    <2>2. Staged(s) /\ job[s].pc = "idle"
      BY <1>3, <1>6 DEF Invariant, View, Threads
    <2> QED BY <2>1, <2>2 DEF Staged, Duties, Notes
  <1>8. LoopAlone'
    BY <1>1, <1>3, <1>4, <1>5, <1>6 DEF LoopAlone, Booting, Scanning, Expiry, Now, Like, Still
  <1>9. Backstop'
    BY <1>4, <1>5, NoBackstopYet
  <1>a. "reconcile" \in LoopOwn
    BY DEF LoopOwn, LoopPcs
  <1> QED BY <1>1, <1>2, <1>4, <1>7, <1>8, <1>9, <1>a, LoopPasses DEF Now, At

LEMMA ListExpiredWaitsStep ==
  ASSUME Invariant, ListExpiredWaits
  PROVE  Invariant'
  <1>1. Still /\ Quiet /\ job[Loop].pc \in LoopPcs /\ job[Loop].pc \in LoopOwn
    BY Unchanging DEF ListExpiredWaits, At, LoopOwn, LoopPcs
  <1>2. Store({Loop}) /\ job[Loop].pend \subseteq Kids /\ job[Loop].stage \in {"none", "prompt", "resume"}
    BY <1>1, Quietly, LoopKnows
  <1>3. CASE row[P].status = "waiting" /\ lapsed
    <2>1. Goto(Loop, "expire") /\ "expire" \in LoopPcs /\ "expire" \in ScanPcs
      BY <1>3 DEF ListExpiredWaits, LoopPcs, ScanPcs, Expiry
    <2>2. Now(Loop, "expire", job[Loop].sub, job[Loop].outcome, job[Loop].stage,
              job[Loop].todo, job[Loop].pend)
      BY <1>1, <2>1, LoopStays
    <2>3. Backstop'
      BY <1>2, <2>2 DEF Backstop, Now
    <2>4. job[P].pc = "idle" /\ lapsed'
      BY <1>1, <1>3 DEF Invariant, Parked, Still
    <2> QED BY <1>1, <1>2, <2>1, <2>2, <2>3, <2>4, LoopScans
  <1>4. CASE ~(row[P].status = "waiting" /\ lapsed)
    <2>1. Goto(Loop, "waiting") /\ "waiting" \in LoopPcs
      BY <1>4 DEF ListExpiredWaits, LoopPcs
    <2>2. Now(Loop, "waiting", job[Loop].sub, job[Loop].outcome, job[Loop].stage,
              job[Loop].todo, job[Loop].pend)
      BY <1>1, <2>1, LoopStays
    <2> QED BY <1>1, <1>2, <2>2, LoopRests
  <1> QED BY <1>3, <1>4

(* A step of the expiry to the next. *)
LEMMA ExpiryGoesOn ==
  ASSUME Invariant, Store({Loop}), row' = row, lapsed' = lapsed, job[Loop].pc \in Expiry,
         NEW p \in Expiry, NEW d \in SUBSET Kids, NEW e \in SUBSET Kids, LoopGoes(p, d, e)
  PROVE  Invariant'
  <1>1. /\ job[Loop].pc \in LoopPcs /\ job[Loop].pc \in LoopOwn /\ p \in LoopPcs /\ p \in ScanPcs
        /\ d \in SUBSET Subs /\ p \notin {"backlist", "backpending", "backstop"}
    BY DEF LoopOwn, LoopPcs, ScanPcs, Expiry, Subs
  <1>2. /\ LoopAlone /\ job[Loop].stage \in {"none", "prompt", "resume"}
    BY <1>1, LoopKnows
  <1>3. Now(Loop, p, job[Loop].sub, job[Loop].outcome, job[Loop].stage, d, e)
    BY <1>1, LoopTurns
  <1>4. job[P].pc = "idle" /\ (row[P].status = "waiting" => lapsed)
    BY <1>2 DEF LoopAlone, Scanning
  <1>5. Backstop'
    BY <1>1, <1>2, <1>3, NoBackstopYet
  <1> QED BY <1>1, <1>3, <1>4, <1>5, LoopScans

LEMMA ExpiryStep ==
  ASSUME Invariant, ListChildrenToCancel \/ ReadPending \/ RecheckPending
  PROVE  Invariant'
  <1>1. Still /\ Quiet /\ job[Loop].pc \in Expiry
    BY Unchanging DEF ListChildrenToCancel, ReadPending, RecheckPending, At, Expiry
  <1>2. Store({Loop}) /\ row' = row /\ lapsed' = lapsed
    BY <1>1, Quietly DEF Still
  <1>3. PICK p \in Expiry, d \in SUBSET Kids, e \in SUBSET Kids : LoopGoes(p, d, e)
    <2>1. "cancel" \in Expiry /\ "requeue" \in Expiry /\ "recheck" \in Expiry /\ "expired" \in Expiry
      BY DEF Expiry
    <2>2. Live \in SUBSET Kids /\ {} \in SUBSET Kids /\ PendingCalls \in SUBSET Kids
          /\ job[Loop].pend \cap PendingCalls \in SUBSET Kids
      BY DEF Live, Children, PendingCalls
    <2>3. CASE ListChildrenToCancel
      BY <2>1, <2>2, <2>3 DEF ListChildrenToCancel
    <2>4. CASE ReadPending
      BY <2>1, <2>2, <2>4 DEF ReadPending
    <2>5. CASE RecheckPending
      BY <2>1, <2>2, <2>5 DEF RecheckPending
    <2> QED BY <2>3, <2>4, <2>5
  <1> QED BY <1>1, <1>2, <1>3, ExpiryGoesOn

LEMMA AppendExpiredStep ==
  ASSUME Invariant, AppendExpired
  PROVE  Invariant'
  <1>1. /\ row' = row /\ settled' = settled /\ lapsed' = lapsed /\ Quiet
        /\ job[Loop].pc \in Expiry /\ job[Loop].pc \in LoopOwn
    BY DEF AppendExpired, turn, Quiet, At, Expiry, LoopOwn, LoopPcs
  <1>2. TypeOK /\ job[Loop].pend \subseteq Kids
    BY <1>1, LoopKnows
  <1>3. Logs
    <2>1. Wrote(job[Loop].pend, "expired")
      BY DEF AppendExpired, Wrote
    <2>2. Allowed(job[Loop].pend, "expired") /\ "expired" \in Records
      BY DEF Allowed, Records, Answers
    <2> QED BY <1>2, <2>1, <2>2 DEF Logs
  <1>4. Store({Loop})
    BY <1>1, <1>2, <1>3 DEF Store, Rows, Settles, Talks, Others, Quiet, TypeOK
  <1>5. LoopGoes("requeue", {}, {}) /\ "requeue" \in Expiry
    BY DEF AppendExpired, Expiry
  <1> QED BY <1>1, <1>4, <1>5, ExpiryGoesOn

LEMMA RequeueExpiredStep ==
  ASSUME Invariant, RequeueExpired
  PROVE  Invariant'
  <1>1. /\ log' = log /\ settled' = settled /\ events' = events /\ author' = author
        /\ suspended' = suspended /\ called' = called /\ parkedLate' = parkedLate
        /\ crashes' = crashes /\ Goto(Loop, "waiting") /\ "waiting" \in LoopPcs
        /\ job[Loop].pc \in LoopPcs /\ job[Loop].pc \in LoopOwn
    BY DEF RequeueExpired, turn, At, LoopOwn, LoopPcs
  <1>2. TypeOK /\ job[Loop].pend \subseteq Kids
    BY <1>1, LoopKnows
  <1>3. Store({Loop})
    BY <1>1, <1>2, ResumeIsResume, LogSame
       DEF RequeueExpired, Store, Settles, Talks, Others, TypeOK
  <1>4. Now(Loop, "waiting", job[Loop].sub, job[Loop].outcome, job[Loop].stage,
            job[Loop].todo, job[Loop].pend)
    BY <1>1, LoopStays
  <1> QED BY <1>1, <1>2, <1>3, <1>4, LoopRests

LEMMA ListWaitingStep ==
  ASSUME Invariant, ListWaiting
  PROVE  Invariant'
  <1>1. Still /\ Quiet /\ job[Loop].pc \in LoopPcs /\ job[Loop].pc \in LoopOwn
    BY Unchanging DEF ListWaiting, At, LoopOwn, LoopPcs
  <1>2. Store({Loop}) /\ job[Loop].pend \subseteq Kids /\ job[Loop].stage \in {"none", "prompt", "resume"}
    BY <1>1, Quietly, LoopKnows
  <1>3. CASE row[P].status = "waiting"
    <2>1. Goto(Loop, "backlist") /\ "backlist" \in LoopPcs /\ "backlist" \in ScanPcs
      BY <1>3 DEF ListWaiting, LoopPcs, ScanPcs
    <2>2. Now(Loop, "backlist", job[Loop].sub, job[Loop].outcome, job[Loop].stage,
              job[Loop].todo, job[Loop].pend)
      BY <1>1, <2>1, LoopStays
    <2>3. job[P].pc = "idle" /\ \A k \in Children : Spawned(k)
      BY <1>3 DEF Invariant, Parked
    <2>4. Backstop'
      BY <1>1, <1>2, <2>2, <2>3 DEF Backstop, Now, Still, Children, Spawned, Logged
    <2>5. "backlist" \notin Expiry
      BY DEF Expiry
    <2> QED BY <1>1, <1>2, <2>1, <2>2, <2>3, <2>4, <2>5, LoopScans
  <1>4. CASE row[P].status # "waiting"
    <2>1. Goto(Loop, "reclaim") /\ "reclaim" \in LoopPcs
      BY <1>4 DEF ListWaiting, LoopPcs
    <2>2. Now(Loop, "reclaim", job[Loop].sub, job[Loop].outcome, job[Loop].stage,
              job[Loop].todo, job[Loop].pend)
      BY <1>1, <2>1, LoopStays
    <2> QED BY <1>1, <1>2, <2>2, LoopRests
  <1> QED BY <1>3, <1>4

LEMMA ListSettledChildrenStep ==
  ASSUME Invariant, ListSettledChildren
  PROVE  Invariant'
  <1>1. /\ Still /\ Quiet /\ job[Loop].pc \in LoopPcs /\ job[Loop].pc \in LoopOwn
        /\ At(Loop, "backlist")
    BY Unchanging DEF ListSettledChildren, At, LoopOwn, LoopPcs
  <1>2. /\ Store({Loop}) /\ job[Loop].pend \subseteq Kids /\ LoopAlone /\ Backstop
        /\ job[Loop].stage \in {"none", "prompt", "resume"}
    BY <1>1, Quietly, LoopKnows
  <1>3. CASE ~(Children = {} \/ Live # {})
    <2>1. LoopGoes("backpending", Children, {}) /\ "backpending" \in LoopPcs
          /\ "backpending" \in ScanPcs /\ Children \in SUBSET Subs /\ {} \in SUBSET Kids
      BY <1>3 DEF ListSettledChildren, LoopPcs, ScanPcs, Children, Subs
    <2>2. Now(Loop, "backpending", job[Loop].sub, job[Loop].outcome, job[Loop].stage,
              Children, {})
      BY <1>1, <2>1, LoopTurns
    <2>3. job[P].pc = "idle" /\ \A k \in Children : Spawned(k)
      BY <1>1, <1>2 DEF LoopAlone, Scanning, Backstop, At
    <2>4. Backstop'
      <3>1. Live' = Live /\ Children' = Children /\ \A k \in Kids : Spawned(k)' = Spawned(k)
        BY <1>1 DEF Still, Children, Live, Spawned, Logged
      <3>2. Children \subseteq Kids
        BY DEF Children
      <3> QED BY <1>2, <1>3, <2>2, <2>3, <3>1, <3>2 DEF Backstop, Now
    <2>5. "backpending" \notin Expiry /\ {} \subseteq Kids
      BY DEF Expiry
    <2> QED BY <1>1, <1>2, <2>1, <2>2, <2>3, <2>4, <2>5, LoopScans
  <1>4. CASE Children = {} \/ Live # {}
    <2>1. Goto(Loop, "reclaim") /\ "reclaim" \in LoopPcs
      BY <1>4 DEF ListSettledChildren, LoopPcs
    <2>2. Now(Loop, "reclaim", job[Loop].sub, job[Loop].outcome, job[Loop].stage,
              job[Loop].todo, job[Loop].pend)
      BY <1>1, <2>1, LoopStays
    <2> QED BY <1>1, <1>2, <2>2, LoopRests
  <1> QED BY <1>3, <1>4

LEMMA ReadBackstopPendingStep ==
  ASSUME Invariant, ReadBackstopPending
  PROVE  Invariant'
  <1>1. /\ Still /\ Quiet /\ job[Loop].pc \in LoopPcs /\ job[Loop].pc \in LoopOwn
        /\ At(Loop, "backpending")
    BY Unchanging DEF ReadBackstopPending, At, LoopOwn, LoopPcs
  <1>2. /\ Store({Loop}) /\ LoopAlone /\ Backstop /\ job[Loop].todo \in SUBSET Subs
        /\ job[Loop].stage \in {"none", "prompt", "resume"}
    BY <1>1, Quietly, LoopKnows
  <1>3. LoopGoes("backstop", job[Loop].todo, PendingCalls) /\ "backstop" \in LoopPcs
        /\ "backstop" \in ScanPcs /\ PendingCalls \in SUBSET Kids
    BY DEF ReadBackstopPending, LoopPcs, ScanPcs, PendingCalls
  <1>4. Now(Loop, "backstop", job[Loop].sub, job[Loop].outcome, job[Loop].stage,
            job[Loop].todo, PendingCalls)
    BY <1>1, <1>2, <1>3, LoopTurns
  <1>5. /\ job[P].pc = "idle" /\ job[Loop].todo \subseteq Children \ Live
        /\ \A k \in Children : Spawned(k)
    BY <1>1, <1>2 DEF LoopAlone, Scanning, Backstop, At
  <1>6. \A k \in job[Loop].todo : k \in PendingCalls \/ Answered(k)
    BY <1>5 DEF PendingCalls, Children
  <1>7. Backstop'
    <2>1. Live' = Live /\ Children' = Children /\ \A k \in Kids : Answered(k)' = Answered(k)
      BY <1>1 DEF Still, Children, Live, Answered, Logged
    <2>2. job[Loop].todo \subseteq Kids
      BY <1>5 DEF Children
    <2> QED BY <1>2, <1>4, <1>5, <1>6, <2>1, <2>2 DEF Backstop, Now
  <1>8. "backstop" \notin Expiry
    BY DEF Expiry
  <1> QED BY <1>1, <1>2, <1>3, <1>4, <1>5, <1>7, <1>8, LoopScans

LEMMA ListExpiredLeasesStep ==
  ASSUME Invariant, ListExpiredLeases
  PROVE  Invariant'
  <1> DEFINE d == {s \in Subs : row[s].status = "running" /\ ~row[s].leased}
             e == {s \in d : row[s].flag}
  <1>1. /\ row' = row /\ log' = log /\ settled' = settled /\ lapsed' = lapsed
        /\ events' = events /\ author' = author /\ suspended' = suspended
        /\ called' = called /\ parkedLate' = parkedLate /\ crashes' = crashes
        /\ job[Loop].pc \in LoopPcs /\ job[Loop].pc \in LoopOwn /\ "release" \in LoopPcs
    BY DEF ListExpiredLeases, store, turn, At, LoopOwn, LoopPcs
  <1>2. TypeOK
    BY DEF Invariant
  <1>3. nudge' \in BOOLEAN
    BY <1>2 DEF ListExpiredLeases, TypeOK
  <1>4. Store({Loop})
    BY <1>1, <1>2, <1>3, LogSame DEF Store, Rows, Settles, Talks, Others, TypeOK
  <1>5. LoopGoes("release", d, e)
    BY DEF ListExpiredLeases
  <1>6. d \in SUBSET Subs /\ e \in SUBSET Kids
    <2>1. ~row[P].flag
      BY DEF Invariant, Spawning
    <2> QED BY <2>1 DEF Subs
  <1>7. crashes = 0 => d = {}
    <2> SUFFICES ASSUME crashes = 0, NEW s \in d PROVE FALSE
      OBVIOUS
    <2>1. s \in Subs /\ row[s].status = "running" /\ ~row[s].leased
      OBVIOUS
    <2>2. Working(s)
      BY <2>1 DEF Invariant, CrashFree
    <2>3. RowHeld(s)
      BY <2>1 DEF Invariant, View, Threads
    <2> QED BY <2>1, <2>2, <2>3 DEF RowHeld
  <1> HIDE DEF d, e
  <1>8. Now(Loop, "release", job[Loop].sub, job[Loop].outcome, job[Loop].stage, d, e)
    BY <1>1, <1>5, <1>6, LoopTurns
  <1> QED BY <1>1, <1>4, <1>6, <1>7, <1>8, LoopRests

LEMMA ListRunnableStep ==
  ASSUME Invariant, ListRunnable
  PROVE  Invariant'
  <1> DEFINE d == {s \in Subs : row[s].status = "queued"}
  <1>1. /\ Still /\ Quiet /\ job[Loop].pc \in LoopPcs /\ job[Loop].pc \in LoopOwn
        /\ "claiming" \in LoopPcs
    BY Unchanging DEF ListRunnable, At, LoopOwn, LoopPcs
  <1>2. Store({Loop})
    BY <1>1, Quietly
  <1>3. LoopGoes("claiming", d, {}) /\ d \in SUBSET Subs /\ {} \in SUBSET Kids
    BY DEF ListRunnable
  <1> HIDE DEF d
  <1>4. Now(Loop, "claiming", job[Loop].sub, job[Loop].outcome, job[Loop].stage, d, {})
    BY <1>1, <1>3, LoopTurns
  <1> QED BY <1>1, <1>2, <1>3, <1>4, LoopRests

(* The loop turns to a settlement or a wake. *)
LEMMA LoopBegins ==
  ASSUME Invariant, Store({Loop}), job[Loop].pc \in LoopPcs,
         job' \in [Threads -> Job], \A u \in Threads \ {Loop} : Like(u),
         (job')[Loop].pc \in {"check", "wake"}, (job')[Loop].pend \subseteq Kids,
         (job')[Loop].pc = "wake" => (job')[Loop].sub \in Kids,
         Staged(Loop)', RowHeld(Loop)', Telling(Loop)', Starts(Loop),
         crashes = 0 => (job')[Loop].stage \notin {"reserved", "final", "direct"},
         LoopAlone', Backstop'
  PROVE  Invariant'
  <1>1. /\ Loop \in Threads /\ Loop \notin Subs /\ Loop \notin Kids /\ Loop # P
        /\ job[Loop].pc # "interrupt"
    BY SubagentsAssumption DEF Threads, Subs, LoopPcs
  <1>2. Placed(Loop)'
    BY <1>1 DEF Placed, Duties, Notes
  <1>3. Drives(Loop) /\ Reaches(Loop) /\ WakesOn(Loop) /\ Works(Loop)
    BY <1>1 DEF Drives, Reaches, WakesOn, Works, At
  <1>4. Does(Loop)
    BY <1>1, <1>2, <1>3 DEF Does, View
  <1> QED BY <1>1, <1>4, Alone

LEMMA ReconcileStep ==
  ASSUME Invariant, Reconcile
  PROVE  Invariant'
  <1>1. /\ Still /\ Quiet /\ job[Loop].pc \in LoopPcs /\ job[Loop].pc \in LoopOwn
        /\ At(Loop, "reconcile")
    BY Unchanging DEF Reconcile, At, LoopOwn, LoopPcs
  <1>2. /\ TypeOK /\ Store({Loop}) /\ LoopAlone /\ Loop \in Threads /\ Loop \notin Subs
        /\ job \in [Threads -> Job] /\ job[Loop].todo \subseteq Subs
        /\ job[Loop].pend \subseteq Kids
    BY <1>1, Quietly, LoopKnows
  <1>3. PICK s \in job[Loop].todo :
          job' = [job EXCEPT ![Loop] =
                    [job[Loop] EXCEPT !.pc = "check", !.sub = s, !.stage = "reserved",
                              !.outcome = "indeterminate", !.todo = @ \ {s}]]
    BY DEF Reconcile
  <1> DEFINE d == job[Loop].todo \ {s}
             r == [job[Loop] EXCEPT !.pc = "check", !.sub = s, !.stage = "reserved",
                                    !.outcome = "indeterminate", !.todo = @ \ {s}]
  <1>4. /\ r \in Job /\ r.pc = "check" /\ r.sub = s /\ r.stage = "reserved"
        /\ r.outcome = "indeterminate" /\ r.todo = d /\ r.pend = job[Loop].pend
    <2>1. job[Loop] \in Job
      BY <1>2
    <2> QED BY <1>2, <2>1 DEF Job, DutyPcs, Stages, Ends
  <1>5. d \subseteq job[Loop].todo /\ s \notin d
    OBVIOUS
  <1>p. Puts(Loop, r)
    BY <1>2, <1>3 DEF Puts
  <1> HIDE DEF r, d
  <1>6. Now(Loop, "check", s, "indeterminate", "reserved", d, job[Loop].pend)
    BY <1>2, <1>4, <1>p, PutsIs
  <1>7. \A q \in Subs : job[q].pc = "idle" /\ (job')[q].pc = "idle"
    BY <1>1, <1>2, <1>6 DEF LoopAlone, Booting, At, Now, Like, Threads
  <1>8. \A q \in job[Loop].todo : row[q].status = "terminalizing"
    BY <1>1, <1>2 DEF LoopAlone, At
  <1>9. crashes # 0
    BY <1>1 DEF Invariant, CrashFree, At
  <1>a. Staged(Loop)' /\ RowHeld(Loop)' /\ Telling(Loop)'
    <2>1. "indeterminate" \in Ends
      BY DEF Ends
    <2> QED BY <1>1, <1>2, <1>6, <1>8, <2>1 DEF Staged, RowHeld, Telling, Now, Still, Duties, Notes
  <1>b. Starts(Loop)
    BY <1>7 DEF Starts, Settling, Threads
  <1>c. LoopAlone'
    BY <1>1, <1>5, <1>6, <1>7, <1>8 DEF LoopAlone, Scanning, Expiry, Now, Still
  <1>d. Backstop'
    BY <1>6 DEF Backstop, Now
  <1> QED BY <1>1, <1>2, <1>6, <1>9, <1>a, <1>b, <1>c, <1>d, LoopBegins DEF Now

LEMMA BackstopWakeStep ==
  ASSUME Invariant, BackstopWake
  PROVE  Invariant'
  <1>1. /\ Still /\ Quiet /\ job[Loop].pc \in LoopPcs /\ job[Loop].pc \in LoopOwn
        /\ At(Loop, "backstop")
    BY Unchanging DEF BackstopWake, At, LoopOwn, LoopPcs
  <1>2. /\ Store({Loop}) /\ LoopAlone /\ Backstop /\ Loop \in Threads /\ Loop \notin Subs
        /\ P \in Subs /\ TypeOK /\ job \in [Threads -> Job] /\ job[Loop].todo \subseteq Subs
        /\ job[Loop].pend \subseteq Kids
    BY <1>1, Quietly, LoopKnows
  <1>3. /\ job[P].pc = "idle" /\ job[Loop].todo \subseteq Children \ Live
        /\ \A k \in job[Loop].todo : k \in job[Loop].pend \/ Answered(k)
    BY <1>1, <1>2 DEF LoopAlone, Scanning, Backstop, At
  <1>4. CASE LoopGoes("reclaim", {}, {})
    <2>1. "reclaim" \in LoopPcs /\ {} \in SUBSET Subs /\ {} \in SUBSET Kids
      BY DEF LoopPcs
    <2>2. Now(Loop, "reclaim", job[Loop].sub, job[Loop].outcome, job[Loop].stage, {}, {})
      BY <1>1, <1>4, <2>1, LoopTurns
    <2> QED BY <1>1, <1>2, <2>1, <2>2, LoopRests
  <1>5. ASSUME NEW k \in job[Loop].todo, NEW o \in Ends \cup {"none"},
               Now(Loop, "wake", k, o, "backstop", job[Loop].todo \ {k}, job[Loop].pend),
               Answered(k) \/ (settled[k] # <<>> /\ Head(settled[k]) = o)
        PROVE  Invariant'
    <2> DEFINE d == job[Loop].todo \ {k}
    <2>1. d \subseteq job[Loop].todo
      OBVIOUS
    <2>2. k \in Kids /\ row[k].status = "settled" /\ d \subseteq Kids
      BY <1>3 DEF Children, Live
    <2>3. Now(Loop, "wake", k, o, "backstop", d, job[Loop].pend)
      BY <1>5
    <2> HIDE DEF d
    <2>4. Staged(Loop)' /\ RowHeld(Loop)'
      BY <1>1, <1>2, <2>2, <2>3 DEF Staged, RowHeld, Now, Still, Duties, Notes
    <2>5. Telling(Loop)'
      <3>1. Told(Loop)' \/ Answered(k)'
        BY <1>1, <1>5, <2>3 DEF Told, Answered, Logged, Now, Still
      <3> QED BY <2>3, <3>1 DEF Telling, Now
    <2>6. Starts(Loop)
      BY <2>3 DEF Starts, Settling, Now
    <2>7. LoopAlone'
      <3>1. (job')[P].pc = "idle"
        BY <1>2, <1>3, <2>3 DEF Now, Like, Threads
      <3> QED BY <2>3, <3>1 DEF LoopAlone, Booting, Expiry, Now
    <2>8. Backstop'
      <3>1. Live' = Live /\ Children' = Children /\ \A j \in Kids : Answered(j)' = Answered(j)
        BY <1>1 DEF Still, Children, Live, Answered, Logged
      <3> QED BY <1>3, <2>1, <2>2, <2>3, <3>1 DEF Backstop, Now
    <2> QED BY <1>1, <1>2, <2>2, <2>3, <2>4, <2>5, <2>6, <2>7, <2>8, LoopBegins DEF Now
  <1>6. job[Loop] \in Job
    BY <1>2
  <1>7. ASSUME NEW k \in job[Loop].todo, k \notin job[Loop].pend,
               job' = [job EXCEPT ![Loop] =
                         [job[Loop] EXCEPT !.pc = "wake", !.sub = k, !.stage = "backstop",
                                   !.todo = @ \ {k}]]
        PROVE  Invariant'
    <2> DEFINE r == [job[Loop] EXCEPT !.pc = "wake", !.sub = k, !.stage = "backstop",
                                      !.todo = @ \ {k}]
    <2>1. /\ r \in Job /\ r.pc = "wake" /\ r.sub = k /\ r.stage = "backstop"
          /\ r.outcome = job[Loop].outcome /\ r.todo = job[Loop].todo \ {k}
          /\ r.pend = job[Loop].pend
      BY <1>2, <1>6 DEF Job, DutyPcs, Stages
    <2>2. Puts(Loop, r)
      BY <1>2, <1>7 DEF Puts
    <2>3. job[Loop].outcome \in Ends \cup {"none"}
      BY <1>2, Typed
    <2> HIDE DEF r
    <2>4. Now(Loop, "wake", k, job[Loop].outcome, "backstop", job[Loop].todo \ {k}, job[Loop].pend)
      BY <1>2, <2>1, <2>2, PutsIs
    <2>5. k \in job[Loop].todo /\ Answered(k)
      BY <1>3, <1>7
    <2> DEFINE o == job[Loop].outcome
    <2>6. Now(Loop, "wake", k, o, "backstop", job[Loop].todo \ {k}, job[Loop].pend)
          /\ o \in Ends \cup {"none"}
      BY <2>3, <2>4
    <2> HIDE DEF o
    <2> QED BY <1>5, <2>5, <2>6
  <1>8. ASSUME NEW k \in job[Loop].todo, settled[k] # <<>>,
               job' = [job EXCEPT ![Loop] =
                         [job[Loop] EXCEPT !.pc = "wake", !.sub = k, !.stage = "backstop",
                                   !.outcome = Head(settled[k]), !.todo = @ \ {k}]]
        PROVE  Invariant'
    <2> DEFINE o == Head(settled[k])
               r == [job[Loop] EXCEPT !.pc = "wake", !.sub = k, !.stage = "backstop",
                                      !.outcome = o, !.todo = @ \ {k}]
    <2>1. o \in Ends
      <3>1. settled[k] \in Seq(Ends)
        BY <1>2 DEF TypeOK
      <3> QED BY <1>8, <3>1
    <2>2. Head(settled[k]) = o /\ Puts(Loop, r)
      BY <1>2, <1>8 DEF Puts
    <2> HIDE DEF o
    <2>3. /\ r \in Job /\ r.pc = "wake" /\ r.sub = k /\ r.stage = "backstop"
          /\ r.outcome = o /\ r.todo = job[Loop].todo \ {k} /\ r.pend = job[Loop].pend
      BY <1>2, <1>6, <2>1 DEF Job, DutyPcs, Stages
    <2> HIDE DEF r
    <2>4. Now(Loop, "wake", k, o, "backstop", job[Loop].todo \ {k}, job[Loop].pend)
      BY <1>2, <2>2, <2>3, PutsIs
    <2> QED BY <1>5, <1>8, <2>1, <2>2, <2>4
  <1> QED BY <1>4, <1>7, <1>8 DEF BackstopWake

LEMMA CancelReleasedStep ==
  ASSUME Invariant, CancelReleased
  PROVE  Invariant'
  <1>1. /\ job[Loop].pc \in LoopPcs /\ job[Loop].pc \in LoopOwn /\ At(Loop, "cancelled")
        /\ UNCHANGED <<log, settled, lapsed, turn, nudge, crashes>>
    BY DEF CancelReleased, At, LoopOwn, LoopPcs
  <1>2. /\ TypeOK /\ Loop \in Threads /\ Loop \notin Subs /\ P \in Subs /\ P \notin Kids
        /\ job \in [Threads -> Job] /\ row \in [Subs -> Row] /\ job[Loop].pend \subseteq Kids
    BY <1>1, LoopKnows
  <1> DEFINE k == job[Loop].sub
  <1>3. k \in Kids /\ k \in Subs /\ k # P
    <2>1. Placed(Loop) /\ job[Loop].pc = "cancelled"
      BY <1>1, <1>2 DEF Invariant, View, At
    <2>2. k \in Kids
      BY <2>1 DEF Placed
    <2> QED BY <1>2, <2>2 DEF Subs
  <1>4. crashes # 0 /\ crashes > 0
    BY <1>1, <1>2 DEF Invariant, CrashFree, At, TypeOK
  <1>5. CASE row[k].status = "queued"
    <2>1. Becomes(k, "settled", row[k].flag, row[k].leased)
      <3>1. SetStatus(k, "settled") /\ "settled" \in Statuses
        BY <1>5 DEF CancelReleased, Statuses
      <3> HIDE DEF k
      <3> QED BY <1>2, <1>3, <3>1, SetStatusIs
    <2>2. Rows({Loop})
      BY <1>3, <1>4, <1>5, <2>1 DEF Rows, Cancels
    <2>3. Store({Loop}) /\ (row')[k].status = "settled"
      BY <1>1, <1>2, <2>1, <2>2, OneRow DEF Becomes
    <2>4. Now(Loop, "check", k, "cancelled", "direct", job[Loop].todo, job[Loop].pend)
      <3>1. job' = [job EXCEPT ![Loop].pc = "check", ![Loop].stage = "direct",
                               ![Loop].outcome = "cancelled"]
        BY <1>5 DEF CancelReleased
      <3>2. "check" \in DutyPcs /\ "direct" \in Stages /\ "cancelled" \in Ends
        BY DEF DutyPcs, Stages, Ends
      <3> QED BY <1>2, <3>1, <3>2, SetsPcStageOutcome
    <2> HIDE DEF k
    <2>5. Staged(Loop)' /\ RowHeld(Loop)' /\ Telling(Loop)'
      <3>1. "cancelled" \in Ends
        BY DEF Ends
      <3> QED BY <1>2, <1>3, <2>3, <2>4, <3>1 DEF Staged, RowHeld, Telling, Now, Duties, Notes
    <2>6. Starts(Loop)
      BY <1>5, <2>4 DEF Starts, Now
    <2>7. LoopAlone' /\ Backstop'
      BY <2>4 DEF LoopAlone, Booting, Scanning, Expiry, Backstop, Now
    <2> QED BY <1>1, <1>2, <1>4, <2>3, <2>4, <2>5, <2>6, <2>7, LoopBegins DEF Now
  <1>6. CASE row[k].status # "queued"
    <2>1. row' = row /\ job' = [job EXCEPT ![Loop].pc = "release", ![Loop].sub = P]
      BY <1>6 DEF CancelReleased
    <2>2. Store({Loop})
      BY <1>1, <1>2, <2>1, OneRow DEF Rows
    <2>3. "release" \in LoopPcs
      BY DEF LoopPcs
    <2>4. Now(Loop, "release", P, job[Loop].outcome, job[Loop].stage, job[Loop].todo, job[Loop].pend)
      BY <1>2, <2>1, <2>3, SetsPcSub
    <2> QED BY <1>1, <1>2, <1>4, <2>2, <2>4, LoopRests
  <1> QED BY <1>5, <1>6

LEMMA ReleaseExpiredStep ==
  ASSUME Invariant, ReleaseExpired
  PROVE  Invariant'
  <1>1. /\ job[Loop].pc \in LoopPcs /\ job[Loop].pc \in LoopOwn /\ At(Loop, "release")
        /\ UNCHANGED <<log, settled, lapsed, turn, nudge, crashes>>
    BY DEF ReleaseExpired, At, LoopOwn, LoopPcs
  <1>2. /\ TypeOK /\ Loop \in Threads /\ Loop \notin Subs
        /\ job \in [Threads -> Job] /\ row \in [Subs -> Row]
        /\ job[Loop].pend \subseteq Kids /\ job[Loop].todo \subseteq Subs
        /\ job[Loop].stage \in {"none", "prompt", "resume"}
    BY <1>1, LoopKnows
  <1>3. PICK s \in job[Loop].todo :
          LET rest == [job[Loop] EXCEPT !.todo = @ \ {s}]
          IN IF job[s].pc # "idle" \/ row[s].status # "running"
             THEN job' = [job EXCEPT ![Loop] = rest] /\ UNCHANGED row
             ELSE /\ row' = Released(s)
                  /\ job' = [job EXCEPT ![Loop] =
                       IF s \in rest.pend THEN [rest EXCEPT !.pc = "cancelled", !.sub = s]
                                          ELSE rest]
    BY DEF ReleaseExpired
  <1>4. crashes # 0
    BY <1>1 DEF Invariant, CrashFree, At
  <1> DEFINE d == job[Loop].todo \ {s}
             rest == [job[Loop] EXCEPT !.todo = @ \ {s}]
             flagged == [rest EXCEPT !.pc = "cancelled", !.sub = s]
  <1>5. d \in SUBSET Subs /\ s \in Subs /\ job[Loop] \in Job
    BY <1>2
  <1>6. /\ rest \in Job /\ rest.pc = job[Loop].pc /\ rest.sub = job[Loop].sub
        /\ rest.outcome = job[Loop].outcome /\ rest.stage = job[Loop].stage
        /\ rest.todo = d /\ rest.pend = job[Loop].pend
    BY <1>5 DEF Job
  <1>7. /\ flagged \in Job /\ flagged.pc = "cancelled" /\ flagged.sub = s
        /\ flagged.outcome = job[Loop].outcome /\ flagged.stage = job[Loop].stage
        /\ flagged.todo = d /\ flagged.pend = job[Loop].pend
    BY <1>5 DEF Job, LoopPcs
  <1>8. \/ row' = row /\ job' = [job EXCEPT ![Loop] = rest]
        \/ /\ job[s].pc = "idle" /\ row[s].status = "running" /\ row' = Released(s)
           /\ \/ s \in job[Loop].pend /\ job' = [job EXCEPT ![Loop] = flagged]
              \/ job' = [job EXCEPT ![Loop] = rest]
    BY <1>3, <1>6
  <1> HIDE DEF d, rest, flagged
  <1>9. Rows({Loop})
    <2>1. CASE row' = row
      BY <2>1 DEF Rows
    <2>2. CASE job[s].pc = "idle" /\ row[s].status = "running" /\ row' = Released(s)
      <3>1. Becomes(s, "queued", row[s].flag, FALSE)
        <4>1. row' = [row EXCEPT ![s].status = "queued", ![s].leased = FALSE]
          BY <2>2 DEF Released
        <4>2. "queued" \in Statuses
          BY DEF Statuses
        <4> QED BY <1>2, <1>5, <4>1, <4>2 DEF Becomes, Row
      <3> QED BY <1>5, <2>2, <3>1 DEF Rows, Releases
    <2> QED BY <1>8, <2>1, <2>2
  <1>a. Store({Loop})
    BY <1>1, <1>2, <1>9, OneRow
  <1>b. CASE job' = [job EXCEPT ![Loop] = rest]
    <2>1. Now(Loop, "release", job[Loop].sub, job[Loop].outcome, job[Loop].stage, d, job[Loop].pend)
      BY <1>1, <1>2, <1>6, <1>b DEF Now, Like, At
    <2> QED BY <1>1, <1>2, <1>4, <1>a, <2>1, LoopRests
  <1>c. CASE s \in job[Loop].pend /\ job' = [job EXCEPT ![Loop] = flagged]
    <2>1. Now(Loop, "cancelled", s, job[Loop].outcome, job[Loop].stage, d, job[Loop].pend)
      BY <1>2, <1>7, <1>c DEF Now, Like
    <2>2. LoopAlone' /\ Backstop'
      BY <1>2, <2>1 DEF LoopAlone, Booting, Scanning, Expiry, Backstop, Now
    <2>3. "cancelled" \in LoopOwn /\ s \in Kids
      BY <1>2, <1>c DEF LoopOwn, LoopPcs
    <2> QED BY <1>1, <1>2, <1>4, <1>a, <2>1, <2>2, <2>3, LoopPasses DEF Now, At
  <1> QED BY <1>8, <1>b, <1>c

(* A claim moves two threads: the loop, and the run it starts. *)
LEMMA BegunIs ==
  ASSUME TypeOK, NEW s \in Subs
  PROVE  /\ Begun(s) \in Job /\ Begun(s).sub = s
         /\ Begun(s).stage \in {"none", "prompt", "resume"}
         /\ Begun(s).todo = {} /\ Begun(s).pend = {}
         /\ \/ Begun(s).pc = "settle" /\ Begun(s).outcome \in Ends
            \/ s = P /\ Begun(s).pc = "scan"
            \/ s # P /\ Begun(s).pc = "register"
  <1>1. ASSUME NEW p \in {"settle", "scan", "register"}, NEW g \in {"none", "prompt", "resume"},
               NEW o \in Ends \cup {"none"}
        PROVE  LET r == NewJob(s, p, g, o)
               IN  /\ r \in Job /\ r.pc = p /\ r.sub = s /\ r.stage = g /\ r.outcome = o
                   /\ r.todo = {} /\ r.pend = {}
    BY DEF NewJob, Job, RunPcs, Stages
  <1>2. "cancelled" \in Ends /\ "done" \in Ends
    BY DEF Ends
  <1>3. CASE row[s].flag
    <2>1. Begun(s) = NewJob(s, "settle", "none", "cancelled")
      BY <1>3 DEF Begun
    <2> QED BY <1>1, <1>2, <2>1
  <1>4. CASE ~row[s].flag /\ Claimed(s).count > MaxAttempts
    <2>1. Begun(s) = NewJob(s, "settle", "none", "done")
      BY <1>4 DEF Begun
    <2> QED BY <1>1, <1>2, <2>1
  <1>5. CASE ~row[s].flag /\ ~(Claimed(s).count > MaxAttempts)
    <2>1. Begun(s) = NewJob(s, IF s = P THEN "scan" ELSE "register",
                            IF row[s].resume THEN "resume" ELSE "prompt", "none")
      BY <1>5 DEF Begun
    <2>2. PICK p \in {"scan", "register"}, g \in {"none", "prompt", "resume"} :
            Begun(s) = NewJob(s, p, g, "none") /\ p = (IF s = P THEN "scan" ELSE "register")
      BY <2>1
    <2> QED BY <1>1, <2>2
  <1> QED BY <1>3, <1>4, <1>5

LEMMA ClaimBegins ==
  ASSUME Invariant, At(Loop, "claiming"), NEW s \in Subs, job[s].pc = "idle",
         row[s].status = "queued", Becomes(s, "running", row[s].flag, TRUE),
         UNCHANGED <<log, settled, lapsed, turn, nudge, crashes>>,
         job' \in [Threads -> Job], (job')[s] = Begun(s),
         (job')[Loop].pc = job[Loop].pc, (job')[Loop].stage = job[Loop].stage,
         (job')[Loop].sub = job[Loop].sub, (job')[Loop].pend = job[Loop].pend,
         \A u \in Threads \ {Loop, s} : Like(u)
  PROVE  Invariant'
  <1> DEFINE T == {Loop, s}
  <1>1. job[Loop].pc \in LoopOwn /\ job[Loop].pc = "claiming"
    BY DEF At, LoopOwn, LoopPcs
  <1>2. /\ TypeOK /\ Loop \in Threads /\ Loop \notin Subs /\ s \in Threads /\ s # Loop
        /\ Loop \notin Kids /\ P # Loop /\ P \notin Kids
        /\ job[Loop].stage \in {"none", "prompt", "resume"} /\ job[Loop].pend \subseteq Kids
    BY <1>1, LoopKnows DEF Threads, Subs
  <1>3. Rows(T)
    BY DEF Rows, Claims
  <1>4. Store(T) /\ Quiet
    BY <1>2, <1>3, OneRow
  <1>5. T \subseteq Threads /\ Moves(T)
    BY <1>2, <1>4 DEF Moves
  <1>6. (row')[s].status = "running" /\ (row')[s].leased
    BY DEF Becomes
  <1>7. /\ (job')[s].sub = s /\ (job')[s].stage \in {"none", "prompt", "resume"}
        /\ (job')[s].todo = {} /\ (job')[s].pend = {}
        /\ \/ (job')[s].pc = "settle" /\ (job')[s].outcome \in Ends
           \/ s = P /\ (job')[s].pc = "scan"
           \/ s # P /\ (job')[s].pc = "register"
    BY <1>2, BegunIs
  <1>8. Does(Loop)
    <2>1. Placed(Loop)' /\ Staged(Loop)'
      BY <1>1, <1>2 DEF Placed, Staged, Duties, Notes, LoopPcs
    <2>2. RowHeld(Loop)' /\ Telling(Loop)'
      BY <1>1, <1>2 DEF RowHeld, Telling, Notes
    <2>3. Starts(Loop) /\ Drives(Loop) /\ Reaches(Loop) /\ WakesOn(Loop)
      BY <1>1, <1>2 DEF Starts, Drives, Reaches, WakesOn, Settling, At
    <2>4. Works(Loop)
      BY <1>1, <1>2 DEF Works
    <2>5. LoopAlone' /\ Backstop'
      BY <1>1, <1>2 DEF LoopAlone, Booting, Scanning, Expiry, Backstop
    <2> QED BY <1>2, <2>1, <2>2, <2>3, <2>4, <2>5 DEF Does, View
  <1>9. Does(s)
    <2>1. Placed(s)' /\ Staged(s)'
      BY <1>2, <1>7 DEF Placed, Staged, Duties, Notes, Turns
    <2>2. RowHeld(s)' /\ Telling(s)'
      BY <1>2, <1>6, <1>7 DEF RowHeld, Telling, Notes
    <2>3. Starts(s) /\ Drives(s) /\ Reaches(s) /\ WakesOn(s)
      BY <1>7 DEF Starts, Drives, Reaches, WakesOn, Settling, Waking, DutyPcs, At
    <2>4. Works(s)
      BY <1>2, <1>6, <1>7 DEF Works, Working, Turns
    <2>5. s = P => Parked' /\ Calling' /\ Dangling' /\ Orphans'
      <3>1. s = P => Drained
        BY DEF Invariant, Calling
      <3> QED BY <1>4, <1>6, <1>7, <3>1 DEF Parked, Calling, Dangling, Orphans, Cascading, Drained, Quiet
    <2> QED BY <1>2, <2>1, <2>2, <2>3, <2>4, <2>5 DEF Does, View
  <1>a. ~Settling(Loop)' /\ ~Settling(s)'
    BY <1>1, <1>7 DEF Settling
  <1>b. /\ \A t \in T : Does(t)
        /\ \A t, u \in T : Settling(t)' /\ Settling(u)' => t = u
        /\ Loop \in T /\ (P \in T => row[P].status # "waiting")
    BY <1>2, <1>8, <1>9, <1>a
  <1> HIDE DEF T
  <1> QED BY <1>5, <1>b, Composed

LEMMA ClaimSubmissionStep ==
  ASSUME Invariant, ClaimSubmission
  PROVE  Invariant'
  <1>1. /\ job[Loop].pc \in LoopPcs /\ job[Loop].pc \in LoopOwn /\ At(Loop, "claiming")
        /\ job[Loop].pc = "claiming"
        /\ UNCHANGED <<log, settled, lapsed, turn, nudge, crashes>>
    BY DEF ClaimSubmission, At, LoopOwn, LoopPcs
  <1>2. /\ TypeOK /\ Loop \in Threads /\ Loop \notin Subs
        /\ job \in [Threads -> Job] /\ row \in [Subs -> Row]
        /\ job[Loop].pend \subseteq Kids /\ job[Loop].todo \subseteq Subs
    BY <1>1, LoopKnows
  <1>3. PICK s \in job[Loop].todo :
          IF job[s].pc # "idle" \/ row[s].status # "queued"
          THEN job' = [job EXCEPT ![Loop].todo = @ \ {s}] /\ UNCHANGED row
          ELSE /\ row' = [row EXCEPT ![s] = Claimed(s)]
               /\ job' = [job EXCEPT ![Loop].todo = @ \ {s}, ![s] = Begun(s)]
    BY DEF ClaimSubmission
  <1> DEFINE d == job[Loop].todo \ {s}
  <1>4. d \in SUBSET Subs /\ s \in Subs /\ s \in Threads /\ s # Loop
    BY <1>2 DEF Threads
  <1>5. CASE row' = row /\ job' = [job EXCEPT ![Loop].todo = @ \ {s}]
    <2>1. Store({Loop})
      BY <1>1, <1>2, <1>5, OneRow DEF Rows
    <2>2. job' = [job EXCEPT ![Loop].todo = d]
      BY <1>5
    <2> HIDE DEF d
    <2>3. Now(Loop, "claiming", job[Loop].sub, job[Loop].outcome, job[Loop].stage, d, job[Loop].pend)
      BY <1>1, <1>2, <1>4, <2>2 DEF Now, Like, Job
    <2> QED BY <1>1, <1>2, <2>1, <2>3, LoopRests
  <1>6. CASE /\ job[s].pc = "idle" /\ row[s].status = "queued"
             /\ row' = [row EXCEPT ![s] = Claimed(s)]
             /\ job' = [job EXCEPT ![Loop].todo = @ \ {s}, ![s] = Begun(s)]
    <2> DEFINE c == Claimed(s)
               b == Begun(s)
               mid == [job EXCEPT ![Loop].todo = d]
    <2>1. c \in Row /\ c.status = "running" /\ c.flag = row[s].flag /\ c.leased = TRUE
      <3>1. row[s] \in Row /\ "running" \in Statuses
        BY <1>2, <1>4 DEF Statuses
      <3> DEFINE n == IF row[s].resume THEN row[s].count ELSE row[s].count + 1
      <3>2. n \in Nat
        BY <3>1 DEF Row
      <3>3. c = [row[s] EXCEPT !.status = "running", !.leased = TRUE, !.resume = FALSE, !.count = n]
        BY DEF Claimed
      <3> HIDE DEF n, c
      <3> QED BY <3>1, <3>2, <3>3 DEF Row
    <2>2. b \in Job
      BY <1>2, <1>4, BegunIs
    <2>3. row' = [row EXCEPT ![s] = c] /\ job' = [mid EXCEPT ![s] = b]
      BY <1>6
    <2> HIDE DEF c, b, d
    <2>4. Becomes(s, "running", row[s].flag, TRUE)
      BY <1>2, <1>4, <2>1, <2>3 DEF Becomes
    <2>5. /\ mid \in [Threads -> Job] /\ mid[Loop].pc = job[Loop].pc
          /\ mid[Loop].stage = job[Loop].stage /\ mid[Loop].sub = job[Loop].sub
          /\ mid[Loop].pend = job[Loop].pend
          /\ \A u \in Threads \ {Loop} : mid[u] = job[u]
      BY <1>2, <1>4 DEF Job
    <2> HIDE DEF mid
    <2>6. /\ job' \in [Threads -> Job] /\ (job')[s] = b /\ (job')[Loop] = mid[Loop]
          /\ \A u \in Threads \ {Loop, s} : (job')[u] = job[u]
      BY <1>2, <1>4, <2>2, <2>3, <2>5
    <2>7. (job')[s] = Begun(s) /\ \A u \in Threads \ {Loop, s} : Like(u)
      BY <2>6 DEF b, Like
    <2> QED BY <1>1, <1>4, <1>6, <2>4, <2>5, <2>6, <2>7, ClaimBegins
  <1> QED BY <1>3, <1>5, <1>6

----------------------------------------------------------------------------
(* The consumer, time and failure. *)

LEMMA Apart ==
  ASSUME Invariant, Store({}), job' = job
  PROVE  Invariant'
  <1> DEFINE T == {}
  <1>1. T \subseteq Threads /\ Store(T) /\ job \in [Threads -> Job]
    BY DEF Invariant, TypeOK
  <1>2. Moves(T)
    BY <1>1 DEF Moves, Like
  <1>3. /\ \A t \in T : Does(t)
        /\ \A t, u \in T : Settling(t)' /\ Settling(u)' => t = u
        /\ \A s \in T : job[s].pc # "idle"
        /\ P \in T => row[P].status # "waiting"
    OBVIOUS
  <1> HIDE DEF T
  <1> QED BY <1>1, <1>2, <1>3, Composed

LEMMA LeaseExpiresStep ==
  ASSUME Invariant, NEW s \in Subs, LeaseExpires(s)
  PROVE  Invariant'
  <1>1. TypeOK /\ row \in [Subs -> Row]
    BY DEF Invariant, TypeOK
  <1>2. row' = [row EXCEPT ![s].leased = FALSE] /\ row[s].status = "running" /\ job[s].pc = "idle"
    BY DEF LeaseExpires
  <1>3. Becomes(s, "running", row[s].flag, FALSE)
    BY <1>1, <1>2 DEF Becomes, Row
  <1>4. Rows({})
    BY <1>2, <1>3 DEF Rows, Expires
  <1>5. Store({})
    BY <1>1, <1>4, OneRow DEF LeaseExpires
  <1> QED BY <1>5, Apart DEF LeaseExpires

LEMMA WaitLapsesStep ==
  ASSUME Invariant, WaitLapses
  PROVE  Invariant'
  <1>1. TypeOK
    BY DEF Invariant
  <1>2. /\ row' = row /\ log' = log /\ settled' = settled /\ lapsed' = TRUE /\ job' = job
        /\ Quiet
    BY DEF WaitLapses, turn, Quiet
  <1>3. Store({})
    BY <1>1, <1>2, LogSame DEF Store, Rows, Settles, Talks, Others, Quiet, TypeOK
  <1> QED BY <1>2, <1>3, Apart

LEMMA Stutters ==
  ASSUME Invariant, UNCHANGED vars
  PROVE  Invariant'
  <1>1. Still /\ Quiet /\ job' = job
    BY DEF vars, Still, Quiet
  <1> QED BY <1>1, Quietly, Apart

LEMMA ConsumeEventStep ==
  ASSUME Invariant, ConsumeEvent
  PROVE  Invariant'
  <1>1. /\ TypeOK /\ Spawning /\ events # <<>> /\ events \in Seq(Heard) /\ ~Drained
    BY DEF Invariant, TypeOK, ConsumeEvent, Drained, Heard
  <1>2. /\ row' = row /\ settled' = settled /\ lapsed' = lapsed /\ job' = job
        /\ suspended' = suspended /\ called' = called /\ parkedLate' = parkedLate
        /\ nudge' = nudge /\ crashes' = crashes /\ events' = Tail(events)
    BY DEF ConsumeEvent
  <1> DEFINE kind == Head(events)[1]
             k    == Head(events)[2]
  <1>3. /\ kind \in {"call", "spawn", "rejected"} /\ k \in Kids
        /\ kind = "spawn" => k \in Children
    <2>1. Head(events) \in Heard /\ Head(events) = events[1] /\ 1 \in 1 .. Len(events)
      BY <1>1
    <2> QED BY <1>1, <2>1 DEF Heard, Spawning
  <1>4. \/ kind = "spawn" /\ author' = {j \in {k} : ~Spawned(j)} /\ log' = log
        \/ kind # "spawn" /\ Put(k, kind) /\ author' = author
    BY DEF ConsumeEvent
  <1>5. Children' = Children
    BY <1>2 DEF Children
  <1> HIDE DEF kind, k
  <1>6. Logs
    <2>1. CASE log' = log
      BY <1>1, <2>1, LogSame
    <2>2. CASE kind # "spawn" /\ Put(k, kind)
      <3>1. kind \in Records /\ Allowed({k}, kind)
        BY <1>3, <2>2 DEF Records, Answers, Allowed
      <3> QED BY <1>1, <1>3, <2>2, <3>1, LogOne
    <2> QED BY <1>4, <2>1, <2>2
  <1>7. Talks({})
    <2>1. events' \in Seq(Heard) /\ \A i \in 1 .. Len(events') : i + 1 \in 1 .. Len(events) /\ (events')[i] = events[i + 1]
      BY <1>1, <1>2
    <2>2. \A i \in 1 .. Len(events') : (events')[i][1] = "spawn" => (events')[i][2] \in Children'
      BY <1>1, <1>5, <2>1 DEF Spawning
    <2>3. author' \subseteq Children'
      BY <1>1, <1>3, <1>4, <1>5 DEF Spawning, TypeOK
    <2>4. called' \subseteq Kids /\ Children' \subseteq called'
      BY <1>1, <1>2, <1>5 DEF Spawning, TypeOK
    <2> QED BY <1>1, <1>2, <2>1, <2>2, <2>3, <2>4 DEF Talks, Heard
  <1>8. Store({})
    BY <1>1, <1>2, <1>6, <1>7 DEF Store, Rows, Settles, Others, TypeOK
  <1> QED BY <1>2, <1>8, Apart

LEMMA ConsumerAuthorsStep ==
  ASSUME Invariant, ConsumerAuthors
  PROVE  Invariant'
  <1>1. TypeOK /\ Spawning /\ Calling
    BY DEF Invariant
  <1>2. /\ row' = row /\ settled' = settled /\ lapsed' = lapsed /\ job' = job
        /\ suspended' = suspended /\ called' = called /\ parkedLate' = parkedLate
        /\ nudge' = nudge /\ crashes' = crashes /\ events' = events /\ author' = {}
    BY DEF ConsumerAuthors
  <1>3. PICK k \in author : Put(k, "spawn")
    BY DEF ConsumerAuthors
  <1>4. k \in Kids /\ k \in Children /\ ~Drained
    BY <1>1, <1>3 DEF TypeOK, Spawning, Drained
  <1>5. job[P].pc # "exempt"
    BY <1>1, <1>4 DEF Calling
  <1>6. Logs
    <2>1. "spawn" \in Records /\ Allowed({k}, "spawn")
      BY <1>4, <1>5 DEF Records, Allowed
    <2> QED BY <1>1, <1>3, <1>4, <2>1, LogOne
  <1>7. Children' = Children
    BY <1>2 DEF Children
  <1>8. Talks({})
    BY <1>1, <1>2, <1>4, <1>7 DEF Talks, Spawning, TypeOK
  <1>9. Store({})
    BY <1>1, <1>2, <1>6, <1>8 DEF Store, Rows, Settles, Others, TypeOK
  <1> QED BY <1>2, <1>9, Apart

LEMMA Idling ==
  ASSUME NEW t \in Threads
  PROVE  /\ Idle(t) \in Job /\ Idle(t).pc = (IF t = Loop THEN "boot" ELSE "idle")
         /\ Idle(t).sub = (IF t = Loop THEN P ELSE t) /\ Idle(t).stage = "none"
         /\ Idle(t).todo = {} /\ Idle(t).pend = {}
  <1>1. CASE t = Loop
    BY <1>1 DEF Idle, NewJob, Job, LoopPcs, Stages, Subs
  <1>2. CASE t # Loop
    BY <1>2 DEF Idle, NewJob, Job, RunPcs, Stages, Subs, Threads
  <1> QED BY <1>1, <1>2

(* A process that starts: nobody is at work, and that holds all of its own. *)
Fresh ==
  /\ \A t \in Threads : /\ job[t].pc = (IF t = Loop THEN "boot" ELSE "idle")
                        /\ job[t].sub = (IF t = Loop THEN P ELSE t) /\ job[t].stage = "none"
                        /\ job[t].todo = {} /\ job[t].pend = {}
  /\ events = <<>> /\ author = {}
  /\ \A k \in Children : row[P].status = "waiting" => Spawned(k)

Ready ==
  /\ \A t \in Threads : View(t)
  /\ OneSettles /\ LoopAlone /\ Backstop /\ CancelReachesRun
  /\ Parked /\ Calling /\ Dangling /\ Orphans

LEMMA FreshStarts == Fresh => Ready
  <1> SUFFICES ASSUME Fresh PROVE Ready
    OBVIOUS
  <1>1. /\ Loop \in Threads /\ P \in Threads /\ P # Loop /\ Subs \subseteq Threads
        /\ Loop \notin Subs /\ Kids \subseteq Subs /\ P \in Subs /\ P \notin Kids
    BY SubagentsAssumption DEF Threads, Subs
  <1>2. ASSUME NEW t \in Threads
        PROVE  View(t)
    <2>1. /\ job[t].pc \in {"boot", "idle"} /\ job[t].stage = "none" /\ job[t].pend = {}
          /\ job[t].pc = "boot" <=> t = Loop
          /\ t # Loop => job[t].sub = t
      BY DEF Fresh
    <2>2. Placed(t)
      BY <1>1, <2>1 DEF Placed, Duties, Notes, LoopPcs
    <2>3. Staged(t) /\ RowHeld(t) /\ Telling(t)
      BY <2>1 DEF Staged, RowHeld, Telling, Duties, Notes, Working, Turns
    <2> QED BY <2>2, <2>3 DEF View
  <1>3. OneSettles /\ CancelReachesRun
    BY <1>1 DEF Fresh, OneSettles, Settling, CancelReachesRun, At
  <1>4. job[Loop].pc = "boot" /\ job[Loop].stage = "none" /\ job[P].pc = "idle" /\ job[P].stage = "none"
    BY <1>1 DEF Fresh
  <1>5. LoopAlone /\ Backstop
    <2>1. \A s \in Subs : job[s].pc = "idle"
      BY <1>1 DEF Fresh
    <2> QED BY <1>4, <2>1 DEF LoopAlone, Backstop, Scanning, Expiry
  <1>6. Parked /\ Calling /\ Dangling /\ Orphans
    BY <1>4 DEF Parked, Calling, Dangling, Orphans, Cascading, Drained, Fresh
  <1> QED BY <1>2, <1>3, <1>5, <1>6 DEF Ready

LEMMA CrashStep ==
  ASSUME Invariant, Crash
  PROVE  Invariant'
  <1>1. /\ TypeOK /\ Parked /\ Spawning /\ Recorded /\ NoFabricatedError /\ WakeOrder
    BY DEF Invariant
  <1>2. /\ row' = row /\ log' = log /\ settled' = settled /\ lapsed' = lapsed
        /\ called' = called /\ parkedLate' = parkedLate /\ crashes' = crashes + 1
        /\ events' = <<>> /\ author' = {} /\ suspended' = FALSE /\ nudge' = FALSE
        /\ job' = [t \in Threads |-> Idle(t)]
    BY DEF Crash, store
  <1>3. job' \in [Threads -> Job] /\ \A t \in Threads : (job')[t] = Idle(t)
    BY <1>2, Idling
  <1>4. \A k \in Children' : (row')[P].status = "waiting" => Spawned(k)'
    BY <1>1, <1>2 DEF Parked, Spawned, Logged, Children
  <1>5. Fresh'
    <2>1. ASSUME NEW t \in Threads
          PROVE  /\ (job')[t].pc = (IF t = Loop THEN "boot" ELSE "idle")
                 /\ (job')[t].sub = (IF t = Loop THEN P ELSE t) /\ (job')[t].stage = "none"
                 /\ (job')[t].todo = {} /\ (job')[t].pend = {}
      BY <1>3, Idling
    <2> QED BY <1>2, <1>4, <2>1 DEF Fresh
  <1>6. Ready'
    BY <1>5, FreshStarts, PTL
  <1>7. TypeOK'
    <2>1. crashes' \in Nat /\ events' \in Seq({"call", "spawn", "rejected"} \X Kids)
      BY <1>1, <1>2 DEF TypeOK
    <2> QED BY <1>1, <1>2, <1>3, <2>1 DEF TypeOK
  <1>8. Spawning'
    BY <1>1, <1>2 DEF Spawning, Spawned, Logged, Children
  <1>9. Recorded' /\ NoFabricatedError' /\ WakeOrder'
    BY <1>1, <1>2 DEF Recorded, AnswerIsOutcome, NoFabricatedError, WakeOrder, Logged, Terminal
  <1>a. CrashFree' /\ WokenByChildren'
    BY <1>1, <1>2 DEF CrashFree, WokenByChildren, TypeOK
  <1> QED BY <1>6, <1>7, <1>8, <1>9, <1>a DEF Invariant, Ready

LEMMA InitInvariant ==
  ASSUME Init
  PROVE  Invariant
  <1>1. P \in Subs /\ Kids \subseteq Subs /\ P \notin Kids /\ Subs \subseteq Threads
        /\ Loop \in Threads /\ Loop \notin Subs
    BY SubagentsAssumption DEF Subs, Threads
  <1>2. /\ row \in [Subs -> Row] /\ row[P].status = "queued" /\ ~row[P].flag
        /\ \A k \in Kids : row[k].status = "absent"
    <2>1. \A s \in Subs : NewRow(IF s = P THEN "queued" ELSE "absent") \in Row
      BY DEF NewRow, Row, Statuses
    <2>2. row = [s \in Subs |-> NewRow(IF s = P THEN "queued" ELSE "absent")]
      BY DEF Init
    <2> QED BY <1>1, <2>1, <2>2 DEF NewRow
  <1>3. \A s \in Subs : row[s].status \in {"queued", "absent"}
    BY <1>2 DEF Subs
  <1>4. job \in [Threads -> Job] /\ \A t \in Threads : job[t] = Idle(t)
    BY Idling DEF Init
  <1>5. Children = {} /\ Live = {}
    BY <1>2 DEF Children, Live
  <1>6. log = [k \in Kids |-> <<>>] /\ settled = [s \in Subs |-> <<>>]
    BY DEF Init
  <1>7. \A k \in Kids : Len(log[k]) = 0
    BY <1>6
  <1>8. Fresh
    <2>1. ASSUME NEW t \in Threads
          PROVE  /\ job[t].pc = (IF t = Loop THEN "boot" ELSE "idle")
                 /\ job[t].sub = (IF t = Loop THEN P ELSE t) /\ job[t].stage = "none"
                 /\ job[t].todo = {} /\ job[t].pend = {}
      BY <1>4, Idling
    <2> QED BY <1>5, <2>1 DEF Fresh, Init
  <1>9. TypeOK
    <2>1. log \in [Kids -> Seq(Records)] /\ settled \in [Subs -> Seq(Ends)]
      BY <1>6
    <2>2. /\ lapsed \in BOOLEAN /\ suspended \in BOOLEAN /\ nudge \in BOOLEAN
          /\ parkedLate \in BOOLEAN /\ crashes \in Nat
          /\ author \subseteq Kids /\ called \subseteq Kids
      BY DEF Init
    <2>3. events \in Seq({"call", "spawn", "rejected"} \X Kids)
      BY DEF Init
    <2> QED BY <1>2, <1>4, <2>1, <2>2, <2>3 DEF TypeOK
  <1>a. Ready
    BY <1>8, FreshStarts
  <1>b. Spawning
    BY <1>2, <1>5, <1>7 DEF Spawning, Spawned, Logged, Init
  <1>c. Recorded
    BY <1>6, <1>7 DEF Recorded, AnswerIsOutcome, Logged
  <1>d. NoFabricatedError /\ WakeOrder
    BY <1>7 DEF NoFabricatedError, WakeOrder
  <1>e. CrashFree
    <2>1. job[Loop].pc = "boot" /\ job[Loop].stage = "none"
      BY <1>1, <1>8 DEF Fresh
    <2> QED BY <1>3, <2>1 DEF CrashFree
  <1>f. WokenByChildren
    BY <1>5 DEF WokenByChildren
  <1> QED BY <1>9, <1>a, <1>b, <1>c, <1>d, <1>e, <1>f DEF Invariant, Ready

----------------------------------------------------------------------------
(* Every step keeps the invariant. *)

LEMMA DutySteps ==
  ASSUME Invariant, NEW t \in Threads, Duty(t)
  PROVE  Invariant'
  <1>1. CASE CheckSettled(t) \/ AppendSettled(t) \/ FinalizeSettlement(t)
    BY <1>1, CheckSettledStep, AppendSettledStep, FinalizeSettlementStep
  <1>2. CASE LoadParent(t) \/ CheckSpawnRecord(t) \/ RepairSpawnRecord(t)
    BY <1>2, LoadParentStep, CheckSpawnRecordStep, RepairSpawnRecordStep
  <1>3. CASE \/ CheckAnswered(t) \/ AppendAnswer(t) \/ ListSiblings(t) \/ ResumeParent(t)
    BY <1>3, CheckAnsweredStep, AppendAnswerStep, ListSiblingsStep, ResumeParentStep
  <1>4. CASE CancelChild(t) \/ CancelLiveRun(t)
    <2>1. job[t].pc \in {"cascade", "cancel", "interrupt"}
      BY <1>4 DEF CancelChild, CancelLiveRun, At
    <2>2. Placed(t)
      BY DEF Invariant, View
    <2>3. t \notin Kids
      BY <2>1, <2>2 DEF Placed, Duties, Notes
    <2>4. t = P \/ t = Loop
      BY <2>3 DEF Threads, Subs
    <2> QED BY <1>4, <2>4, CancelChildParent, CancelChildLoop, CancelLiveRunParent, CancelLiveRunLoop
  <1> QED BY <1>1, <1>2, <1>3, <1>4 DEF Duty

LEMMA ChildSteps ==
  ASSUME Invariant, NEW k \in Kids, ChildStep(k)
  PROVE  Invariant'
  <1>1. k \in Subs /\ k \in Threads
    BY DEF Subs, Threads
  <1> QED BY <1>1, DutySteps, ReserveSettlementStep, BackOffStep, ChildStepKeeps DEF ChildStep

LEMMA ParentSteps ==
  ASSUME Invariant, ParentStep
  PROVE  Invariant'
  <1>1. P \in Subs /\ P \in Threads
    BY DEF Subs, Threads
  <1>2. CASE Duty(P) \/ ReserveSettlement(P) \/ BackOff(P)
    BY <1>1, <1>2, DutySteps, ReserveSettlementStep, BackOffStep
  <1>3. CASE ScanDanglingCalls \/ ExemptLiveChild \/ SynthesizeOutcomes \/ OpenTurn
    BY <1>3, ScanDanglingCallsStep, ExemptLiveChildStep, SynthesizeOutcomesStep, OpenTurnStep
  <1>4. CASE CallTasks \/ ExecuteTask \/ DispatchChild
    BY <1>4, CallTasksStep, ExecuteTaskStep, DispatchChildStep
  <1>5. CASE ListSpawned \/ RepairNext \/ WaitSubmission \/ ParentEnds
    BY <1>5, ListSpawnedStep, RepairNextStep, WaitSubmissionStep, ParentEndsStep
  <1>6. CASE ListOrphans \/ CascadeEnds
    BY <1>6, ListOrphansStep, CascadeEndsStep
  <1> QED BY <1>2, <1>3, <1>4, <1>5, <1>6 DEF ParentStep

LEMMA LoopSteps ==
  ASSUME Invariant, LoopStep
  PROVE  Invariant'
  <1>1. Loop \in Threads
    BY DEF Threads
  <1>2. CASE Duty(Loop) \/ ListTerminalizing \/ Reconcile
    BY <1>1, <1>2, DutySteps, ListTerminalizingStep, ReconcileStep
  <1>3. CASE ListExpiredWaits \/ ListChildrenToCancel \/ ReadPending \/ RecheckPending
    BY <1>3, ListExpiredWaitsStep, ExpiryStep
  <1>4. CASE AppendExpired \/ RequeueExpired
    BY <1>4, AppendExpiredStep, RequeueExpiredStep
  <1>5. CASE ListWaiting \/ ListSettledChildren \/ ReadBackstopPending \/ BackstopWake
    BY <1>5, ListWaitingStep, ListSettledChildrenStep, ReadBackstopPendingStep, BackstopWakeStep
  <1>6. CASE ListExpiredLeases \/ ReleaseExpired \/ CancelReleased
    BY <1>6, ListExpiredLeasesStep, ReleaseExpiredStep, CancelReleasedStep
  <1>7. CASE ListRunnable \/ ClaimSubmission
    BY <1>7, ListRunnableStep, ClaimSubmissionStep
  <1> QED BY <1>2, <1>3, <1>4, <1>5, <1>6, <1>7 DEF LoopStep

LEMMA InvariantKept ==
  Invariant /\ [Next]_vars => Invariant'
  <1> SUFFICES ASSUME Invariant, [Next]_vars PROVE Invariant'
    OBVIOUS
  <1>1. CASE \E k \in Kids : ChildStep(k)
    BY <1>1, ChildSteps
  <1>2. CASE ParentStep \/ LoopStep
    BY <1>2, ParentSteps, LoopSteps
  <1>3. CASE Consumer
    BY <1>3, ConsumeEventStep, ConsumerAuthorsStep DEF Consumer
  <1>4. CASE \E s \in Subs : LeaseExpires(s)
    BY <1>4, LeaseExpiresStep
  <1>5. CASE WaitLapses \/ Crash
    BY <1>5, WaitLapsesStep, CrashStep
  <1>6. CASE UNCHANGED vars
    BY <1>6, Stutters
  <1> QED BY <1>1, <1>2, <1>3, <1>4, <1>5, <1>6 DEF Next

(* The inductive invariant holds in every reachable state, whatever the
   children and the bounds. *)
THEOREM InvariantHolds == Spec => []Invariant
  BY InitInvariant, InvariantKept, PTL DEF Spec

(* The rows, the logs and the jobs of the threads keep their types: a duty,
   for one, always knows the outcome it appends. *)
THEOREM TypeCorrect == Spec => []TypeOK
  <1>1. Invariant => TypeOK
    BY DEF Invariant
  <1> QED BY <1>1, InvariantHolds, PTL

(* A cancel reaches the run it is for: runSubmission registers its cancel
   before it reads the row again, and CancelSubmission flags the row before
   cancelLiveRun looks for the run, so one of the two sees the other. *)
THEOREM CancelReaches == Spec => []CancelReachesRun
  <1>1. Invariant => CancelReachesRun
    BY DEF Invariant
  <1> QED BY <1>1, InvariantHolds, PTL

(* A log holds one settled record at most, and the parent is told what that
   of its child says, by whichever of the wakes, the repairs and the scans. *)
THEOREM AnswersTrue == Spec => []AnswerIsOutcome
  <1>1. Invariant => AnswerIsOutcome
    BY DEF Invariant, Recorded
  <1> QED BY <1>1, InvariantHolds, PTL

(* reconcileDanglingToolCalls answers no call whose child is at work. *)
THEOREM NoneFabricated == Spec => []NoFabricatedError
  <1>1. Invariant => NoFabricatedError
    BY DEF Invariant
  <1> QED BY <1>1, InvariantHolds, PTL

(* An outcome of a child never comes before the record of its spawn. *)
THEOREM WakesInOrder == Spec => []WakeOrder
  <1>1. Invariant => WakeOrder
    BY DEF Invariant
  <1> QED BY <1>1, InvariantHolds, PTL

(* However many children settle at the same time, one of them wakes the
   parent that waits for them. *)
THEOREM ChildrenWake == Spec => []WokenByChildren
  <1>1. Invariant => WokenByChildren
    BY DEF Invariant
  <1> QED BY <1>1, InvariantHolds, PTL

----------------------------------------------------------------------------
(* The cascade. *)

LEMMA OthersLeaveCascade ==
  ASSUME Invariant, NEW t \in Threads \ {P}, Duty(t)
  PROVE  (job')[P].pc = job[P].pc
  <1>1. job \in [Threads -> Job] /\ P \in Threads
    BY DEF Invariant, TypeOK, Threads, Subs
  <1>2. CASE CheckSettled(t) \/ AppendSettled(t) \/ FinalizeSettlement(t)
    BY <1>1, <1>2 DEF CheckSettled, AppendSettled, FinalizeSettlement, Goto
  <1>3. CASE LoadParent(t) \/ CheckSpawnRecord(t) \/ RepairSpawnRecord(t)
    BY <1>1, <1>3 DEF LoadParent, CheckSpawnRecord, RepairSpawnRecord, Goto
  <1>4. CASE CheckAnswered(t) \/ AppendAnswer(t) \/ ListSiblings(t) \/ ResumeParent(t)
    BY <1>1, <1>4 DEF CheckAnswered, AppendAnswer, ListSiblings, ResumeParent, Goto
  <1>5. CASE CancelChild(t)
    BY <1>1, <1>5 DEF CancelChild
  <1>6. CASE CancelLiveRun(t)
    BY <1>1, <1>6 DEF CancelLiveRun, Job
  <1> QED BY <1>2, <1>3, <1>4, <1>5, <1>6 DEF Duty

LEMMA ChildrenLeaveCascade ==
  ASSUME Invariant, NEW k \in Kids, ChildStep(k)
  PROVE  (job')[P].pc = job[P].pc
  <1>1. /\ job \in [Threads -> Job] /\ P \in Threads
        /\ k \in Threads \ {P}
    BY SubagentsAssumption DEF Invariant, TypeOK, Threads, Subs
  <1>2. CASE Duty(k)
    BY <1>1, <1>2, OthersLeaveCascade
  <1>3. CASE ReserveSettlement(k) \/ BackOff(k)
    BY <1>1, <1>3 DEF ReserveSettlement, BackOff
  <1>4. CASE Register(k) \/ Recheck(k) \/ DriveEnds(k)
    BY <1>1, <1>4 DEF Register, Recheck, DriveEnds, Goto
  <1> QED BY <1>2, <1>3, <1>4 DEF ChildStep

LEMMA LoopLeavesCascade ==
  ASSUME Invariant, LoopStep, At(P, "cascade")
  PROVE  (job')[P].pc = job[P].pc
  <1>1. /\ job \in [Threads -> Job] /\ P \in Threads /\ Loop \in Threads \ {P}
    BY SubagentsAssumption DEF Invariant, TypeOK, Threads, Subs
  <1>2. CASE Duty(Loop)
    BY <1>1, <1>2, OthersLeaveCascade
  <1>3. CASE ListTerminalizing \/ Reconcile \/ ListExpiredWaits
    BY <1>1, <1>3 DEF ListTerminalizing, Reconcile, ListExpiredWaits, LoopGoes, Goto
  <1>4. CASE ListChildrenToCancel \/ ReadPending \/ RecheckPending
    BY <1>1, <1>4 DEF ListChildrenToCancel, ReadPending, RecheckPending, LoopGoes
  <1>5. CASE AppendExpired \/ RequeueExpired \/ ListWaiting
    BY <1>1, <1>5 DEF AppendExpired, RequeueExpired, ListWaiting, LoopGoes, Goto
  <1>6. CASE ListSettledChildren \/ ReadBackstopPending
    BY <1>1, <1>6 DEF ListSettledChildren, ReadBackstopPending, LoopGoes, Goto
  <1>7. CASE BackstopWake
    <2>1. PICK r : job' = [job EXCEPT ![Loop] = r]
      BY <1>7 DEF BackstopWake, LoopGoes
    <2> QED BY <1>1, <2>1
  <1>8. CASE ListExpiredLeases \/ ListRunnable
    BY <1>1, <1>8 DEF ListExpiredLeases, ListRunnable, LoopGoes
  <1>9. CASE ReleaseExpired \/ CancelReleased
    BY <1>1, <1>9 DEF ReleaseExpired, CancelReleased
  <1>a. CASE ClaimSubmission
    BY <1>1, <1>a DEF ClaimSubmission, At
  <1> QED BY <1>2, <1>3, <1>4, <1>5, <1>6, <1>7, <1>8, <1>9, <1>a DEF LoopStep

LEMMA CascadeOver ==
  ASSUME Invariant, CascadeEnds
  PROVE  \A k \in Live : Terminal(k) \/ (row[k].flag /\ (At(k, "drive") => job[k].cut))
  <1> SUFFICES ASSUME NEW k \in Live, ~Terminal(k)
               PROVE  row[k].flag /\ (At(k, "drive") => job[k].cut)
    OBVIOUS
  <1>1. At(P, "cascade") /\ job[P].todo = {} /\ k \in Kids
    BY DEF CascadeEnds, Live, Children
  <1>2. row[k].flag
    BY <1>1 DEF Invariant, Orphans, Cascading, At
  <1>3. ~At(Loop, "interrupt") /\ ~At(P, "interrupt")
    BY <1>1 DEF Invariant, LoopAlone, Scanning, At
  <1>4. At(k, "drive") => job[k].cut
    BY <1>1, <1>2, <1>3 DEF Invariant, CancelReachesRun
  <1> QED BY <1>2, <1>4

LEMMA ParentEndsCascade ==
  ASSUME Invariant, ParentStep, At(P, "cascade"), (job')[P].pc = "idle"
  PROVE  CascadeEnds
  <1>1. job \in [Threads -> Job] /\ P \in Threads /\ P # Loop /\ job[P].pc = "cascade"
    BY SubagentsAssumption DEF Invariant, TypeOK, Threads, Subs, At
  <1>2. ~(CheckSettled(P) \/ AppendSettled(P) \/ FinalizeSettlement(P))
    BY <1>1 DEF CheckSettled, AppendSettled, FinalizeSettlement, At
  <1>3. ~(LoadParent(P) \/ CheckSpawnRecord(P) \/ RepairSpawnRecord(P))
    BY <1>1 DEF LoadParent, CheckSpawnRecord, RepairSpawnRecord, At
  <1>4. ~(CheckAnswered(P) \/ AppendAnswer(P) \/ ListSiblings(P) \/ ResumeParent(P))
    BY <1>1 DEF CheckAnswered, AppendAnswer, ListSiblings, ResumeParent, At
  <1>5. ~CancelLiveRun(P)
    BY <1>1 DEF CancelLiveRun, At
  <1>6. ~CancelChild(P)
    <2> SUFFICES ASSUME CancelChild(P) PROVE FALSE
      OBVIOUS
    <2>1. PICK k \in job[P].todo :
            LET rest == [job[P] EXCEPT !.todo = @ \ {k}]
            IN  \/ job' = [job EXCEPT ![P] = rest]
                \/ job' = [job EXCEPT ![P] = [rest EXCEPT !.pc = "check", !.sub = k,
                                                !.stage = "direct", !.outcome = "cancelled"]]
                \/ job' = [job EXCEPT ![P] = [rest EXCEPT !.pc = "interrupt", !.sub = k]]
      BY <1>1 DEF CancelChild
    <2> DEFINE rest == [job[P] EXCEPT !.todo = @ \ {k}]
               toCheck == [rest EXCEPT !.pc = "check", !.sub = k,
                                       !.stage = "direct", !.outcome = "cancelled"]
               toInterrupt == [rest EXCEPT !.pc = "interrupt", !.sub = k]
    <2>2. rest.pc = "cascade" /\ toCheck.pc = "check" /\ toInterrupt.pc = "interrupt"
      BY <1>1 DEF Job
    <2>3. \/ job' = [job EXCEPT ![P] = rest] \/ job' = [job EXCEPT ![P] = toCheck]
          \/ job' = [job EXCEPT ![P] = toInterrupt]
      BY <2>1
    <2> HIDE DEF rest, toCheck, toInterrupt
    <2> QED BY <1>1, <2>2, <2>3
  <1>7. ~(ReserveSettlement(P) \/ BackOff(P))
    BY <1>1 DEF ReserveSettlement, BackOff, At
  <1>8. ~(ScanDanglingCalls \/ ExemptLiveChild \/ SynthesizeOutcomes \/ OpenTurn)
    BY <1>1 DEF ScanDanglingCalls, ExemptLiveChild, SynthesizeOutcomes, OpenTurn, At
  <1>9. ~(CallTasks \/ ExecuteTask \/ DispatchChild \/ ListSpawned)
    BY <1>1 DEF CallTasks, ExecuteTask, DispatchChild, ListSpawned, At
  <1>a. ~(RepairNext \/ WaitSubmission \/ ParentEnds \/ ListOrphans)
    BY <1>1 DEF RepairNext, WaitSubmission, ParentEnds, ListOrphans, At
  <1> QED BY <1>2, <1>3, <1>4, <1>5, <1>6, <1>7, <1>8, <1>9, <1>a DEF ParentStep, Duty

(* The children a parent leaves behind are cancelled: when cancelChildren is
   done, each is settled, about to be, or flagged and, if it drives,
   interrupted. *)
THEOREM OrphansGoToo == Spec => OrphansCancelled
  <1> DEFINE Leaves == At(P, "cascade") /\ (job')[P].pc = "idle" /\ crashes' = crashes
             Gone == \A k \in Live : \/ Terminal(k)
                                     \/ row[k].flag /\ (At(k, "drive") => job[k].cut)
  <1>1. Invariant /\ [Next]_vars => [Leaves => Gone]_vars
    <2> SUFFICES ASSUME Invariant, Next, At(P, "cascade"), (job')[P].pc = "idle",
                        crashes' = crashes
                 PROVE  Gone
      OBVIOUS
    <2>1. (job')[P].pc # job[P].pc
      BY DEF At
    <2>2. ParentStep
      <3>1. ~ \E k \in Kids : ChildStep(k)
        BY <2>1, ChildrenLeaveCascade
      <3>2. ~LoopStep
        BY <2>1, LoopLeavesCascade
      <3>3. ~Consumer /\ ~(\E s \in Subs : LeaseExpires(s)) /\ ~WaitLapses
        BY <2>1 DEF Consumer, ConsumeEvent, ConsumerAuthors, LeaseExpires, WaitLapses
      <3>4. ~Crash
        BY DEF Crash, Invariant, TypeOK
      <3> QED BY <3>1, <3>2, <3>3, <3>4 DEF Next
    <2>3. CascadeEnds
      BY <2>2, ParentEndsCascade
    <2> QED BY <2>3, CascadeOver
  <1> QED BY <1>1, InvariantHolds, PTL DEF Spec, OrphansCancelled

----------------------------------------------------------------------------
(* The resume of a parent that has one child. *)

(* What Resumable reads of a job; and that only the one of t changes. *)
Stays(u) ==
  /\ (job')[u].pc = job[u].pc /\ (job')[u].sub = job[u].sub
  /\ (job')[u].stage = job[u].stage /\ (job')[u].pend = job[u].pend

OnlyMoves(t) == \A u \in Threads \ {t} : Stays(u)

(* A step after which t relies on no answer. *)
Tame(t) ==
  /\ (job')[t].pc \notin {"siblings", "resume"}
  /\ t = Loop => (job')[t].pc \notin {"recheck", "expired", "requeue"}
  /\ t = P => (job')[t].stage # "resume"

(* A step that neither parks nor queues the parent, and admits no child. *)
Calm ==
  /\ (row')[P].status = "waiting" => row[P].status = "waiting"
  /\ (row')[P].resume => row[P].resume /\ (row')[P].status = row[P].status
  /\ Children' \subseteq Children

Grows == \A k \in Kids : Answered(k) => Answered(k)'

(* A step that relies on no new answer and takes none away. *)
LEMMA ResumableKept ==
  ASSUME Invariant, Resumable, NEW t \in Threads, OnlyMoves(t), Grows, Calm,
         AnsweredFirst(t)', t = Loop => Expiring', t = P => Resuming'
  PROVE  Resumable'
  <1>1. job \in [Threads -> Job] /\ P \in Threads /\ Loop \in Threads /\ Children \subseteq Kids
    BY DEF Invariant, TypeOK, Threads, Subs, Children
  <1>2. ASSUME NEW u \in Threads PROVE AnsweredFirst(u)'
    <2>1. CASE u = t
      BY <2>1
    <2>2. CASE u # t
      <3>1. Stays(u) /\ AnsweredFirst(u)
        BY <2>2 DEF OnlyMoves, Resumable
      <3>2. CASE (job')[u].pc \notin {"siblings", "resume"}
        BY <3>2 DEF AnsweredFirst
      <3>3. CASE (job')[u].pc \in {"siblings", "resume"}
        <4>1. job[u].pc \in {"siblings", "resume"} /\ (job')[u].sub = job[u].sub
          BY <3>1, <3>3 DEF Stays
        <4>2. job[u].sub \in Kids
          BY <4>1 DEF Invariant, View, Placed, Notes
        <4>3. PICK k \in Kids : k = job[u].sub
          BY <4>2
        <4>4. Answered(k)
          BY <3>1, <4>1, <4>3 DEF AnsweredFirst
        <4>5. Answered(k)' /\ (job')[u].sub = k
          BY <4>1, <4>3, <4>4 DEF Grows
        <4> QED BY <4>5 DEF AnsweredFirst, Answered, Logged
      <3> QED BY <3>2, <3>3
    <2> QED BY <2>1, <2>2
  <1>3. Expiring'
    <2>1. CASE t = Loop
      BY <2>1
    <2>2. CASE t # Loop
      <3>1. Stays(Loop)
        BY <1>1, <2>2 DEF OnlyMoves
      <3> QED BY <1>1, <3>1 DEF Resumable, Expiring, Stays, Calm, Grows
    <2> QED BY <2>1, <2>2
  <1>4. Marked'
    <2> SUFFICES ASSUME (row')[P].resume
                 PROVE  /\ (row')[P].status \in {"waiting", "queued"}
                        /\ (row')[P].status = "queued" => AllAnswered'
      BY DEF Marked
    <2>1. row[P].resume /\ (row')[P].status = row[P].status
      BY DEF Calm
    <2> QED BY <1>1, <2>1 DEF Resumable, Marked, AllAnswered, Calm, Grows
  <1>5. Resuming'
    <2>1. CASE t = P
      BY <2>1
    <2>2. CASE t # P
      <3>1. Stays(P)
        BY <1>1, <2>2 DEF OnlyMoves
      <3> QED BY <1>1, <3>1 DEF Resumable, Resuming, Stays, Calm, Grows, AllAnswered
    <2> QED BY <2>1, <2>2
  <1> QED BY <1>2, <1>3, <1>4, <1>5 DEF Resumable

(* ...of whatever thread. *)
LEMMA TameKept ==
  ASSUME Invariant, Resumable, NEW t \in Threads, OnlyMoves(t), Grows, Calm, Tame(t)
  PROVE  Resumable'
  <1>1. AnsweredFirst(t)' /\ (t = Loop => Expiring') /\ (t = P => Resuming')
    BY DEF Tame, AnsweredFirst, Expiring, Resuming
  <1> QED BY <1>1, ResumableKept

(* Most steps leave the log and the rows alone, or add to the log. *)
LEMMA StillGrows ==
  ASSUME log' = log
  PROVE  Grows
  BY DEF Grows, Answered, Logged

(* A record that is put lands at the end. *)
LEMMA PutGrows ==
  ASSUME TypeOK, NEW k \in Kids, NEW r \in Records, Put(k, r)
  PROVE  Grows /\ (r \in Answers => Answered(k)')
  <1>1. log \in [Kids -> Seq(Records)] /\ log' = [log EXCEPT ![k] = Append(log[k], r)]
    BY DEF TypeOK, Put
  <1>2. log[k] \in Seq(Records) /\ (log')[k] = Append(log[k], r)
    BY <1>1
  <1>3. \A j \in Kids \ {k} : (log')[j] = log[j]
    BY <1>1
  <1>4. /\ Len(Append(log[k], r)) = Len(log[k]) + 1 /\ Len(log[k]) \in Nat
        /\ \A i \in 1 .. Len(log[k]) : Append(log[k], r)[i] = log[k][i]
        /\ Append(log[k], r)[Len(log[k]) + 1] = r
    BY <1>2, Appended
  <1>5. r \in Answers => Answered(k)'
    BY <1>2, <1>4 DEF Answered, Logged
  <1>6. ASSUME NEW j \in Kids, Answered(j) PROVE Answered(j)'
    <2>1. CASE j = k
      BY <1>2, <1>4, <1>6, <2>1 DEF Answered, Logged
    <2>2. CASE j # k
      BY <1>3, <1>6, <2>2 DEF Answered, Logged
    <2> QED BY <2>1, <2>2
  <1> QED BY <1>5, <1>6 DEF Grows

(* So does one that is written for several calls. *)
LEMMA WroteGrows ==
  ASSUME TypeOK, NEW K \in SUBSET Kids, NEW r \in Records, Wrote(K, r)
  PROVE  Grows /\ (r \in Answers => \A k \in K : Answered(k)')
  <1>1. log \in [Kids -> Seq(Records)]
    BY DEF TypeOK
  <1>2. ASSUME NEW k \in Kids
        PROVE  /\ Answered(k) => Answered(k)'
               /\ k \in K /\ r \in Answers => Answered(k)'
    <2>1. /\ log[k] \in Seq(Records)
          /\ k \in K => (log')[k] = Append(log[k], r)
          /\ k \notin K => (log')[k] = log[k]
      BY <1>1, Written
    <2>2. /\ Len(Append(log[k], r)) = Len(log[k]) + 1 /\ Len(log[k]) \in Nat
          /\ \A i \in 1 .. Len(log[k]) : Append(log[k], r)[i] = log[k][i]
          /\ Append(log[k], r)[Len(log[k]) + 1] = r
      BY <2>1, Appended
    <2>3. CASE k \in K
      BY <2>1, <2>2, <2>3 DEF Answered, Logged
    <2>4. CASE k \notin K
      BY <2>1, <2>4 DEF Answered, Logged
    <2> QED BY <2>3, <2>4
  <1> QED BY <1>2 DEF Grows

(* A step that leaves the rows alone is calm. *)
LEMMA StillCalm ==
  ASSUME row' = row
  PROVE  Calm
  BY DEF Calm, Children

(* Now says all that is read of a job. *)
LEMMA NowMoves ==
  ASSUME NEW t \in Threads, NEW p, NEW s, NEW o, NEW g, NEW d, NEW e,
         Now(t, p, s, o, g, d, e)
  PROVE  /\ OnlyMoves(t) /\ (job')[t].pc = p /\ (job')[t].sub = s
         /\ (job')[t].stage = g /\ (job')[t].pend = e
  BY DEF Now, OnlyMoves, Stays, Like

(* A row that is at work carries no mark, and that of a child never does. *)
LEMMA RowCalm ==
  ASSUME Invariant, Resumable, NEW s \in Subs,
         \A u \in Subs \ {s} : (row')[u] = row[u],
         row[s].status # "absent",
         s = P => /\ row[s].status \notin {"waiting", "queued"}
                  /\ (row')[s].status # "waiting" /\ (row')[s].resume = row[s].resume
  PROVE  Calm
  <1>1. P \in Subs /\ Kids \subseteq Subs
    BY DEF Subs
  <1>2. Children' \subseteq Children
    BY <1>1 DEF Children
  <1>3. CASE s = P
    BY <1>1, <1>2, <1>3 DEF Calm, Resumable, Marked
  <1>4. CASE s # P
    BY <1>1, <1>2, <1>4 DEF Calm
  <1> QED BY <1>3, <1>4

(* A change of status between the stages of work, or of a child, is calm. *)
LEMMA StatusCalm ==
  ASSUME Invariant, Resumable, NEW s \in Subs, NEW v \in {"queued", "terminalizing", "settled"},
         SetStatus(s, v), row[s].status # "absent",
         s = P => row[s].status \notin {"waiting", "queued"}
  PROVE  Calm
  <1>1. row \in [Subs -> Row]
    BY DEF Invariant, TypeOK
  <1>2. /\ \A u \in Subs \ {s} : (row')[u] = row[u]
        /\ (row')[s].status = v /\ (row')[s].resume = row[s].resume
    BY <1>1 DEF SetStatus, Row
  <1> QED BY <1>2, RowCalm

(* Before it has reached the end of its turn, the parent resumes nothing. *)
LEMMA NotResuming ==
  ASSUME Resumable, job[P].pc \notin {"scan", "exempt", "open", "settle"}
  PROVE  job[P].stage # "resume"
  BY DEF Resumable, Resuming

(* A thread that goes on to a step at which it relies on no answer. *)
LEMMA GoesTamely ==
  ASSUME Invariant, Resumable, NEW t \in Threads, Grows, Calm,
         NEW p, NEW s, NEW o, NEW g, NEW d, NEW e, Now(t, p, s, o, g, d, e),
         p \notin {"siblings", "resume"},
         t = Loop => p \notin {"recheck", "expired", "requeue"},
         t = P => g # "resume"
  PROVE  Resumable'
  <1>1. OnlyMoves(t) /\ (job')[t].pc = p /\ (job')[t].stage = g
    BY NowMoves
  <1>2. Tame(t)
    BY <1>1 DEF Tame
  <1> QED BY <1>1, <1>2, TameKept

(* A duty is done at a stage of its own, and no resume is. *)
LEMMA DutyStage ==
  ASSUME Invariant, Resumable, NEW t \in Threads, job[t].pc \in Duties
  PROVE  /\ t = P => job[t].stage # "resume"
         /\ job[t].stage \in {"reserved", "final", "direct", "backstop", "park"}
  BY DEF Invariant, View, Staged

(* A wake that returns relies on nothing any more. *)
LEMMA ReturnIsTame ==
  ASSUME Invariant, Resumable, NEW t \in Threads, job[t].pc \in Duties,
         job' = [job EXCEPT ![t] = Return(t)]
  PROVE  OnlyMoves(t) /\ Tame(t)
  <1>1. TypeOK /\ job[t].stage \in {"reserved", "final", "direct", "backstop", "park"}
    BY DutyStage DEF Invariant
  <1>2. CASE job[t].stage = "final" /\ t # Loop
    <2>1. Now(t, "idle", t, "none", "none", {}, {})
      BY <1>1, <1>2, ReturnsTo
    <2> QED BY <2>1, NowMoves DEF Tame
  <1>3. CASE job[t].stage = "final" /\ t = Loop
    <2>1. Now(t, "reconcile", P, "none", "none", job[t].todo, job[t].pend)
      BY <1>1, <1>3, ReturnsTo
    <2> QED BY <2>1, NowMoves DEF Tame
  <1>4. CASE job[t].stage = "reserved"
    <2>1. Now(t, "finalize", job[t].sub, job[t].outcome, "reserved", job[t].todo, job[t].pend)
      BY <1>1, <1>4, ReturnsTo
    <2> QED BY <2>1, NowMoves DEF Tame
  <1>5. CASE job[t].stage = "direct"
    <2>1. PICK p \in {"release", "cascade"} :
            Now(t, p, P, "none", "none", job[t].todo, job[t].pend)
      BY <1>1, <1>5, ReturnsTo
    <2> QED BY <2>1, NowMoves DEF Tame
  <1>6. CASE job[t].stage \in {"backstop", "park"}
    <2>1. PICK p \in {"backstop", "repair"} :
            Now(t, p, P, "none", "none", job[t].todo, job[t].pend)
      BY <1>1, <1>6, ReturnsTo
    <2> QED BY <2>1, NowMoves DEF Tame
  <1> QED BY <1>1, <1>2, <1>3, <1>4, <1>5, <1>6

LEMMA ReturnsTamely ==
  ASSUME Invariant, Resumable, NEW t \in Threads, Grows, Calm, job[t].pc \in Duties,
         job' = [job EXCEPT ![t] = Return(t)]
  PROVE  Resumable'
  BY ReturnIsTame, TameKept

(* Settlement relies on no answer... *)
LEMMA SettlesTamely ==
  ASSUME Invariant, Resumable, NEW t \in Threads, CheckSettled(t) \/ AppendSettled(t)
  PROVE  Resumable'
  <1>1. TypeOK /\ job[t].pc \in Duties /\ Grows /\ Calm
    BY StillGrows, StillCalm DEF CheckSettled, AppendSettled, At, Duties, store, Invariant
  <1>2. t = P => job[t].stage # "resume"
    BY <1>1, DutyStage
  <1>3. Landed(t) \in {"finalize", "wake"} /\ "append" \in DutyPcs
        /\ Landed(t) \in DutyPcs
    BY DEF Landed, DutyPcs
  <1>4. CASE CheckSettled(t) /\ settled[job[t].sub] # <<>>
    <2> DEFINE o == Head(settled[job[t].sub])
    <2>1. o \in Ends
      BY <1>1, <1>4, Typed
    <2>2. job' = [job EXCEPT ![t].outcome = o, ![t].pc = Landed(t)]
      BY <1>4 DEF CheckSettled
    <2> HIDE DEF o
    <2>3. Now(t, Landed(t), job[t].sub, o, job[t].stage, job[t].todo, job[t].pend)
      BY <1>1, <1>3, <2>1, <2>2, GoesTelling
    <2> QED BY <1>1, <1>2, <1>3, <2>3, GoesTamely
  <1>5. CASE CheckSettled(t) /\ settled[job[t].sub] = <<>>
    <2>1. Goto(t, "append")
      BY <1>5 DEF CheckSettled, Goto
    <2>2. Now(t, "append", job[t].sub, job[t].outcome, job[t].stage, job[t].todo, job[t].pend)
      BY <1>1, <1>3, <2>1, Goes
    <2> QED BY <1>1, <1>2, <2>2, GoesTamely
  <1>6. CASE AppendSettled(t)
    <2>1. Goto(t, Landed(t))
      BY <1>6 DEF AppendSettled
    <2>2. Now(t, Landed(t), job[t].sub, job[t].outcome, job[t].stage, job[t].todo, job[t].pend)
      BY <1>1, <1>3, <2>1, Goes
    <2> QED BY <1>1, <1>2, <1>3, <2>2, GoesTamely
  <1> QED BY <1>4, <1>5, <1>6

(* ...nor does the row it finalizes carry the mark. *)
LEMMA FinalizesTamely ==
  ASSUME Invariant, Resumable, NEW t \in Threads, FinalizeSettlement(t)
  PROVE  Resumable'
  <1>1. /\ TypeOK /\ job[t].pc \in Duties /\ Grows /\ job \in [Threads -> Job]
        /\ At(t, "finalize")
    BY StillGrows DEF FinalizeSettlement, At, Duties, Invariant, TypeOK
  <1> DEFINE s == job[t].sub
  <1>2. s \in Subs /\ job[t].todo \subseteq Subs /\ P \in Subs
    BY <1>1, Typed DEF Subs
  <1>3. Calm
    <2>1. CASE row[s].status = "terminalizing"
      <3>1. SetStatus(s, "settled")
        BY <2>1 DEF FinalizeSettlement
      <3> HIDE DEF s
      <3> QED BY <1>2, <2>1, <3>1, StatusCalm
    <2>2. CASE row[s].status # "terminalizing"
      BY <2>2, StillCalm DEF FinalizeSettlement
    <2> QED BY <2>1, <2>2
  <1>4. CASE s # P
    <2>1. Now(t, "wake", s, job[t].outcome, "final", job[t].todo, job[t].pend)
      <3>1. job' = [job EXCEPT ![t].pc = "wake", ![t].stage = "final"]
        BY <1>4 DEF FinalizeSettlement
      <3>2. "wake" \in DutyPcs /\ "final" \in Stages
        BY DEF DutyPcs, Stages
      <3> QED BY <1>1, <3>1, <3>2, SetsPcStage
    <2> QED BY <1>1, <1>3, <2>1, GoesTamely
  <1>5. CASE s = P
    <2> DEFINE p == IF t = Loop THEN "reconcile" ELSE "orphans"
    <2>1. Now(t, p, P, "none", "none", job[t].todo, {})
      <3>1. job' = [job EXCEPT ![t] = NewJob(P, p, "none", "none"), ![t].todo = job[t].todo]
        BY <1>5 DEF FinalizeSettlement
      <3>2. p \in RunPcs \cup LoopPcs
        BY DEF RunPcs, LoopPcs
      <3> HIDE DEF p
      <3> DEFINE r == [NewJob(P, p, "none", "none") EXCEPT !.todo = job[t].todo]
      <3>3. /\ r \in Job /\ r.pc = p /\ r.sub = P /\ r.outcome = "none" /\ r.stage = "none"
            /\ r.todo = job[t].todo /\ r.pend = {}
        BY <1>2, <3>2 DEF NewJob, Job, Stages
      <3>4. job' = [job EXCEPT ![t] = r]
        BY <1>1, <3>1
      <3> HIDE DEF r
      <3> QED BY <1>1, <3>3, <3>4 DEF Now, Like
    <2>2. p \in {"reconcile", "orphans"}
      OBVIOUS
    <2> HIDE DEF p
    <2> QED BY <1>1, <1>3, <2>1, <2>2, GoesTamely
  <1> QED BY <1>4, <1>5

(* Up to the question whether the call is answered the wake relies on nothing. *)
LEMMA WakesTamely ==
  ASSUME Invariant, Resumable, NEW t \in Threads,
         LoadParent(t) \/ CheckSpawnRecord(t) \/ RepairSpawnRecord(t)
  PROVE  Resumable'
  <1>1. TypeOK /\ job[t].pc \in Duties /\ job[t].pc \in Notes
    BY DEF LoadParent, CheckSpawnRecord, RepairSpawnRecord, At, Duties, Notes, Invariant
  <1>2. t = P => job[t].stage # "resume"
    BY <1>1, DutyStage
  <1>3. row' = row
    BY DEF LoadParent, CheckSpawnRecord, RepairSpawnRecord, store
  <1>4. Grows
    <2>1. CASE LoadParent(t) \/ CheckSpawnRecord(t)
      BY <2>1, StillGrows DEF LoadParent, CheckSpawnRecord, store
    <2>2. CASE RepairSpawnRecord(t)
      BY <1>1, <2>2, PutGrows DEF RepairSpawnRecord, Records, Invariant, View, Placed
    <2> QED BY <2>1, <2>2
  <1>5. Calm
    BY <1>3, StillCalm
  <1>6. \/ job' = [job EXCEPT ![t] = Return(t)]
        \/ \E p \in {"spawned?", "author", "answered?"} : Goto(t, p)
    BY DEF LoadParent, CheckSpawnRecord, RepairSpawnRecord
  <1>7. CASE job' = [job EXCEPT ![t] = Return(t)]
    BY <1>1, <1>4, <1>5, <1>7, ReturnsTamely
  <1>8. CASE \E p \in {"spawned?", "author", "answered?"} : Goto(t, p)
    <2>1. PICK p \in {"spawned?", "author", "answered?"} : Goto(t, p)
      BY <1>8
    <2>2. p \in DutyPcs
      BY DEF DutyPcs
    <2>3. Now(t, p, job[t].sub, job[t].outcome, job[t].stage, job[t].todo, job[t].pend)
      BY <1>1, <2>1, <2>2, Goes
    <2> QED BY <1>2, <1>4, <1>5, <2>3, GoesTamely
  <1> QED BY <1>6, <1>7, <1>8

(* Who comes to the siblings has found an answer, or appended one. *)
LEMMA AnswersFirst ==
  ASSUME Invariant, Resumable, NEW t \in Threads, CheckAnswered(t) \/ AppendAnswer(t)
  PROVE  Resumable'
  <1>1. /\ TypeOK /\ job[t].pc \in Duties /\ job[t].pc \in Notes /\ job[t].sub \in Kids
        /\ job \in [Threads -> Job]
    <2>1. job[t].pc \in Notes /\ job[t].pc \in Duties
      BY DEF CheckAnswered, AppendAnswer, At, Duties, Notes
    <2> QED BY <2>1 DEF Invariant, View, Placed, TypeOK
  <1>2. t = P => job[t].stage # "resume"
    BY <1>1, DutyStage
  <1>3. Calm
    BY StillCalm DEF CheckAnswered, AppendAnswer, store
  <1>4. PICK k \in Kids : k = job[t].sub
    BY <1>1
  <1>5. CASE CheckAnswered(t) /\ ~Answered(k)
    <2>1. Goto(t, "answer") /\ "answer" \in DutyPcs /\ log' = log
      BY <1>4, <1>5 DEF CheckAnswered, DutyPcs, store
    <2>2. Now(t, "answer", job[t].sub, job[t].outcome, job[t].stage, job[t].todo, job[t].pend)
      BY <1>1, <2>1, Goes
    <2> QED BY <1>2, <1>3, <2>1, <2>2, GoesTamely, StillGrows
  <1>6. CASE (CheckAnswered(t) /\ Answered(k)) \/ AppendAnswer(t)
    <2>1. Goto(t, "siblings") /\ "siblings" \in DutyPcs
      BY <1>4, <1>6 DEF CheckAnswered, AppendAnswer, DutyPcs
    <2>2. Now(t, "siblings", job[t].sub, job[t].outcome, job[t].stage, job[t].todo, job[t].pend)
      BY <1>1, <2>1, Goes
    <2>3. OnlyMoves(t) /\ (job')[t].pc = "siblings" /\ (job')[t].sub = k
          /\ (job')[t].stage = job[t].stage
      BY <1>4, <2>2, NowMoves
    <2>4. Grows /\ Answered(k)'
      <3>1. CASE CheckAnswered(t) /\ Answered(k)
        BY <3>1, StillGrows DEF CheckAnswered, store, Grows
      <3>2. CASE AppendAnswer(t)
        <4>1. Put(k, job[t].outcome) /\ At(t, "answer")
          BY <1>4, <3>2 DEF AppendAnswer
        <4>2. job[t].outcome \in Ends
          <5>1. /\ job[t].pc = "answer" /\ job[t].pc \in Notes \cup {"finalize"}
                /\ job[t].stage # "park"
            BY <1>1, <4>1 DEF At, Invariant, View, Staged
          <5>2. Told(t)
            BY <5>1 DEF Invariant, View, Telling
          <5>3. settled[job[t].sub] \in Seq(Ends)
            BY <1>1, Typed
          <5> QED BY <5>2, <5>3 DEF Told
        <4>3. job[t].outcome \in Answers /\ job[t].outcome \in Records
          BY <4>2 DEF Answers, Records
        <4> QED BY <1>1, <4>1, <4>3, PutGrows
      <3> QED BY <1>6, <3>1, <3>2
    <2>5. AnsweredFirst(t)'
      BY <2>3, <2>4 DEF AnsweredFirst, Answered, Logged
    <2>6. (t = Loop => Expiring') /\ (t = P => Resuming')
      BY <1>2, <2>3 DEF Expiring, Resuming
    <2> QED BY <1>3, <2>3, <2>4, <2>5, <2>6, ResumableKept
  <1> QED BY <1>4, <1>5, <1>6 DEF CheckAnswered

(* A wake that is about to requeue the parent has answered its only child. *)
LEMMA SiblingsAnswered ==
  ASSUME OneChild, Invariant, Resumable, NEW t \in Threads,
         job[t].pc \in {"siblings", "resume"}
  PROVE  AllAnswered
  <1>1. job[t].pc \in Duties /\ job[t].pc \in Notes
    BY DEF Duties, Notes
  <1>2. job[t].sub \in Kids /\ job[t].stage \in {"reserved", "final", "direct", "backstop"}
    BY <1>1 DEF Invariant, View, Placed, Staged
  <1>3. job[t].sub \in Children
    BY <1>2 DEF Invariant, View, RowHeld, Children
  <1>4. Answered(job[t].sub)
    BY DEF Resumable, AnsweredFirst
  <1> QED BY <1>3, <1>4 DEF OneChild, AllAnswered

(* The listing keeps what the question found out. *)
LEMMA ListsTamely ==
  ASSUME Invariant, Resumable, NEW t \in Threads, ListSiblings(t)
  PROVE  Resumable'
  <1>1. TypeOK /\ job[t].pc = "siblings" /\ job[t].pc \in Duties /\ job[t].pc \in Notes
    BY DEF ListSiblings, At, Duties, Notes, Invariant
  <1>2. t = P => job[t].stage # "resume"
    BY <1>1, DutyStage
  <1>3. Grows /\ Calm
    BY StillGrows, StillCalm DEF ListSiblings, store
  <1>4. CASE job' = [job EXCEPT ![t] = Return(t)]
    BY <1>1, <1>3, <1>4, ReturnsTamely
  <1>5. CASE Goto(t, "resume")
    <2>1. "resume" \in DutyPcs
      BY DEF DutyPcs
    <2>2. Now(t, "resume", job[t].sub, job[t].outcome, job[t].stage, job[t].todo, job[t].pend)
      BY <1>1, <1>5, <2>1, Goes
    <2>3. OnlyMoves(t) /\ (job')[t].pc = "resume" /\ (job')[t].sub = job[t].sub
          /\ (job')[t].stage = job[t].stage
      BY <2>2, NowMoves
    <2>4. AnsweredFirst(t)'
      <3>1. PICK k \in Kids : k = job[t].sub
        BY <1>1 DEF Invariant, View, Placed
      <3>2. Answered(k)'
        BY <1>1, <1>3, <3>1 DEF Resumable, AnsweredFirst, Grows
      <3> QED BY <2>3, <3>1, <3>2 DEF AnsweredFirst, Answered, Logged
    <2>5. (t = Loop => Expiring') /\ (t = P => Resuming')
      BY <1>2, <2>3 DEF Expiring, Resuming
    <2> QED BY <1>3, <2>3, <2>4, <2>5, ResumableKept
  <1> QED BY <1>4, <1>5 DEF ListSiblings

(* A thread that queues the parent: every call has its answer. *)
LEMMA QueuesTamely ==
  ASSUME Invariant, Resumable, NEW t \in Threads, Requeue, log' = log,
         OnlyMoves(t), Tame(t), row[P].status = "waiting" => AllAnswered
  PROVE  Resumable'
  <1>1. row \in [Subs -> Row] /\ P \in Subs /\ Kids \subseteq Subs /\ P \notin Kids
    BY SubagentsAssumption DEF Invariant, TypeOK, Subs
  <1>2. Grows
    BY StillGrows
  <1>3. CASE row[P].status # "waiting"
    <2>1. Calm
      BY <1>3, StillCalm DEF Requeue
    <2> QED BY <1>2, <2>1, TameKept
  <1>4. CASE row[P].status = "waiting"
    <2>1. /\ (row')[P].status = "queued" /\ \A k \in Kids : (row')[k] = row[k]
      BY <1>1, <1>4 DEF Requeue, SetStatus, Row
    <2>2. Children' = Children /\ Children \subseteq Kids
      BY <2>1 DEF Children
    <2>3. AllAnswered'
      BY <1>2, <1>4, <2>2 DEF AllAnswered, Grows
    <2>4. Marked' /\ Expiring'
      BY <2>1, <2>3 DEF Marked, Expiring
    <2>5. Resuming'
      <3>1. CASE t = P
        BY <3>1 DEF Tame, Resuming
      <3>2. CASE t # P
        BY <2>3, <3>2 DEF OnlyMoves, Stays, Resumable, Resuming, Threads, Subs
      <3> QED BY <3>1, <3>2
    <2>6. ASSUME NEW u \in Threads PROVE AnsweredFirst(u)'
      <3>1. CASE u = t
        BY <3>1 DEF Tame, AnsweredFirst
      <3>2. CASE u # t
        BY <3>2 DEF OnlyMoves, Stays, Resumable, AnsweredFirst, Answered, Logged
      <3> QED BY <3>1, <3>2
    <2> QED BY <2>4, <2>5, <2>6 DEF Resumable
  <1> QED BY <1>3, <1>4

(* The wake queues the parent after the answer. *)
LEMMA ResumesTamely ==
  ASSUME OneChild, Invariant, Resumable, NEW t \in Threads, ResumeParent(t)
  PROVE  Resumable'
  <1>1. job[t].pc = "resume" /\ job[t].pc \in Duties /\ log' = log /\ Requeue
    BY DEF ResumeParent, At, Duties, Notes
  <1>2. OnlyMoves(t) /\ Tame(t)
    BY <1>1, ReturnIsTame DEF ResumeParent
  <1>3. AllAnswered
    BY <1>1, SiblingsAnswered
  <1> QED BY <1>1, <1>2, <1>3, QueuesTamely

(* A cancel takes a child along, never the parent. *)
LEMMA CancelsTamely ==
  ASSUME Invariant, Resumable, NEW t \in Threads, CancelChild(t)
  PROVE  Resumable'
  <1>1. /\ TypeOK /\ job \in [Threads -> Job] /\ job[t] \in Job /\ row \in [Subs -> Row]
        /\ job[t].pc \in {"cascade", "cancel"}
    BY DEF CancelChild, At, Invariant, TypeOK
  <1>2. t \in {P, Loop}
    BY <1>1 DEF Invariant, View, Placed, Duties, Notes, Threads, Subs
  <1>3. job[t].todo \subseteq Kids /\ (t = P => job[t].stage # "resume")
    <2>1. CASE t = P
      <3>1. job[P].pc = "cascade"
        BY <1>1, <2>1, SubagentsAssumption DEF Invariant, View, Placed, Turns, Duties, Notes, Subs
      <3> QED BY <2>1, <3>1, NotResuming DEF Invariant, Orphans, Cascading
    <2>2. CASE t = Loop
      <3>1. job[Loop].pc = "cancel"
        BY <1>1, <2>2 DEF Invariant, View, Placed, LoopPcs, Duties, Notes
      <3> QED BY <2>2, <3>1, SubagentsAssumption DEF Invariant, LoopAlone, Subs
    <2> QED BY <1>2, <2>1, <2>2
  <1>4. Grows
    BY StillGrows DEF CancelChild
  <1>5. PICK k \in job[t].todo :
          LET rest == [job[t] EXCEPT !.todo = @ \ {k}]
          IN \/ /\ row[k].status = "queued"
                /\ SetStatus(k, "settled")
                /\ job' = [job EXCEPT ![t] =
                     IF t = Loop THEN rest
                     ELSE [rest EXCEPT !.pc = "check", !.sub = k,
                                       !.stage = "direct", !.outcome = "cancelled"]]
             \/ /\ row[k].status = "running"
                /\ row' = [row EXCEPT ![k].flag = TRUE]
                /\ job' = [job EXCEPT ![t] = [rest EXCEPT !.pc = "interrupt", !.sub = k]]
             \/ /\ Terminal(k)
                /\ job' = [job EXCEPT ![t] = rest]
                /\ UNCHANGED row
    BY DEF CancelChild
  <1>6. k \in Kids /\ k \in Subs /\ k # P
    BY <1>3, SubagentsAssumption DEF Subs
  <1>7. Calm
    <2>1. CASE row[k].status = "queued" /\ SetStatus(k, "settled")
      BY <1>6, <2>1, StatusCalm
    <2>2. CASE row[k].status = "running" /\ row' = [row EXCEPT ![k].flag = TRUE]
      <3>1. \A u \in Subs \ {k} : (row')[u] = row[u]
        BY <1>1, <2>2
      <3> QED BY <1>6, <2>2, <3>1, RowCalm
    <2>3. CASE row' = row
      BY <2>3, StillCalm
    <2> QED BY <1>5, <2>1, <2>2, <2>3
  <1>8. PICK r : /\ job' = [job EXCEPT ![t] = r]
                 /\ r.pc \in {job[t].pc, "check", "interrupt"}
                 /\ r.stage \in {job[t].stage, "direct"}
    <2> DEFINE rest == [job[t] EXCEPT !.todo = @ \ {k}]
               toCheck == [rest EXCEPT !.pc = "check", !.sub = k,
                                       !.stage = "direct", !.outcome = "cancelled"]
               toInterrupt == [rest EXCEPT !.pc = "interrupt", !.sub = k]
    <2>1. /\ rest.pc = job[t].pc /\ toCheck.pc = "check" /\ toInterrupt.pc = "interrupt"
          /\ rest.stage = job[t].stage /\ toCheck.stage = "direct"
          /\ toInterrupt.stage = job[t].stage
      BY <1>1 DEF Job
    <2>2. \/ job' = [job EXCEPT ![t] = rest] \/ job' = [job EXCEPT ![t] = toCheck]
          \/ job' = [job EXCEPT ![t] = toInterrupt]
      BY <1>5
    <2> HIDE DEF rest, toCheck, toInterrupt
    <2> QED BY <2>1, <2>2
  <1>9. OnlyMoves(t) /\ (job')[t] = r
    BY <1>1, <1>8 DEF OnlyMoves, Stays
  <1>a. Tame(t)
    BY <1>1, <1>3, <1>8, <1>9 DEF Tame
  <1> QED BY <1>4, <1>7, <1>9, <1>a, TameKept

(* An interrupt changes what the interrupted run will return, no more. *)
LEMMA InterruptsTamely ==
  ASSUME Invariant, Resumable, NEW t \in Threads, CancelLiveRun(t)
  PROVE  Resumable'
  <1>1. job[t].pc = "interrupt" /\ t \in {P, Loop}
    BY DEF CancelLiveRun, At, Invariant, View, Placed, Duties, Notes, Threads, Subs
  <1>2. /\ Now(t, IF t = Loop THEN "cancel" ELSE "cascade", P, job[t].outcome,
                job[t].stage, job[t].todo, job[t].pend)
        /\ Still
    BY <1>1, Interrupts
  <1>3. Grows /\ Calm
    BY <1>2, StillGrows, StillCalm DEF Still
  <1>4. t = P => job[t].stage # "resume"
    BY <1>1, NotResuming
  <1>5. PICK p \in {"cancel", "cascade"} :
          Now(t, p, P, job[t].outcome, job[t].stage, job[t].todo, job[t].pend)
    BY <1>2
  <1> QED BY <1>3, <1>4, <1>5, GoesTamely

(* Together: the duties of any thread. *)
LEMMA DutyResumable ==
  ASSUME OneChild, Invariant, Resumable, NEW t \in Threads, Duty(t)
  PROVE  Resumable'
  BY SettlesTamely, FinalizesTamely, WakesTamely, AnswersFirst, ListsTamely, ResumesTamely,
     CancelsTamely, InterruptsTamely DEF Duty

----------------------------------------------------------------------------
(* The runs, and the loop. *)

(* A run that reserves or backs off was running, without the mark. *)
LEMMA ReservesTamely ==
  ASSUME Invariant, Resumable, NEW s \in Subs, ReserveSettlement(s) \/ BackOff(s)
  PROVE  Resumable'
  <1>1. /\ s \in Threads /\ s # Loop /\ TypeOK /\ job \in [Threads -> Job] /\ row \in [Subs -> Row]
    BY SubagentsAssumption DEF Invariant, TypeOK, Threads
  <1>2. Grows
    BY StillGrows DEF ReserveSettlement, BackOff
  <1>3. CASE ReserveSettlement(s) /\ row[s].status = "running"
    <2>1. Calm
      BY <1>3, StatusCalm DEF ReserveSettlement
    <2>2. job' = [job EXCEPT ![s].pc = "check", ![s].stage = "reserved"]
      BY <1>3 DEF ReserveSettlement
    <2>3. "check" \in DutyPcs /\ "reserved" \in Stages
      BY DEF DutyPcs, Stages
    <2>4. Now(s, "check", job[s].sub, job[s].outcome, "reserved", job[s].todo, job[s].pend)
      BY <1>1, <2>2, <2>3, SetsPcStage
    <2> QED BY <1>1, <1>2, <2>1, <2>4, GoesTamely
  <1>4. CASE \/ ReserveSettlement(s) /\ row[s].status # "running"
             \/ BackOff(s)
    <2>1. Calm
      <3>1. CASE row' = row
        BY <3>1, StillCalm
      <3>2. CASE BackOff(s) /\ row[s].status = "running"
        <4>1. row' = [row EXCEPT ![s].status = "queued", ![s].leased = FALSE]
          BY <3>2 DEF BackOff, Released
        <4>2. /\ \A u \in Subs \ {s} : (row')[u] = row[u]
              /\ (row')[s].status = "queued" /\ (row')[s].resume = row[s].resume
          BY <1>1, <4>1 DEF Row
        <4> QED BY <3>2, <4>2, RowCalm
      <3> QED BY <1>4, <3>1, <3>2 DEF BackOff, ReserveSettlement
    <2>2. job' = [job EXCEPT ![s] = Idle(s)]
      BY <1>4 DEF BackOff, ReserveSettlement
    <2>3. Now(s, "idle", s, "none", "none", {}, {})
      BY <1>1, <2>2, Idles
    <2> QED BY <1>1, <1>2, <2>1, <2>3, GoesTamely
  <1> QED BY <1>3, <1>4

(* Together: the run of a child. *)
LEMMA ChildResumable ==
  ASSUME OneChild, Invariant, Resumable, NEW k \in Kids, ChildStep(k)
  PROVE  Resumable'
  <1>1. k \in Subs /\ k \in Threads /\ k # Loop /\ k # P /\ job \in [Threads -> Job]
    BY SubagentsAssumption DEF Invariant, TypeOK, Threads, Subs
  <1>2. CASE Register(k) \/ Recheck(k) \/ DriveEnds(k)
    <2>1. Grows /\ Calm
      BY <1>2, StillGrows, StillCalm DEF Register, Recheck, DriveEnds, store
    <2>2. OnlyMoves(k) /\ (job')[k].pc \in {"recheck", "drive", "settle", "back off"}
      <3>1. CASE Register(k)
        BY <1>1, <3>1 DEF Register, Goto, OnlyMoves, Stays, Job
      <3>2. CASE Recheck(k)
        BY <1>1, <3>2 DEF Recheck, OnlyMoves, Stays, Job
      <3>3. CASE DriveEnds(k)
        <4>1. \/ \E o : job' = [job EXCEPT ![k].pc = "settle", ![k].outcome = o]
              \/ job' = [job EXCEPT ![k].pc = "back off"]
          BY <3>3 DEF DriveEnds, Goto
        <4> QED BY <1>1, <4>1 DEF OnlyMoves, Stays, Job
      <3> QED BY <1>2, <3>1, <3>2, <3>3
    <2>3. Tame(k)
      BY <1>1, <2>2 DEF Tame
    <2> QED BY <1>1, <2>1, <2>2, <2>3, TameKept
  <1> QED BY <1>1, <1>2, DutyResumable, ReservesTamely DEF ChildStep

(* Of a parent that resumes: the scan, the exemptions and the synthesis come
   before it opens its turn. *)
LEMMA ScansTamely ==
  ASSUME Invariant, Resumable, ScanDanglingCalls \/ ExemptLiveChild \/ SynthesizeOutcomes
  PROVE  Resumable'
  <1>1. /\ P \in Threads /\ P # Loop /\ TypeOK /\ job \in [Threads -> Job] /\ Children \subseteq Kids
    BY SubagentsAssumption DEF Invariant, TypeOK, Threads, Subs, Children
  <1>2. row' = row /\ Children' = Children
    BY DEF ScanDanglingCalls, ExemptLiveChild, SynthesizeOutcomes, store, Children
  <1>3. Calm
    BY <1>2, StillCalm
  <1>4. Grows
    <2>1. CASE ScanDanglingCalls \/ ExemptLiveChild
      BY <2>1, StillGrows DEF ScanDanglingCalls, ExemptLiveChild, store
    <2>2. CASE SynthesizeOutcomes
      <3>1. Wrote(job[P].pend, "dangling") /\ job[P].pend \in SUBSET Kids /\ "dangling" \in Records
        BY <1>1, <2>2 DEF SynthesizeOutcomes, Wrote, Invariant, View, Placed, Records, Answers
      <3> QED BY <1>1, <3>1, WroteGrows
    <2> QED BY <2>1, <2>2
  <1>5. OnlyMoves(P) /\ (job')[P].pc \in {"exempt", "open"} /\ (job')[P].stage = job[P].stage
    <2>1. CASE ScanDanglingCalls
      BY <1>1, <2>1 DEF ScanDanglingCalls, OnlyMoves, Stays, Job
    <2>2. CASE ExemptLiveChild
      BY <1>1, <2>2 DEF ExemptLiveChild, OnlyMoves, Stays, Job, At
    <2>3. CASE SynthesizeOutcomes
      BY <1>1, <2>3 DEF SynthesizeOutcomes, OnlyMoves, Stays, Job
    <2> QED BY <2>1, <2>2, <2>3
  <1>6. AnsweredFirst(P)'
    BY <1>5 DEF AnsweredFirst
  <1>7. Resuming'
    BY <1>1, <1>2, <1>4, <1>5 DEF Resumable, Resuming, AllAnswered, Grows
  <1> QED BY <1>1, <1>3, <1>4, <1>5, <1>6, <1>7, ResumableKept

(* The turn that opens is no resume any more; one that fails to only settles. *)
LEMMA OpensTamely ==
  ASSUME Invariant, Resumable, OpenTurn \/ ParentEnds
  PROVE  Resumable'
  <1>1. /\ P \in Threads /\ P # Loop /\ job \in [Threads -> Job]
    BY SubagentsAssumption DEF Invariant, TypeOK, Threads, Subs
  <1>2. row' = row /\ log' = log
    BY DEF OpenTurn, ParentEnds, store
  <1>3. Calm /\ Grows /\ Children' = Children /\ \A k \in Kids : Answered(k)' = Answered(k)
    BY <1>2, StillCalm, StillGrows DEF Children, Answered, Logged
  <1>4. /\ OnlyMoves(P) /\ (job')[P].pc \in {"drive", "settle", "back off"}
        /\ (job')[P].stage \in {"none", job[P].stage}
        /\ (job')[P].stage = "resume" => (job')[P].pc = "settle" \/ job[P].pc = "drive"
    <2>1. CASE job' = [job EXCEPT ![P].pc = "drive", ![P].stage = "none"]
      BY <1>1, <2>1 DEF OnlyMoves, Stays, Job
    <2>2. CASE job' = [job EXCEPT ![P].pc = "settle", ![P].outcome = "done"]
      BY <1>1, <2>2 DEF OnlyMoves, Stays, Job
    <2>3. CASE At(P, "drive") /\ Goto(P, "back off")
      BY <1>1, <2>3 DEF Goto, At, OnlyMoves, Stays, Job
    <2> QED BY <2>1, <2>2, <2>3 DEF OpenTurn, ParentEnds
  <1>5. AnsweredFirst(P)'
    BY <1>4 DEF AnsweredFirst
  <1>6. job[P].pc = "drive" => job[P].stage # "resume"
    BY NotResuming
  <1>7. Children \subseteq Kids
    BY DEF Children
  <1>8. Resuming'
    BY <1>3, <1>4, <1>6, <1>7 DEF Resumable, Resuming, AllAnswered
  <1> QED BY <1>1, <1>3, <1>4, <1>5, <1>8, ResumableKept

(* A step of the parent after its turn has opened. *)
LEMMA ParentTamely ==
  ASSUME Invariant, Resumable, Grows, Calm, OnlyMoves(P),
         job[P].pc \notin {"scan", "exempt", "open", "settle"},
         (job')[P].pc \notin {"siblings", "resume"},
         (job')[P].stage \in {job[P].stage, "park", "none"}
  PROVE  Resumable'
  <1>1. P \in Threads /\ P # Loop /\ job[P].stage # "resume"
    BY SubagentsAssumption, NotResuming DEF Threads, Subs
  <1>2. Tame(P)
    BY <1>1 DEF Tame
  <1> QED BY <1>1, <1>2, TameKept

(* Its calls, the listing and the repair before the park, the cascade. *)
LEMMA TurnsTamely ==
  ASSUME Invariant, Resumable,
         \/ CallTasks \/ ExecuteTask \/ ListSpawned \/ RepairNext \/ ListOrphans \/ CascadeEnds
  PROVE  Resumable'
  <1>1. /\ P \in Threads /\ P \in Subs /\ job \in [Threads -> Job] /\ job[P] \in Job /\ TypeOK
    BY DEF Invariant, TypeOK, Threads, Subs
  <1>2. Grows /\ Calm
    BY StillGrows, StillCalm DEF CallTasks, ExecuteTask, ListSpawned, RepairNext,
                                 ListOrphans, CascadeEnds, store
  <1>3. job[P].pc \in {"drive", "tools", "drain", "repair", "orphans", "cascade"}
    BY DEF CallTasks, ExecuteTask, ListSpawned, RepairNext, ListOrphans, CascadeEnds, At
  <1>4. /\ OnlyMoves(P) /\ (job')[P].pc \notin {"siblings", "resume"}
        /\ (job')[P].stage \in {job[P].stage, "park", "none"}
    <2>1. CASE CallTasks
      <3>1. PICK batch : job' = [job EXCEPT ![P].pc = "tools", ![P].todo = batch]
        BY <2>1 DEF CallTasks
      <3> QED BY <1>1, <3>1 DEF OnlyMoves, Stays, Job
    <2>2. CASE ExecuteTask
      <3>1. PICK k \in job[P].todo :
              \/ job' = [job EXCEPT ![P].todo = @ \ {k},
                                    ![P].pc = AfterCall(job[P].todo \ {k}, suspended)]
              \/ job' = [job EXCEPT ![P].todo = @ \ {k}, ![P].pc = "dispatch", ![P].sub = k]
        BY <2>2 DEF ExecuteTask
      <3>2. PICK p \in {"tools", "drain", "drive"} : p = AfterCall(job[P].todo \ {k}, suspended)
        BY DEF AfterCall
      <3>3. CASE job' = [job EXCEPT ![P].todo = @ \ {k},
                                    ![P].pc = AfterCall(job[P].todo \ {k}, suspended)]
        <4>1. job' = [job EXCEPT ![P].todo = @ \ {k}, ![P].pc = p]
          BY <3>2, <3>3
        <4> QED BY <1>1, <4>1 DEF OnlyMoves, Stays, Job
      <3>4. CASE job' = [job EXCEPT ![P].todo = @ \ {k}, ![P].pc = "dispatch", ![P].sub = k]
        BY <1>1, <3>4 DEF OnlyMoves, Stays, Job
      <3> QED BY <3>1, <3>3, <3>4
    <2>3. CASE ListSpawned \/ ListOrphans
      BY <1>1, <2>3 DEF ListSpawned, ListOrphans, OnlyMoves, Stays, Job
    <2>4. CASE RepairNext
      <3>1. PICK k \in job[P].todo :
              job' = [job EXCEPT ![P].pc = "spawned?", ![P].sub = k,
                                 ![P].stage = "park", ![P].todo = @ \ {k}]
        BY <2>4 DEF RepairNext
      <3> QED BY <1>1, <3>1 DEF OnlyMoves, Stays, Job
    <2>5. CASE CascadeEnds
      <3>1. Now(P, "idle", P, "none", "none", {}, {})
        BY <1>1, <2>5, Idles DEF CascadeEnds
      <3> QED BY <1>1, <3>1, NowMoves
    <2> QED BY <2>1, <2>2, <2>3, <2>4, <2>5
  <1> QED BY <1>2, <1>3, <1>4, ParentTamely

(* A dispatch adds a child whose call nobody has answered, and a turn that
   resumes is over by then. *)
LEMMA DispatchesTamely ==
  ASSUME Invariant, Resumable, DispatchChild
  PROVE  Resumable'
  <1>1. /\ P \in Threads /\ P # Loop /\ P \in Subs /\ P \notin Kids /\ Kids \subseteq Subs
        /\ TypeOK /\ job \in [Threads -> Job] /\ job[P] \in Job /\ row \in [Subs -> Row]
    BY SubagentsAssumption DEF Invariant, TypeOK, Threads, Subs
  <1>2. At(P, "dispatch") /\ job[P].sub \in Kids /\ log' = log
    <2>1. At(P, "dispatch") /\ log' = log /\ Placed(P)
      BY <1>1 DEF DispatchChild, Invariant, View
    <2> QED BY <2>1 DEF Placed, At
  <1>3. row[P].status = "running"
    <2>1. RowHeld(P) /\ Working(P)
      BY <1>1, <1>2 DEF Invariant, View, Working, Turns, At
    <2> QED BY <1>1, <2>1 DEF RowHeld
  <1>4. (row')[P] = row[P]
    BY <1>1, <1>2 DEF DispatchChild
  <1>5. PICK p \in {"tools", "drain"} : p = AfterCall(job[P].todo, TRUE)
    BY DEF AfterCall
  <1>6. job' = [job EXCEPT ![P].pc = p, ![P].sub = P]
    BY <1>5 DEF DispatchChild
  <1>7. OnlyMoves(P) /\ (job')[P].pc = p /\ (job')[P].stage = job[P].stage
    BY <1>1, <1>6 DEF OnlyMoves, Stays, Job
  <1>8. job[P].stage # "resume"
    BY <1>2, NotResuming DEF At
  <1>9. ~row[P].resume
    BY <1>3 DEF Resumable, Marked
  <1>a. ASSUME NEW t \in Threads PROVE AnsweredFirst(t)'
    <2>1. CASE t = P
      BY <1>7, <2>1 DEF AnsweredFirst
    <2>2. CASE t # P
      BY <1>2, <1>7, <2>2 DEF OnlyMoves, Stays, Resumable, AnsweredFirst, Answered, Logged
    <2> QED BY <2>1, <2>2
  <1>b. Expiring' /\ Marked' /\ Resuming'
    BY <1>3, <1>4, <1>7, <1>8, <1>9 DEF Expiring, Marked, Resuming
  <1> QED BY <1>a, <1>b DEF Resumable

(* The park sets the mark. *)
LEMMA ParksTamely ==
  ASSUME Invariant, Resumable, WaitSubmission
  PROVE  Resumable'
  <1>1. /\ P \in Threads /\ P # Loop /\ P \in Subs /\ Loop \in Threads
        /\ TypeOK /\ job \in [Threads -> Job] /\ row \in [Subs -> Row]
    BY SubagentsAssumption DEF Invariant, TypeOK, Threads, Subs
  <1>2. At(P, "repair") /\ log' = log
    BY DEF WaitSubmission
  <1>3. row[P].status = "running"
    <2>1. RowHeld(P) /\ Working(P)
      BY <1>1, <1>2 DEF Invariant, View, Working, Turns, At
    <2> QED BY <1>1, <2>1 DEF RowHeld
  <1>4. (row')[P].status = "waiting"
    BY <1>1, <1>3 DEF WaitSubmission, Row
  <1>5. Now(P, "idle", P, "none", "none", {}, {})
    BY <1>1, Idles DEF WaitSubmission
  <1>6. OnlyMoves(P) /\ (job')[P].pc = "idle" /\ (job')[P].stage = "none"
    BY <1>1, <1>5, NowMoves
  <1>7. ~Scanning
    BY <1>2 DEF Invariant, LoopAlone, At
  <1>8. (job')[Loop].pc \notin {"recheck", "expired", "requeue"}
    BY <1>1, <1>6, <1>7 DEF OnlyMoves, Stays, Scanning, Expiry
  <1>9. ASSUME NEW t \in Threads PROVE AnsweredFirst(t)'
    <2>1. CASE t = P
      BY <1>6, <2>1 DEF AnsweredFirst
    <2>2. CASE t # P
      BY <1>2, <1>6, <2>2 DEF OnlyMoves, Stays, Resumable, AnsweredFirst, Answered, Logged
    <2> QED BY <2>1, <2>2
  <1>a. Expiring' /\ Marked' /\ Resuming'
    BY <1>4, <1>6, <1>8 DEF Expiring, Marked, Resuming
  <1> QED BY <1>9, <1>a DEF Resumable

(* Together: the run of the parent. *)
LEMMA ParentResumable ==
  ASSUME OneChild, Invariant, Resumable, ParentStep
  PROVE  Resumable'
  <1>1. P \in Subs /\ P \in Threads
    BY DEF Subs, Threads
  <1> QED BY <1>1, DutyResumable, ReservesTamely, ScansTamely, OpensTamely, TurnsTamely,
             DispatchesTamely, ParksTamely DEF ParentStep

(* A step of the loop outside the expiry. *)
LEMMA LoopTamely ==
  ASSUME Invariant, Resumable, Grows, Calm, OnlyMoves(Loop),
         (job')[Loop].pc \notin {"siblings", "resume", "recheck", "expired", "requeue"}
  PROVE  Resumable'
  <1>1. Loop \in Threads /\ P # Loop
    BY SubagentsAssumption DEF Threads, Subs
  <1>2. Tame(Loop)
    BY <1>1 DEF Tame
  <1> QED BY <1>1, <1>2, TameKept

(* ...given by the job it takes on. *)
LEMMA LoopTakes ==
  ASSUME Invariant, Resumable, Grows, Calm, NEW r, job' = [job EXCEPT ![Loop] = r],
         r.pc \notin {"siblings", "resume", "recheck", "expired", "requeue"}
  PROVE  Resumable'
  <1>1. job \in [Threads -> Job] /\ Loop \in Threads
    BY DEF Invariant, TypeOK, Threads
  <1>2. OnlyMoves(Loop) /\ (job')[Loop] = r
    BY <1>1 DEF OnlyMoves, Stays
  <1> QED BY <1>2, LoopTamely

(* Its listings... *)
LEMMA PassesTamely ==
  ASSUME Invariant, Resumable,
         \/ ListTerminalizing \/ ListExpiredWaits \/ ListChildrenToCancel \/ ListWaiting
         \/ ListSettledChildren \/ ReadBackstopPending \/ ListExpiredLeases \/ ListRunnable
  PROVE  Resumable'
  <1>1. job \in [Threads -> Job] /\ Loop \in Threads /\ job[Loop] \in Job
    BY DEF Invariant, TypeOK, Threads
  <1>2. row' = row /\ log' = log
    BY DEF ListTerminalizing, ListExpiredWaits, ListChildrenToCancel, ListWaiting,
           ListSettledChildren, ReadBackstopPending, ListExpiredLeases, ListRunnable, store
  <1>3. Grows /\ Calm
    BY <1>2, StillGrows, StillCalm
  <1>4. PICK p \in {"reconcile", "expire", "waiting", "cancel", "backlist", "reclaim",
                    "backpending", "backstop", "release", "claiming"} :
          Goto(Loop, p) \/ \E d, e : LoopGoes(p, d, e)
    <2>1. CASE ListTerminalizing \/ ListExpiredWaits \/ ListChildrenToCancel \/ ListWaiting
      BY <2>1 DEF ListTerminalizing, ListExpiredWaits, ListChildrenToCancel, ListWaiting
    <2>2. CASE ListSettledChildren \/ ReadBackstopPending \/ ListExpiredLeases \/ ListRunnable
      BY <2>2 DEF ListSettledChildren, ReadBackstopPending, ListExpiredLeases, ListRunnable
    <2> QED BY <2>1, <2>2
  <1>5. OnlyMoves(Loop) /\ (job')[Loop].pc = p
    <2>1. CASE Goto(Loop, p)
      BY <1>1, <2>1 DEF Goto, OnlyMoves, Stays, Job
    <2>2. CASE \E d, e : LoopGoes(p, d, e)
      <3>1. PICK d, e : LoopGoes(p, d, e)
        BY <2>2
      <3> QED BY <1>1, <3>1 DEF LoopGoes, OnlyMoves, Stays, Job
    <2> QED BY <1>4, <2>1, <2>2
  <1> QED BY <1>3, <1>5, LoopTamely

(* ...what it settles and whom it wakes... *)
LEMMA ReconcilesTamely ==
  ASSUME Invariant, Resumable, Reconcile \/ BackstopWake
  PROVE  Resumable'
  <1>1. job \in [Threads -> Job] /\ Loop \in Threads /\ job[Loop] \in Job
    BY DEF Invariant, TypeOK, Threads
  <1>2. Grows /\ Calm
    BY StillGrows, StillCalm DEF Reconcile, BackstopWake, store
  <1>3. CASE Reconcile
    <2>1. PICK s \in job[Loop].todo :
            job' = [job EXCEPT ![Loop] =
                      [job[Loop] EXCEPT !.pc = "check", !.sub = s, !.stage = "reserved",
                                        !.outcome = "indeterminate", !.todo = @ \ {s}]]
      BY <1>3 DEF Reconcile
    <2> DEFINE r == [job[Loop] EXCEPT !.pc = "check", !.sub = s, !.stage = "reserved",
                                      !.outcome = "indeterminate", !.todo = @ \ {s}]
    <2>2. r.pc = "check"
      BY <1>1 DEF Job
    <2>3. job' = [job EXCEPT ![Loop] = r]
      BY <2>1
    <2> HIDE DEF r
    <2> QED BY <1>2, <2>2, <2>3, LoopTakes
  <1>4. CASE BackstopWake /\ LoopGoes("reclaim", {}, {})
    <2>1. OnlyMoves(Loop) /\ (job')[Loop].pc = "reclaim"
      BY <1>1, <1>4 DEF LoopGoes, OnlyMoves, Stays, Job
    <2> QED BY <1>2, <2>1, LoopTamely
  <1>5. CASE BackstopWake /\ ~LoopGoes("reclaim", {}, {})
    <2>1. PICK k \in job[Loop].todo :
            \/ job' = [job EXCEPT ![Loop] =
                         [job[Loop] EXCEPT !.pc = "wake", !.sub = k,
                                           !.stage = "backstop", !.todo = @ \ {k}]]
            \/ job' = [job EXCEPT ![Loop] =
                         [job[Loop] EXCEPT !.pc = "wake", !.sub = k,
                                           !.stage = "backstop",
                                           !.outcome = Head(settled[k]),
                                           !.todo = @ \ {k}]]
      BY <1>5 DEF BackstopWake
    <2> DEFINE q == [job[Loop] EXCEPT !.pc = "wake", !.sub = k,
                                      !.stage = "backstop", !.todo = @ \ {k}]
               r == [job[Loop] EXCEPT !.pc = "wake", !.sub = k, !.stage = "backstop",
                                      !.outcome = Head(settled[k]), !.todo = @ \ {k}]
    <2>2. q.pc = "wake" /\ r.pc = "wake"
      BY <1>1 DEF Job
    <2>3. job' = [job EXCEPT ![Loop] = q] \/ job' = [job EXCEPT ![Loop] = r]
      BY <2>1
    <2> HIDE DEF q, r
    <2> QED BY <1>2, <2>2, <2>3, LoopTakes
  <1> QED BY <1>3, <1>4, <1>5

(* ...and the rows it releases, which carry no mark. *)
LEMMA ReleasesTamely ==
  ASSUME Invariant, Resumable, ReleaseExpired \/ CancelReleased
  PROVE  Resumable'
  <1>1. /\ job \in [Threads -> Job] /\ Loop \in Threads /\ Loop \notin Subs
        /\ job[Loop] \in Job /\ TypeOK /\ row \in [Subs -> Row] /\ job[Loop].todo \subseteq Subs
    BY SubagentsAssumption, Typed DEF Invariant, TypeOK, Threads
  <1>2. Grows
    BY StillGrows DEF ReleaseExpired, CancelReleased
  <1>3. CASE ReleaseExpired
    <2>1. PICK s \in job[Loop].todo :
            LET rest == [job[Loop] EXCEPT !.todo = @ \ {s}]
            IN IF job[s].pc # "idle" \/ row[s].status # "running"
               THEN job' = [job EXCEPT ![Loop] = rest] /\ UNCHANGED row
               ELSE /\ row' = Released(s)
                    /\ job' = [job EXCEPT ![Loop] =
                         IF s \in rest.pend THEN [rest EXCEPT !.pc = "cancelled", !.sub = s]
                                            ELSE rest]
      BY <1>3 DEF ReleaseExpired
    <2>2. s \in Subs /\ At(Loop, "release")
      BY <1>1, <1>3 DEF ReleaseExpired
    <2> DEFINE rest == [job[Loop] EXCEPT !.todo = @ \ {s}]
               flagged == [rest EXCEPT !.pc = "cancelled", !.sub = s]
    <2>3. rest.pc = "release" /\ flagged.pc = "cancelled"
      BY <1>1, <2>2 DEF Job, At
    <2>4. job' = [job EXCEPT ![Loop] = rest] \/ job' = [job EXCEPT ![Loop] = flagged]
      BY <2>1
    <2>5. Calm
      <3>1. CASE row' = row
        BY <3>1, StillCalm
      <3>2. CASE row' = Released(s) /\ row[s].status = "running"
        <4>1. /\ \A u \in Subs \ {s} : (row')[u] = row[u]
              /\ (row')[s].status = "queued" /\ (row')[s].resume = row[s].resume
          BY <1>1, <2>2, <3>2 DEF Released, Row
        <4> QED BY <2>2, <3>2, <4>1, RowCalm
      <3> QED BY <2>1, <3>1, <3>2
    <2> HIDE DEF rest, flagged
    <2> QED BY <1>2, <2>3, <2>4, <2>5, LoopTakes
  <1>4. CASE CancelReleased
    <2>1. job[Loop].sub \in Kids /\ job[Loop].sub \in Subs /\ job[Loop].sub # P
      <3>1. job[Loop].pc = "cancelled" /\ Placed(Loop)
        BY <1>1, <1>4 DEF CancelReleased, At, Invariant, View
      <3>2. job[Loop].sub \in Kids
        BY <3>1 DEF Placed
      <3> QED BY <3>2, SubagentsAssumption DEF Subs
    <2>2. Calm
      <3>1. CASE row[job[Loop].sub].status = "queued"
        <4>1. SetStatus(job[Loop].sub, "settled")
          BY <1>4, <3>1 DEF CancelReleased
        <4>2. PICK k \in Subs : k = job[Loop].sub
          BY <2>1
        <4> QED BY <2>1, <3>1, <4>1, <4>2, StatusCalm
      <3>2. CASE row[job[Loop].sub].status # "queued"
        BY <1>4, <3>2, StillCalm DEF CancelReleased
      <3> QED BY <3>1, <3>2
    <2>3. OnlyMoves(Loop) /\ (job')[Loop].pc \in {"check", "release"}
      BY <1>1, <1>4 DEF CancelReleased, OnlyMoves, Stays, Job
    <2> QED BY <1>2, <2>2, <2>3, LoopTamely
  <1> QED BY <1>3, <1>4

(* The expiry answers what is open before it requeues: who has no answer yet
   has a spawn record, for the parent waits. *)
LEMMA ExpiresTamely ==
  ASSUME Invariant, Resumable, ReadPending \/ RecheckPending \/ AppendExpired
  PROVE  Resumable'
  <1>1. /\ job \in [Threads -> Job] /\ Loop \in Threads /\ P # Loop
        /\ job[Loop] \in Job /\ TypeOK /\ Children \subseteq Kids
    BY SubagentsAssumption DEF Invariant, TypeOK, Threads, Subs, Children
  <1>2. row' = row
    BY DEF ReadPending, RecheckPending, AppendExpired, store
  <1>3. Calm /\ Children' = Children
    BY <1>2, StillCalm DEF Children
  <1>4. row[P].status = "waiting" => \A k \in Children : Spawned(k)
    BY DEF Invariant, Parked
  <1>5. CASE ReadPending \/ RecheckPending
    <2> DEFINE open == IF ReadPending THEN PendingCalls ELSE job[Loop].pend \cap PendingCalls
    <2>1. log' = log /\ \A k \in Kids : Answered(k)' = Answered(k)
      BY <1>5 DEF ReadPending, RecheckPending, store, Answered, Logged
    <2>2. PICK p \in {"requeue", "recheck", "expired"} :
            LoopGoes(p, {}, open) /\ (p = "requeue" => open = {})
      BY <1>5 DEF ReadPending, RecheckPending
    <2>3. row[P].status = "waiting" => \A k \in Children : Answered(k) \/ k \in open
      <3>1. CASE ReadPending
        BY <1>1, <1>4, <3>1 DEF PendingCalls
      <3>2. CASE RecheckPending /\ ~ReadPending
        <4>1. job[Loop].pc = "recheck"
          BY <3>2 DEF RecheckPending, At
        <4> QED BY <1>1, <1>4, <3>2, <4>1 DEF PendingCalls, Resumable, Expiring
      <3> QED BY <1>5, <3>1, <3>2
    <2> HIDE DEF open
    <2>4. OnlyMoves(Loop) /\ (job')[Loop].pc = p /\ (job')[Loop].pend = open
      BY <1>1, <2>2 DEF LoopGoes, OnlyMoves, Stays, Job
    <2>5. Expiring'
      BY <1>1, <1>2, <1>3, <2>1, <2>2, <2>3, <2>4 DEF Expiring
    <2>6. AnsweredFirst(Loop)'
      BY <2>4 DEF AnsweredFirst
    <2> QED BY <1>1, <1>3, <2>1, <2>4, <2>5, <2>6, StillGrows, ResumableKept
  <1>6. CASE AppendExpired
    <2>1. /\ job[Loop].pc = "expired" /\ job[Loop].pend \in SUBSET Kids
          /\ "expired" \in Records /\ "expired" \in Answers
      BY <1>1, <1>6 DEF AppendExpired, At, Invariant, View, Placed, Records, Answers
    <2>2. Wrote(job[Loop].pend, "expired")
      BY <1>6 DEF AppendExpired, Wrote
    <2>3. Grows /\ \A k \in job[Loop].pend : Answered(k)'
      BY <1>1, <2>1, <2>2, WroteGrows
    <2>4. OnlyMoves(Loop) /\ (job')[Loop].pc = "requeue"
      BY <1>1, <1>6 DEF AppendExpired, LoopGoes, OnlyMoves, Stays, Job
    <2>5. row[P].status = "waiting" => \A k \in Children : Answered(k)'
      BY <1>1, <2>1, <2>3 DEF Resumable, Expiring, Grows
    <2>6. Expiring'
      BY <1>1, <1>2, <1>3, <2>5 DEF Expiring
    <2>7. AnsweredFirst(Loop)'
      BY <2>4 DEF AnsweredFirst
    <2> QED BY <1>1, <1>3, <2>3, <2>4, <2>6, <2>7, ResumableKept
  <1> QED BY <1>5, <1>6

(* The expiry queues the parent when nothing is open. *)
LEMMA RequeuesTamely ==
  ASSUME Invariant, Resumable, RequeueExpired
  PROVE  Resumable'
  <1>1. job \in [Threads -> Job] /\ Loop \in Threads /\ P # Loop /\ job[Loop] \in Job
    BY SubagentsAssumption DEF Invariant, TypeOK, Threads, Subs
  <1>2. job[Loop].pc = "requeue" /\ log' = log /\ Requeue /\ Goto(Loop, "waiting")
    BY DEF RequeueExpired, At
  <1>3. OnlyMoves(Loop) /\ (job')[Loop].pc = "waiting"
    BY <1>1, <1>2 DEF Goto, OnlyMoves, Stays, Job
  <1>4. Tame(Loop)
    BY <1>1, <1>3 DEF Tame
  <1>5. row[P].status = "waiting" => AllAnswered
    BY <1>2 DEF Resumable, Expiring, AllAnswered
  <1> QED BY <1>1, <1>2, <1>3, <1>4, <1>5, QueuesTamely

(* The claim consumes the mark: the attempt that resumes begins with the scan. *)
LEMMA BegunResumes ==
  ASSUME NEW s \in Subs, Begun(s).stage = "resume"
  PROVE  row[s].resume /\ Begun(s).pc \in {"scan", "register"} /\ (s = P => Begun(s).pc = "scan")
  <1>1. CASE row[s].flag
    BY <1>1 DEF Begun, NewJob
  <1>2. CASE ~row[s].flag /\ Claimed(s).count > MaxAttempts
    BY <1>2 DEF Begun, NewJob
  <1>3. CASE ~row[s].flag /\ ~(Claimed(s).count > MaxAttempts)
    <2>1. Begun(s) = NewJob(s, IF s = P THEN "scan" ELSE "register",
                            IF row[s].resume THEN "resume" ELSE "prompt", "none")
      BY <1>3 DEF Begun
    <2> QED BY <2>1 DEF NewJob
  <1> QED BY <1>1, <1>2, <1>3

(* A claim of the parent that resumes it finds all answered. *)
LEMMA ClaimsTamely ==
  ASSUME Invariant, Resumable, ClaimSubmission
  PROVE  Resumable'
  <1>1. /\ job \in [Threads -> Job] /\ Loop \in Threads /\ P # Loop /\ P \in Subs
        /\ Loop \notin Subs /\ Subs \subseteq Threads /\ Kids \subseteq Subs
        /\ job[Loop] \in Job /\ TypeOK /\ row \in [Subs -> Row] /\ job[Loop].todo \subseteq Subs
    BY SubagentsAssumption, Typed DEF Invariant, TypeOK, Threads, Subs
  <1>2. Grows /\ At(Loop, "claiming")
    BY StillGrows DEF ClaimSubmission
  <1>3. PICK s \in job[Loop].todo :
          IF job[s].pc # "idle" \/ row[s].status # "queued"
          THEN job' = [job EXCEPT ![Loop].todo = @ \ {s}] /\ UNCHANGED row
          ELSE /\ row' = [row EXCEPT ![s] = Claimed(s)]
               /\ job' = [job EXCEPT ![Loop].todo = @ \ {s}, ![s] = Begun(s)]
    BY DEF ClaimSubmission
  <1>4. CASE job' = [job EXCEPT ![Loop].todo = @ \ {s}] /\ row' = row
    <2>1. OnlyMoves(Loop) /\ (job')[Loop].pc = "claiming"
      BY <1>1, <1>2, <1>4 DEF OnlyMoves, Stays, Job, At
    <2> QED BY <1>2, <1>4, <2>1, StillCalm, LoopTamely
  <1>5. CASE /\ row' = [row EXCEPT ![s] = Claimed(s)] /\ row[s].status = "queued"
             /\ job' = [job EXCEPT ![Loop].todo = @ \ {s}, ![s] = Begun(s)]
    <2>1. s \in Subs /\ s \in Threads /\ s # Loop
      BY <1>1
    <2>2. OnlyMoves(s) /\ (job')[s] = Begun(s)
      BY <1>1, <1>5, <2>1 DEF OnlyMoves, Stays, Job
    <2>3. /\ \A u \in Subs \ {s} : (row')[u] = row[u]
          /\ (row')[s].status = "running" /\ (row')[s].resume = FALSE
      BY <1>1, <1>5, <2>1 DEF Claimed, Row
    <2>4. Calm
      BY <1>1, <1>5, <2>1, <2>3 DEF Calm, Children
    <2>5. (job')[s].pc \in {"settle", "scan", "register"}
      BY <1>1, <2>1, <2>2, BegunIs
    <2>6. AnsweredFirst(s)'
      BY <2>5 DEF AnsweredFirst
    <2>7. ASSUME s = P PROVE Resuming'
      <3>1. CASE Begun(P).stage = "resume"
        <4>1. row[P].resume /\ Begun(P).pc = "scan"
          BY <1>1, <3>1, BegunResumes
        <4>2. AllAnswered /\ Children \subseteq Kids
          BY <1>5, <2>7, <4>1 DEF Resumable, Marked, Children
        <4>3. AllAnswered'
          BY <1>2, <2>4, <4>2 DEF AllAnswered, Grows, Calm
        <4> QED BY <2>2, <2>7, <4>1, <4>3 DEF Resuming
      <3>2. CASE Begun(P).stage # "resume"
        BY <2>2, <2>7, <3>2 DEF Resuming
      <3> QED BY <3>1, <3>2
    <2> QED BY <1>2, <2>1, <2>2, <2>4, <2>6, <2>7, ResumableKept
  <1> QED BY <1>3, <1>4, <1>5

(* Together: the loop. *)
LEMMA LoopResumable ==
  ASSUME OneChild, Invariant, Resumable, LoopStep
  PROVE  Resumable'
  <1>1. Loop \in Threads
    BY DEF Threads
  <1> QED BY <1>1, DutyResumable, PassesTamely, ReconcilesTamely, ReleasesTamely, ExpiresTamely,
             RequeuesTamely, ClaimsTamely DEF LoopStep

----------------------------------------------------------------------------
(* The rest, and the theorem. *)

(* A step of no thread, or of the consumer. *)
LEMMA JobsResumable ==
  ASSUME Invariant, Resumable, job' = job, Grows, Calm
  PROVE  Resumable'
  <1>1. P \in Threads /\ Children \subseteq Kids
    BY DEF Threads, Subs, Children
  <1>2. OnlyMoves(P)
    BY DEF OnlyMoves, Stays
  <1>3. AnsweredFirst(P)'
    <2>1. CASE job[P].pc \in {"siblings", "resume"}
      <3>1. job[P].sub \in Kids
        BY <1>1, <2>1 DEF Invariant, View, Placed, Notes
      <3>2. PICK k \in Kids : k = job[P].sub
        BY <3>1
      <3>3. Answered(k)'
        BY <1>1, <2>1, <3>2 DEF Resumable, AnsweredFirst, Grows
      <3> QED BY <3>2, <3>3 DEF AnsweredFirst, Answered, Logged
    <2>2. CASE job[P].pc \notin {"siblings", "resume"}
      BY <2>2 DEF AnsweredFirst
    <2> QED BY <2>1, <2>2
  <1>4. Resuming'
    BY <1>1 DEF Resumable, Resuming, AllAnswered, Calm, Grows
  <1> QED BY <1>1, <1>2, <1>3, <1>4, SubagentsAssumption, ResumableKept DEF Subs

(* The consumer only adds to the log. *)
LEMMA ConsumerResumable ==
  ASSUME Invariant, Resumable, Consumer
  PROVE  Resumable'
  <1>1. TypeOK /\ author \subseteq Kids /\ events \in Seq({"call", "spawn", "rejected"} \X Kids)
    BY DEF Invariant, TypeOK
  <1>2. job' = job /\ row' = row
    BY DEF Consumer, ConsumeEvent, ConsumerAuthors
  <1>3. Grows
    <2>1. CASE log' = log
      BY <2>1, StillGrows
    <2>2. CASE ConsumeEvent /\ log' # log
      <3>1. events # <<>> /\ Put(Head(events)[2], Head(events)[1])
        BY <2>2 DEF ConsumeEvent
      <3>2. Head(events) \in {"call", "spawn", "rejected"} \X Kids
        BY <1>1, <3>1
      <3>3. PICK k \in Kids, r \in Records : k = Head(events)[2] /\ r = Head(events)[1]
        BY <3>2 DEF Records, Answers
      <3> QED BY <1>1, <3>1, <3>3, PutGrows
    <2>3. CASE ConsumerAuthors
      <3>1. PICK k \in author : Put(k, "spawn")
        BY <2>3 DEF ConsumerAuthors
      <3> QED BY <1>1, <3>1, PutGrows DEF Records
    <2> QED BY <2>1, <2>2, <2>3 DEF Consumer
  <1> QED BY <1>2, <1>3, StillCalm, JobsResumable

(* A lease that runs out and a wait that lapses take no answer away. *)
LEMMA TimeResumable ==
  ASSUME Invariant, Resumable, (\E s \in Subs : LeaseExpires(s)) \/ WaitLapses
  PROVE  Resumable'
  <1>1. job' = job /\ log' = log
    BY DEF LeaseExpires, WaitLapses
  <1>2. Calm
    <2>1. CASE \E s \in Subs : LeaseExpires(s)
      <3>1. PICK s \in Subs : LeaseExpires(s)
        BY <2>1
      <3>2. row \in [Subs -> Row]
        BY DEF Invariant, TypeOK
      <3>3. /\ \A u \in Subs \ {s} : (row')[u] = row[u]
            /\ (row')[s].status = "running" /\ (row')[s].resume = row[s].resume
            /\ row[s].status = "running"
        BY <3>1, <3>2 DEF LeaseExpires, Row
      <3> QED BY <3>3, RowCalm
    <2>2. CASE WaitLapses
      BY <2>2, StillCalm DEF WaitLapses
    <2> QED BY <2>1, <2>2
  <1> QED BY <1>1, <1>2, StillGrows, JobsResumable

(* After a crash nobody relies on an answer but the mark. *)
LEMMA CrashResumable ==
  ASSUME Invariant, Resumable, Crash
  PROVE  Resumable'
  <1>1. row' = row /\ log' = log /\ job' = [t \in Threads |-> Idle(t)]
        /\ P \in Threads /\ Loop \in Threads
    BY DEF Crash, store, Threads, Subs
  <1>2. \A t \in Threads : (job')[t].pc \in {"boot", "idle"} /\ (job')[t].stage = "none"
    BY <1>1, Idling
  <1>3. Marked'
    BY <1>1 DEF Resumable, Marked, AllAnswered, Children, Answered, Logged
  <1> QED BY <1>1, <1>2, <1>3 DEF Resumable, AnsweredFirst, Expiring, Resuming

(* At first nothing is marked. *)
LEMMA InitResumable ==
  ASSUME Init
  PROVE  Resumable
  <1>1. job = [t \in Threads |-> Idle(t)] /\ P \in Threads /\ Loop \in Threads /\ P \in Subs
    BY DEF Init, Threads, Subs
  <1>2. \A t \in Threads : job[t].pc \in {"boot", "idle"} /\ job[t].stage = "none"
    BY <1>1, Idling
  <1>3. row[P].resume = FALSE
    BY <1>1 DEF Init, NewRow
  <1> QED BY <1>1, <1>2, <1>3 DEF Resumable, AnsweredFirst, Expiring, Marked, Resuming

(* Every step keeps it. *)
LEMMA ResumableHolds ==
  Invariant /\ Resumable /\ OneChild /\ [Next]_vars => Resumable'
  <1> SUFFICES ASSUME Invariant, Resumable, OneChild, [Next]_vars PROVE Resumable'
    OBVIOUS
  <1>1. CASE \E k \in Kids : ChildStep(k)
    BY <1>1, ChildResumable
  <1>2. CASE ParentStep \/ LoopStep \/ Consumer
    BY <1>2, ParentResumable, LoopResumable, ConsumerResumable
  <1>3. CASE (\E s \in Subs : LeaseExpires(s)) \/ WaitLapses
    BY <1>3, TimeResumable
  <1>4. CASE Crash
    BY <1>4, CrashResumable
  <1>5. CASE UNCHANGED vars
    BY <1>5, StillGrows, StillCalm, JobsResumable DEF vars
  <1> QED BY <1>1, <1>2, <1>3, <1>4, <1>5 DEF Next

(* A parent that has dispatched one child and is resumed finds its call
   answered, whoever resumes it: the wake of the child, of the cascade or the
   back-stop, or the expiry of the wait; whatever crashes, and however often.
   With two children it may not: the wake of one may act on a listing from
   before the other was dispatched. *)
THEOREM ResumeAnswered == Spec /\ []OneChild => []ResumeFindsAnswers
  <1>1. Init => Resumable
    BY InitResumable
  <1>2. Invariant /\ Resumable /\ OneChild /\ [Next]_vars => Resumable'
    BY ResumableHolds
  <1>3. Resumable => ResumeFindsAnswers
    BY DEF Resumable, Resuming, ResumeFindsAnswers, AllAnswered
  <1> QED BY <1>1, <1>2, <1>3, InvariantHolds, PTL DEF Spec
=============================================================================
