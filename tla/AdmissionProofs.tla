-------------------------- MODULE AdmissionProofs --------------------------
(***************************************************************************)
(* Theorems about Admission, for every set of requests, callers and        *)
(* waiters, every limit on children and every number of crashes and        *)
(* failing store calls.  The first half says what a step changes: the      *)
(* locals of one caller, the store, and that the types are kept.  The      *)
(* second takes each step as one of the kinds of StepCases.                *)
(***************************************************************************)
EXTENDS AdmissionInvariant, FiniteSetTheorems, TLAPS

Pcs == {"idle", "lock", "replay", "count", "ensure", "open", "admit", "recover", "answered"}

(* The locals v of a caller, field by field. *)
Has(v, p, q, rp, cr, sp, nm) ==
  /\ v \in CallerState
  /\ v.pc = p /\ v.req = q /\ v.replay = rp /\ v.created = cr /\ v.spawn = sp /\ v.named = nm

(* Changing pc, replay, or created and spawn leaves the other locals. *)
LEMMA Fields ==
  ASSUME NEW u \in CallerState, NEW p \in Pcs, NEW b \in BOOLEAN, NEW n \in Nat
  PROVE  /\ Has([u EXCEPT !.pc = p], p, u.req, u.replay, u.created, u.spawn, u.named)
         /\ Has([u EXCEPT !.replay = b, !.pc = p], p, u.req, b, u.created, u.spawn, u.named)
         /\ Has([u EXCEPT !.created = b, !.spawn = n, !.pc = p], p, u.req, u.replay, b, n, u.named)
  <1> DEFINE v == [u EXCEPT !.replay = b]
             w == [u EXCEPT !.created = b]
             x == [w EXCEPT !.spawn = n]
  <1>1. Has([u EXCEPT !.pc = p], p, u.req, u.replay, u.created, u.spawn, u.named)
    BY DEF Has, CallerState, Pcs
  <1>2. Has(v, u.pc, u.req, b, u.created, u.spawn, u.named)
    BY DEF Has, CallerState
  <1>3. Has(w, u.pc, u.req, u.replay, b, u.spawn, u.named)
    BY DEF Has, CallerState
  <1>4. [u EXCEPT !.replay = b, !.pc = p] = [v EXCEPT !.pc = p]
    OBVIOUS
  <1>5. [u EXCEPT !.created = b, !.spawn = n, !.pc = p] = [x EXCEPT !.pc = p]
    OBVIOUS
  <1> HIDE DEF v, w
  <1>6. Has([v EXCEPT !.pc = p], p, u.req, b, u.created, u.spawn, u.named)
    BY <1>2 DEF Has, CallerState, Pcs
  <1>7. Has(x, u.pc, u.req, u.replay, b, n, u.named)
    BY <1>3 DEF Has, CallerState
  <1> HIDE DEF x
  <1>8. Has([x EXCEPT !.pc = p], p, u.req, u.replay, b, n, u.named)
    BY <1>7 DEF Has, CallerState, Pcs
  <1> QED
    BY <1>1, <1>4, <1>5, <1>6, <1>8, Zenon

(* The locals of an idle caller, of one that starts and of one that answers. *)
LEMMA IdleFields ==
  ASSUME NEW p \in Pcs, NEW q \in Requests \cup {NoRequest}, NEW n \in Nat,
         NEW k \in Keys \cup {"none"}
  PROVE  /\ Has(IdleCaller, "idle", NoRequest, FALSE, FALSE, 0, "none")
         /\ Has([IdleCaller EXCEPT !.req = q, !.pc = p], p, q, FALSE, FALSE, 0, "none")
         /\ Has([IdleCaller EXCEPT !.pc = p, !.req = q, !.named = k, !.spawn = n],
                p, q, FALSE, FALSE, n, k)
  <1> DEFINE u == IdleCaller
             v == [u EXCEPT !.req = q]
             w == [u EXCEPT !.pc = p]
             x == [w EXCEPT !.req = q]
             y == [x EXCEPT !.named = k]
  <1>1. Has(u, "idle", NoRequest, FALSE, FALSE, 0, "none")
    BY DEF Has, IdleCaller, CallerState
  <1>2. [IdleCaller EXCEPT !.req = q, !.pc = p] = [v EXCEPT !.pc = p]
    OBVIOUS
  <1>3. [IdleCaller EXCEPT !.pc = p, !.req = q, !.named = k, !.spawn = n] = [y EXCEPT !.spawn = n]
    OBVIOUS
  <1> HIDE DEF u
  <1>4. Has(v, "idle", q, FALSE, FALSE, 0, "none")
    BY <1>1 DEF Has, CallerState
  <1>5. Has(w, p, NoRequest, FALSE, FALSE, 0, "none")
    BY <1>1 DEF Has, CallerState, Pcs
  <1> HIDE DEF v, w
  <1>6. Has([v EXCEPT !.pc = p], p, q, FALSE, FALSE, 0, "none")
    BY <1>4 DEF Has, CallerState, Pcs
  <1>7. Has(x, p, q, FALSE, FALSE, 0, "none")
    BY <1>5 DEF Has, CallerState
  <1> HIDE DEF x
  <1>8. Has(y, p, q, FALSE, FALSE, 0, k)
    BY <1>7 DEF Has, CallerState
  <1> HIDE DEF y
  <1>9. Has([y EXCEPT !.spawn = n], p, q, FALSE, FALSE, n, k)
    BY <1>8 DEF Has, CallerState
  <1> QED
    BY <1>1, <1>2, <1>3, <1>6, <1>9, Zenon DEF u

(* The caller c now has these locals, and the others have what they had. *)
Becomes(c, p, q, rp, cr, sp, nm) ==
  /\ caller' \in [Callers -> CallerState]
  /\ Has(caller'[c], p, q, rp, cr, sp, nm)
  /\ \A d \in Callers \ {c} : caller'[d] = caller[d]

CallerType == caller \in [Callers -> CallerState]

(* Replacing the locals of one caller. *)
LEMMA Set ==
  ASSUME CallerType, NEW c \in Callers, NEW v,
         NEW p, NEW q, NEW rp, NEW cr, NEW sp, NEW nm,
         Has(v, p, q, rp, cr, sp, nm), caller' = [caller EXCEPT ![c] = v]
  PROVE  Becomes(c, p, q, rp, cr, sp, nm)
  <1>1. v \in CallerState
    BY DEF Has
  <1>2. caller' \in [Callers -> CallerState] /\ caller'[c] = v /\ \A d \in Callers \ {c} : caller'[d] = caller[d]
    BY <1>1 DEF CallerType
  <1> QED
    BY <1>2, Zenon DEF Becomes

(* What each caller's step does to its locals. *)
LEMMA CallEffect ==
  ASSUME CallerType, NEW c \in Callers, NEW r \in Requests, Call(c, r)
  PROVE  \E p \in {"lock", "ensure"} :
           p = (IF r.task THEN "lock" ELSE "ensure") /\ Becomes(c, p, r, FALSE, FALSE, 0, "none")
  <1> DEFINE p == IF r.task THEN "lock" ELSE "ensure"
  <1>1. PICK x \in {"lock", "ensure"} : x = p
    BY Zenon
  <1> DEFINE v == [IdleCaller EXCEPT !.req = r, !.pc = x]
  <1>2. caller' = [caller EXCEPT ![c] = v]
    BY <1>1, Zenon DEF Call
  <1>3. r.key \in Keys
    BY DEF Keys
  <1>4. Has(v, x, r, FALSE, FALSE, 0, "none")
    BY <1>3, IdleFields DEF Pcs
  <1> HIDE DEF v
  <1> QED
    BY <1>1, <1>2, <1>4, Set

LEMMA GotoEffect ==
  ASSUME CallerType, NEW c \in Callers, NEW p \in Pcs, Goto(c, p)
  PROVE  Becomes(c, p, caller[c].req, caller[c].replay, caller[c].created, caller[c].spawn,
                 caller[c].named)
  <1> DEFINE u == caller[c]
             v == [u EXCEPT !.pc = p]
  <1>1. u \in CallerState
    BY DEF CallerType
  <1>2. caller' = [caller EXCEPT ![c] = v]
    BY DEF CallerType, Goto
  <1>3. Has(v, p, u.req, u.replay, u.created, u.spawn, u.named)
    BY <1>1, Fields
  <1> HIDE DEF v
  <1> QED
    BY <1>2, <1>3, Set

LEMMA LeaveEffect ==
  ASSUME CallerType, NEW c \in Callers, Leave(c)
  PROVE  Becomes(c, "idle", NoRequest, FALSE, FALSE, 0, "none")
  <1>1. Has(IdleCaller, "idle", NoRequest, FALSE, FALSE, 0, "none")
    BY DEF Has, IdleCaller, CallerState
  <1> QED
    BY <1>1, Set DEF Leave

LEMMA CheckReplayEffect ==
  ASSUME CallerType, NEW c \in Callers, CheckReplay(c)
  PROVE  \E p \in {"ensure", "count"}, b \in BOOLEAN :
           /\ b = Present(caller[c].req.id)
           /\ p = (IF b THEN "ensure" ELSE "count")
           /\ Becomes(c, p, caller[c].req, b, caller[c].created, caller[c].spawn, caller[c].named)
  <1> DEFINE u == caller[c]
  <1>1. PICK b \in BOOLEAN : b = Present(u.req.id)
    BY DEF Present
  <1>2. PICK p \in {"ensure", "count"} : p = (IF b THEN "ensure" ELSE "count")
    BY Zenon
  <1> DEFINE v == [u EXCEPT !.replay = b, !.pc = p]
  <1>3. u \in CallerState
    BY DEF CallerType
  <1>4. caller' = [caller EXCEPT ![c].replay = b, ![c].pc = p]
    BY <1>1, <1>2, Zenon DEF CheckReplay, Present
  <1>5. caller' = [caller EXCEPT ![c] = v]
    BY <1>4 DEF CallerType
  <1>6. Has(v, p, u.req, b, u.created, u.spawn, u.named)
    BY <1>3, Fields DEF Pcs
  <1> HIDE DEF v
  <1> QED
    BY <1>1, <1>2, <1>5, <1>6, Set

LEMMA AnswerEffect ==
  ASSUME CallerType, NEW c \in Callers, caller[c].req \in Requests,
         NEW k \in Keys \cup {"none"}, NEW n \in Nat, Answer(c, k, n)
  PROVE  Becomes(c, "answered", caller[c].req, FALSE, FALSE, n, k) /\ Unlock(c)
  <1> DEFINE q == caller[c].req
             v == [IdleCaller EXCEPT !.pc = "answered", !.req = q, !.named = k, !.spawn = n]
  <1>1. caller' = [caller EXCEPT ![c] = v] /\ Unlock(c)
    BY Zenon DEF Answer
  <1>2. Has(v, "answered", q, FALSE, FALSE, n, k)
    BY IdleFields DEF Pcs
  <1> HIDE DEF v
  <1> QED
    BY <1>1, <1>2, Set

LEMMA EnsureEffect ==
  ASSUME CallerType, minted \in Nat, NEW c \in Callers, EnsureConversation(c)
  PROVE  \E p \in {"open", "admit"}, b \in BOOLEAN, n \in Nat :
           /\ p = (IF caller[c].req.key \in conv THEN "admit" ELSE "open")
           /\ b = (caller[c].req.task /\ caller[c].req.key \notin conv)
           /\ ~caller[c].req.task => n = 0
           /\ minted' \in Nat
           /\ Becomes(c, p, caller[c].req, caller[c].replay, b, n, caller[c].named)
  <1> DEFINE u == caller[c]
             r == u.req
  <1>1. PICK b \in BOOLEAN : b = (r.task /\ r.key \notin conv)
    OBVIOUS
  <1>2. PICK p \in {"open", "admit"} : p = (IF r.key \in conv THEN "admit" ELSE "open")
    BY Zenon
  <1>3. PICK n \in Nat : n = (IF r.task THEN minted + 1 ELSE 0) /\ (~r.task => n = 0)
    OBVIOUS
  <1> DEFINE v == [u EXCEPT !.created = b, !.spawn = n, !.pc = p]
  <1>4. u \in CallerState
    BY DEF CallerType
  <1>5. /\ caller' = [caller EXCEPT ![c].created = b, ![c].spawn = n, ![c].pc = p]
        /\ minted' = IF r.task THEN minted + 1 ELSE minted
    BY <1>1, <1>2, <1>3, Zenon DEF EnsureConversation
  <1>6. caller' = [caller EXCEPT ![c] = v]
    BY <1>5 DEF CallerType
  <1>7. Has(v, p, r, u.replay, b, n, u.named)
    BY <1>4, Fields DEF Pcs
  <1>8. minted' \in Nat
    BY <1>5
  <1> HIDE DEF v
  <1> QED
    BY <1>1, <1>2, <1>3, <1>6, <1>7, <1>8, Set

(* AdmitSubmission stores a row for the request r. *)
Stores(r) ==
  /\ row' \in [Ids -> Row]
  /\ row'[r.id] = Stored(r)
  /\ \A i \in Ids \ {r.id} : row'[i] = row[i]

LEMMA StoredEffect ==
  ASSUME row \in [Ids -> Row], NEW r \in Requests
  PROVE  /\ r.id \in Ids /\ r.key \in Keys /\ r.input \in Inputs
         /\ Stored(r) \in Row /\ Stored(r).status # "absent"
         /\ Present(r.id) => Stored(r) = row[r.id]
         /\ ~Present(r.id) => Stored(r).status = "live" /\ Stored(r).key = r.key /\ Stored(r).input = r.input
         /\ row' = [row EXCEPT ![r.id] = Stored(r)] => Stores(r)
  <1>1. r.id \in Ids /\ r.key \in Keys /\ r.input \in Inputs
    BY DEF Ids, Keys, Inputs
  <1>2. Stored(r) \in Row
    BY <1>1 DEF Stored, Row, Statuses
  <1> QED
    BY <1>1, <1>2 DEF Stored, Stores, Present

(* A caller that is not idle has a request. *)
LEMMA Asked ==
  ASSUME Locals, NEW c \in Callers, caller[c].pc # "idle"
  PROVE  /\ caller[c].req \in Requests
         /\ caller[c].req.id \in Ids /\ caller[c].req.key \in Keys /\ caller[c].req.input \in Inputs
         /\ caller[c].req.task \in BOOLEAN
  BY TaskNames DEF Locals, Ids, Keys, Inputs

LEMMA AdmitEffect ==
  ASSUME TypeOK, Locals, NEW c \in Callers, AdmitSubmission(c)
  PROVE  LET r == caller[c].req
         IN /\ At(c, "admit") /\ r \in Requests /\ Stores(r)
            /\ UNCHANGED <<conv, opened, waiter, owed, calls, minted, faults>>
            /\ \/ /\ Stored(r).input # r.input
                  /\ Becomes(c, "idle", NoRequest, FALSE, FALSE, 0, "none")
                  /\ Unlock(c) /\ torn' = torn \cup Abandoned({c})
               \/ /\ Stored(r).input = r.input /\ caller[c].replay
                  /\ Becomes(c, "recover", r, caller[c].replay, caller[c].created,
                             caller[c].spawn, caller[c].named)
                  /\ UNCHANGED <<mu, torn>>
               \/ /\ Stored(r).input = r.input /\ ~caller[c].replay
                  /\ Becomes(c, "answered", r, FALSE, FALSE, caller[c].spawn, Stored(r).key)
                  /\ Unlock(c) /\ UNCHANGED torn
  <1> DEFINE r == caller[c].req
             n == caller[c].spawn
  <1>1. At(c, "admit") /\ CallerType /\ row \in [Ids -> Row]
    BY Zenon DEF AdmitSubmission, TypeOK, CallerType
  <1>2. r \in Requests /\ r.key \in Keys /\ n \in Nat
    BY <1>1, Asked DEF At, CallerType, CallerState
  <1>3. row' = [row EXCEPT ![r.id] = Stored(r)]
    BY Zenon DEF AdmitSubmission
  <1>4. Stores(r)
    BY <1>1, <1>2, <1>3, StoredEffect
  <1>5. Stored(r).key \in Keys \cup {"none"}
    BY <1>1, <1>2, StoredEffect DEF Row
  <1>6. CASE Stored(r).input # r.input
    <2>1. Leave(c) /\ Unlock(c) /\ torn' = torn \cup Abandoned({c})
      BY <1>6, Zenon DEF AdmitSubmission
    <2>2. UNCHANGED <<conv, opened, waiter, owed, calls, minted, faults>>
      BY Zenon DEF AdmitSubmission
    <2> QED
      BY <1>1, <1>2, <1>4, <1>6, <2>1, <2>2, LeaveEffect, Zenon
  <1>7. CASE Stored(r).input = r.input /\ caller[c].replay
    <2>1. Goto(c, "recover") /\ UNCHANGED <<mu, torn>>
      BY <1>7, Zenon DEF AdmitSubmission
    <2>2. UNCHANGED <<conv, opened, waiter, owed, calls, minted, faults>>
      BY Zenon DEF AdmitSubmission
    <2>3. "recover" \in Pcs
      BY DEF Pcs
    <2> QED
      BY <1>1, <1>2, <1>4, <1>7, <2>1, <2>2, <2>3, GotoEffect, Zenon
  <1>8. CASE Stored(r).input = r.input /\ ~caller[c].replay
    <2>1. Answer(c, Stored(r).key, n) /\ UNCHANGED torn
      BY <1>8, Zenon DEF AdmitSubmission, Receipt
    <2>2. UNCHANGED <<conv, opened, waiter, owed, calls, minted, faults>>
      BY Zenon DEF AdmitSubmission
    <2> QED
      BY <1>1, <1>2, <1>4, <1>5, <1>8, <2>1, <2>2, AnswerEffect, Zenon
  <1> QED
    BY <1>6, <1>7, <1>8, Zenon

LEMMA RecoverEffect ==
  ASSUME TypeOK, Locals, Receipts, RowKeys, NEW c \in Callers, RecoverSpawnRecordID(c)
  PROVE  LET r == caller[c].req
             k == row[r.id].key
         IN /\ At(c, "recover") /\ r \in Requests /\ k \in Keys \cup {"none"}
            /\ UNCHANGED <<conv, opened, row, waiter, owed, torn, calls, minted, faults>>
            /\ Unlock(c)
            /\ \E n \in Nat :
                 /\ n = (IF opened[k] # <<>> /\ Head(opened[k]) # 0 THEN Head(opened[k])
                         ELSE caller[c].spawn)
                 /\ Becomes(c, "answered", r, FALSE, FALSE, n, k)
  <1> DEFINE r == caller[c].req
             k == row[r.id].key
             n == IF opened[k] # <<>> /\ Head(opened[k]) # 0 THEN Head(opened[k]) ELSE caller[c].spawn
  <1>1. /\ At(c, "recover") /\ CallerType /\ row \in [Ids -> Row]
        /\ opened \in [Keys -> Seq(Nat)] /\ conv \subseteq Keys
    BY Zenon DEF RecoverSpawnRecordID, TypeOK, CallerType
  <1>2. r \in Requests /\ r.id \in Ids /\ caller[c].spawn \in Nat /\ Present(r.id)
    BY <1>1, Asked DEF At, CallerType, CallerState, Receipts, Received
  <1>3. k \in Keys \cup {"none"} /\ Receipt(r) = k
    BY <1>1, <1>2 DEF Row, Receipt, Stored, Present
  <1>4. Answer(c, k, n)
    BY <1>3, Zenon DEF RecoverSpawnRecordID
  <1>5. n \in Nat
    <2>1. k \in Keys
      BY <1>1, <1>2 DEF RowKeys
    <2> QED
      BY <1>1, <1>2, <2>1
  <1> QED
    BY <1>1, <1>2, <1>3, <1>4, <1>5, AnswerEffect, Zenon DEF RecoverSpawnRecordID

LEMMA CallFailsEffect ==
  ASSUME TypeOK, Locals, NEW c \in Callers, CallFails(c)
  PROVE  LET r == caller[c].req
         IN /\ caller[c].pc \in {"replay", "count", "ensure", "open", "admit", "recover"}
            /\ r \in Requests /\ faults' \in Nat
            /\ Becomes(c, "idle", NoRequest, FALSE, FALSE, 0, "none") /\ Unlock(c)
            /\ UNCHANGED <<opened, waiter, owed, calls, minted>>
            /\ \/ UNCHANGED <<conv, row>> /\ torn' = torn \cup Abandoned({c})
               \/ At(c, "ensure") /\ conv' = conv \cup {r.key} /\ UNCHANGED <<row, torn>>
               \/ At(c, "admit") /\ Stores(r) /\ UNCHANGED <<conv, torn>>
  <1> DEFINE r == caller[c].req
  <1>1. /\ caller[c].pc \in {"replay", "count", "ensure", "open", "admit", "recover"}
        /\ CallerType /\ row \in [Ids -> Row]
    BY Zenon DEF CallFails, TypeOK, CallerType
  <1>2. r \in Requests
    BY <1>1, Asked
  <1>3. faults' = faults + 1 /\ faults \in Nat
    BY Zenon DEF CallFails, TypeOK
  <1>4. Becomes(c, "idle", NoRequest, FALSE, FALSE, 0, "none")
    BY <1>1, LeaveEffect, Zenon DEF CallFails
  <1>5. \/ UNCHANGED <<conv, row>> /\ torn' = torn \cup Abandoned({c})
        \/ At(c, "ensure") /\ conv' = conv \cup {r.key} /\ UNCHANGED <<row, torn>>
        \/ At(c, "admit") /\ row' = [row EXCEPT ![r.id] = Stored(r)] /\ UNCHANGED <<conv, torn>>
    BY Zenon DEF CallFails
  <1>6. Unlock(c) /\ UNCHANGED <<opened, waiter, owed, calls, minted>>
    BY Zenon DEF CallFails
  <1>7. row' = [row EXCEPT ![r.id] = Stored(r)] => Stores(r)
    BY <1>1, <1>2, StoredEffect
  <1>8. faults' \in Nat
    BY <1>3
  <1> QED
    BY <1>1, <1>2, <1>4, <1>5, <1>6, <1>7, <1>8, Zenon

LEMMA CrashEffect ==
  ASSUME TypeOK, Crash
  PROVE  /\ caller' \in [Callers -> CallerState]
         /\ \A c \in Callers : /\ caller'[c].pc = "idle" /\ caller'[c].req = NoRequest
                              /\ ~caller'[c].replay /\ ~caller'[c].created
  BY DEF Crash, IdleCaller, CallerState

(* Types. *)
StoreType ==
  /\ conv \subseteq Keys /\ owed \subseteq Ids /\ torn \subseteq Keys
  /\ opened \in [Keys -> Seq(Nat)] /\ \A k \in Keys : Len(opened[k]) <= 1
  /\ row \in [Ids -> Row]
  /\ mu \in Callers \cup {"free"}
  /\ calls \in Nat /\ minted \in Nat /\ faults \in Nat

WaiterType ==
  waiter \in [Waiters -> [pc : {"idle", "get", "subscribe", "select"},
                          id : Awaited \cup {"none"}, closed : BOOLEAN]]

LEMMA TypeParts == TypeOK <=> StoreType /\ CallerType /\ WaiterType
  BY Zenon DEF TypeOK, StoreType, CallerType, WaiterType

LEMMA AbandonedType ==
  ASSUME Locals, NEW C \in SUBSET Callers
  PROVE  Abandoned(C) \subseteq Keys
  BY Asked DEF Abandoned, At

LEMMA UnlockType ==
  ASSUME mu \in Callers \cup {"free"}, NEW c \in Callers, Unlock(c)
  PROVE  mu' \in Callers \cup {"free"}
  BY DEF Unlock

LEMMA WaiterStep ==
  ASSUME WaiterType, NEW w \in Waiters, InWait(w)
  PROVE  WaiterType' /\ UNCHANGED waitRest
  <1>1. CASE GetSubmission(w)
    <2>1. CASE row[waiter[w].id].status = "live"
      <3>1. waiter' = [waiter EXCEPT ![w].pc = "subscribe"] /\ UNCHANGED waitRest
        BY <1>1, <2>1, Zenon DEF GetSubmission
      <3> QED
        BY <3>1 DEF WaiterType
    <2>2. CASE row[waiter[w].id].status # "live"
      <3>1. waiter' = [waiter EXCEPT ![w] = IdleWaiter] /\ UNCHANGED waitRest
        BY <1>1, <2>2, Zenon DEF GetSubmission
      <3> QED
        BY <3>1 DEF WaiterType, IdleWaiter
    <2> QED
      BY <2>1, <2>2
  <1>2. CASE TakeSettleSub(w)
    BY <1>2 DEF TakeSettleSub, WaiterType
  <1>3. CASE Select(w)
    <2> DEFINE v == [waiter EXCEPT ![w].pc = "get"]
    <2>1. waiter' = [v EXCEPT ![w].closed = FALSE] /\ UNCHANGED waitRest
      BY <1>3 DEF Select
    <2>2. v \in [Waiters -> [pc : {"idle", "get", "subscribe", "select"},
                            id : Awaited \cup {"none"}, closed : BOOLEAN]]
      BY DEF WaiterType
    <2> HIDE DEF v
    <2> QED
      BY <2>1, <2>2 DEF WaiterType
  <1> QED
    BY <1>1, <1>2, <1>3 DEF InWait

LEMMA TypeInit == Init => TypeOK
  BY DEF Init, TypeOK, IdleCaller, CallerState, IdleWaiter, NoRow, Row, Statuses

LEMMA TypeStep ==
  ASSUME Invariant, [Next]_vars
  PROVE  TypeOK'
  <1> USE TypeParts
  <1>a. /\  TypeOK /\ Locals /\ Opening /\ RowKeys /\ Receipts /\ StoreType /\ CallerType
        /\ WaiterType
    BY Zenon DEF Invariant
  <1> SUFFICES StoreType' /\ CallerType' /\ WaiterType'
    BY DEF TypeOK, StoreType, CallerType, WaiterType
  <1>1. ASSUME NEW c \in Callers, NEW r \in Requests, Call(c, r)
        PROVE  StoreType' /\ CallerType' /\ WaiterType'
    <2>1. CallerType'
      BY <1>1, <1>a, CallEffect DEF Becomes, CallerType
    <2>2. UNCHANGED <<conv, opened, row, mu, waiter, owed, torn, minted, faults>> /\ calls' = calls + 1
      BY <1>1, Zenon DEF Call
    <2> QED
      BY <1>a, <2>1, <2>2 DEF StoreType, WaiterType
  <1>2. ASSUME NEW c \in Callers, Lock(c)
        PROVE  StoreType' /\ CallerType' /\ WaiterType'
    <2>1. Goto(c, "replay") /\ UNCHANGED <<conv, opened, row, waiter, owed, torn, calls, minted, faults>> /\ mu' = c
      BY <1>2, Zenon DEF Lock
    <2>2. CallerType'
      BY <2>1, <1>a, GotoEffect DEF Becomes, CallerType, Pcs
    <2> QED
      BY <1>a, <2>1, <2>2 DEF StoreType, WaiterType
  <1>3. ASSUME NEW c \in Callers, CheckReplay(c)
        PROVE  StoreType' /\ CallerType' /\ WaiterType'
    <2>1. CallerType'
      BY <1>3, <1>a, CheckReplayEffect DEF Becomes, CallerType
    <2>2. UNCHANGED <<conv, opened, row, mu, waiter, owed, torn, calls, minted, faults>>
      BY <1>3, Zenon DEF CheckReplay
    <2> QED
      BY <1>a, <2>1, <2>2 DEF StoreType, WaiterType
  <1>4. ASSUME NEW c \in Callers, CountChildren(c)
        PROVE  StoreType' /\ CallerType' /\ WaiterType'
    <2>1. /\ (Leave(c) /\ Unlock(c)) \/ (Goto(c, "ensure") /\ UNCHANGED mu)
          /\ UNCHANGED <<conv, opened, row, waiter, owed, torn, calls, minted, faults>>
      BY <1>4, Zenon DEF CountChildren
    <2>2. CallerType'
      BY <2>1, <1>a, GotoEffect, LeaveEffect DEF Becomes, CallerType, Pcs
    <2>3. mu' \in Callers \cup {"free"}
      BY <2>1, <1>a, UnlockType DEF StoreType
    <2> QED
      BY <1>a, <2>1, <2>2, <2>3 DEF StoreType, WaiterType
  <1>5. ASSUME NEW c \in Callers, EnsureConversation(c)
        PROVE  StoreType' /\ CallerType' /\ WaiterType'
    <2>1. CallerType' /\ minted' \in Nat
      BY <1>5, <1>a, EnsureEffect DEF Becomes, CallerType, StoreType
    <2>2. /\ At(c, "ensure") /\ conv' = conv \cup {caller[c].req.key}
          /\ UNCHANGED <<opened, row, mu, waiter, owed, torn, calls, faults>>
      BY <1>5, Zenon DEF EnsureConversation
    <2>3. caller[c].req.key \in Keys
      BY <1>a, <2>2, Asked DEF At
    <2> QED
      BY <1>a, <2>1, <2>2, <2>3 DEF StoreType, WaiterType
  <1>6. ASSUME NEW c \in Callers, AppendCreated(c)
        PROVE  StoreType' /\ CallerType' /\ WaiterType'
    <2> DEFINE k == caller[c].req.key
    <2>1. /\ At(c, "open") /\ opened' = [opened EXCEPT ![k] = Append(@, caller[c].spawn)]
          /\ Goto(c, "admit")
          /\ UNCHANGED <<conv, row, mu, waiter, owed, torn, calls, minted, faults>>
      BY <1>6, Zenon DEF AppendCreated
    <2>2. CallerType'
      BY <2>1, <1>a, GotoEffect DEF Becomes, CallerType, Pcs
    <2>3. opened[k] = <<>> /\ caller[c].spawn \in Nat /\ k \in Keys
      BY <1>a, <2>1, Asked DEF Opening, At, CallerType, CallerState
    <2>4. opened' = [opened EXCEPT ![k] = <<caller[c].spawn>>]
      BY <2>1, <2>3, <1>a DEF StoreType
    <2>5. opened' \in [Keys -> Seq(Nat)] /\ \A x \in Keys : Len(opened'[x]) <= 1
      BY <2>3, <2>4, <1>a DEF StoreType
    <2> QED
      BY <1>a, <2>1, <2>2, <2>5 DEF StoreType, WaiterType
  <1>7. ASSUME NEW c \in Callers, AdmitSubmission(c)
        PROVE  StoreType' /\ CallerType' /\ WaiterType'
    <2> USE <1>7, <1>a, AdmitEffect
    <2>1. CallerType'
      BY DEF Becomes, CallerType
    <2>2. mu' \in Callers \cup {"free"}
      BY UnlockType DEF StoreType
    <2>3. torn' \subseteq Keys
      BY AbandonedType DEF StoreType
    <2>4. row' \in [Ids -> Row] /\ UNCHANGED <<conv, opened, waiter, owed, calls, minted, faults>>
      BY Zenon DEF Stores
    <2> QED
      BY <2>1, <2>2, <2>3, <2>4 DEF StoreType, WaiterType
  <1>8. ASSUME NEW c \in Callers, RecoverSpawnRecordID(c)
        PROVE  StoreType' /\ CallerType' /\ WaiterType'
    <2> USE <1>8, <1>a, RecoverEffect
    <2>1. CallerType'
      BY DEF Becomes, CallerType
    <2>2. mu' \in Callers \cup {"free"}
      BY UnlockType DEF StoreType
    <2>3. UNCHANGED <<conv, opened, row, waiter, owed, torn, calls, minted, faults>>
      BY Zenon
    <2> QED
      BY <2>1, <2>2, <2>3 DEF StoreType, WaiterType
  <1>9. ASSUME NEW c \in Callers, CallFails(c)
        PROVE  StoreType' /\ CallerType' /\ WaiterType'
    <2> USE <1>9, <1>a, CallFailsEffect
    <2>1. CallerType'
      BY DEF Becomes, CallerType
    <2>2. mu' \in Callers \cup {"free"}
      BY UnlockType DEF StoreType
    <2>3. torn' \subseteq Keys
      BY AbandonedType DEF StoreType
    <2>4. caller[c].req.key \in Keys
      BY Asked
    <2>5. conv' \subseteq Keys /\ row' \in [Ids -> Row]
      BY <2>4 DEF StoreType, Stores
    <2>6. UNCHANGED <<opened, waiter, owed, calls, minted>> /\ faults' \in Nat
      BY Zenon
    <2> QED
      BY <2>1, <2>2, <2>3, <2>5, <2>6 DEF StoreType, WaiterType
  <1>10. ASSUME NEW i \in Ids, Settle(i)
         PROVE  StoreType' /\ CallerType' /\ WaiterType'
    <2>1. /\ row' = [row EXCEPT ![i].status = "settled"] /\ owed' = owed \cup {i}
          /\ UNCHANGED <<conv, opened, mu, caller, waiter, torn, calls, minted, faults>>
      BY <1>10, Zenon DEF Settle
    <2>2. row' \in [Ids -> Row]
      BY <1>a, <2>1 DEF StoreType, Row, Statuses
    <2> QED
      BY <1>a, <2>1, <2>2 DEF StoreType, CallerType, WaiterType
  <1>11. ASSUME NEW i \in Ids, NotifySettled(i)
         PROVE  StoreType' /\ CallerType' /\ WaiterType'
    BY <1>11, <1>a DEF NotifySettled, store, StoreType, CallerType, WaiterType
  <1>12. ASSUME NEW w \in Waiters, InWait(w)
         PROVE  StoreType' /\ CallerType' /\ WaiterType'
    <2>1. WaiterType' /\ UNCHANGED waitRest
      BY <1>12, <1>a, WaiterStep
    <2> QED
      BY <1>a, <2>1 DEF waitRest, StoreType, CallerType
  <1>13. ASSUME NEW w \in Waiters, NEW i \in Awaited, Wait(w, i)
         PROVE  StoreType' /\ CallerType' /\ WaiterType'
    BY <1>13, <1>a DEF Wait, IdleWaiter, waitRest, StoreType, CallerType, WaiterType
  <1>14. ASSUME Crash
         PROVE  StoreType' /\ CallerType' /\ WaiterType'
    <2>1. CallerType'
      BY <1>a, <1>14, CrashEffect DEF CallerType
    <2>2. /\ mu' = "free" /\ waiter' = [w \in Waiters |-> IdleWaiter] /\ owed' = {}
          /\ torn' = torn \cup Abandoned(Callers) /\ faults' = faults + 1
          /\ UNCHANGED <<conv, opened, row, calls, minted>>
      BY <1>14 DEF Crash, store
    <2>3. torn' \subseteq Keys
      BY <1>a, <2>2, AbandonedType DEF StoreType
    <2> QED
      BY <1>a, <2>1, <2>2, <2>3 DEF StoreType, WaiterType, IdleWaiter
  <1>15. CASE UNCHANGED vars
    BY <1>15, <1>a DEF vars, StoreType, CallerType, WaiterType
  <1> QED
    BY <1>1, <1>2, <1>3, <1>4, <1>5, <1>6, <1>7, <1>8, <1>9, <1>10, <1>11, <1>12, <1>13,
       <1>14, <1>15
       DEF Next, CallerStep

----------------------------------------------------------------------------
(* What each kind of step changes, in terms of the locals of one caller. *)

Stays(c, p) ==
  Becomes(c, p, caller[c].req, caller[c].replay, caller[c].created, caller[c].spawn, caller[c].named)

Idles(c) == Becomes(c, "idle", NoRequest, FALSE, FALSE, 0, "none")

SameStore == UNCHANGED <<conv, opened, row, torn>>

Calling(c) ==
  /\ caller[c].pc \in {"idle", "answered"}
  /\ SameStore /\ UNCHANGED mu
  /\ \E r \in Requests, p \in {"lock", "ensure"} :
       p = (IF r.task THEN "lock" ELSE "ensure") /\ Becomes(c, p, r, FALSE, FALSE, 0, "none")

Locking(c) ==
  /\ caller[c].pc = "lock" /\ mu = "free" /\ mu' = c
  /\ SameStore /\ Stays(c, "replay")

Checking(c) ==
  /\ caller[c].pc = "replay"
  /\ SameStore /\ UNCHANGED mu
  /\ \E p \in {"ensure", "count"}, b \in BOOLEAN :
       /\ b = Present(caller[c].req.id)
       /\ p = (IF b THEN "ensure" ELSE "count")
       /\ Becomes(c, p, caller[c].req, b, caller[c].created, caller[c].spawn, caller[c].named)

Counting(c) ==
  /\ caller[c].pc = "count" /\ SameStore
  /\ \/ Idles(c) /\ Unlock(c)
     \/ ~(Cardinality(Live) >= MaxChildren) /\ Stays(c, "ensure") /\ UNCHANGED mu

Ensuring(c) ==
  LET k == caller[c].req.key
  IN /\ caller[c].pc = "ensure" /\ caller[c].req \in Requests /\ k \in Keys
     /\ conv' = conv \cup {k} /\ UNCHANGED <<opened, row, torn, mu>>
     /\ \E p \in {"open", "admit"}, b \in BOOLEAN, n \in Nat :
          /\ p = (IF k \in conv THEN "admit" ELSE "open")
          /\ b = (caller[c].req.task /\ k \notin conv)
          /\ ~caller[c].req.task => n = 0
          /\ Becomes(c, p, caller[c].req, caller[c].replay, b, n, caller[c].named)

Creating(c) ==
  LET k == caller[c].req.key
  IN /\ caller[c].pc = "open" /\ caller[c].req \in Requests /\ k \in Keys
     /\ opened' \in [Keys -> Seq(Nat)]
     /\ opened'[k] # <<>> /\ Head(opened'[k]) = caller[c].spawn
     /\ \A x \in Keys \ {k} : opened'[x] = opened[x]
     /\ UNCHANGED <<conv, row, torn, mu>>
     /\ Stays(c, "admit")

Admits(c) ==
  LET r == caller[c].req
  IN /\ caller[c].pc = "admit" /\ r \in Requests /\ Stores(r)
     /\ UNCHANGED <<conv, opened>>
     /\ \/ /\ Stored(r).input # r.input /\ Idles(c) /\ Unlock(c)
           /\ torn' = torn \cup Abandoned({c})
        \/ /\ Stored(r).input = r.input /\ caller[c].replay /\ Stays(c, "recover")
           /\ UNCHANGED <<mu, torn>>
        \/ /\ Stored(r).input = r.input /\ ~caller[c].replay
           /\ Becomes(c, "answered", r, FALSE, FALSE, caller[c].spawn, Stored(r).key)
           /\ Unlock(c) /\ UNCHANGED torn

Recovering(c) ==
  LET r == caller[c].req
      k == row[r.id].key
  IN /\ caller[c].pc = "recover" /\ r \in Requests /\ SameStore /\ Unlock(c)
     /\ \E n \in Nat :
          /\ n = (IF opened[k] # <<>> /\ Head(opened[k]) # 0 THEN Head(opened[k])
                  ELSE caller[c].spawn)
          /\ Becomes(c, "answered", r, FALSE, FALSE, n, k)

Failing(c) ==
  LET r == caller[c].req
  IN /\ caller[c].pc \in {"replay", "count", "ensure", "open", "admit", "recover"}
     /\ r \in Requests /\ Idles(c) /\ Unlock(c) /\ UNCHANGED opened
     /\ \/ UNCHANGED <<conv, row>> /\ torn' = torn \cup Abandoned({c})
        \/ /\ caller[c].pc = "ensure" /\ conv' = conv \cup {r.key}
           /\ UNCHANGED <<row, torn>>
        \/ caller[c].pc = "admit" /\ Stores(r) /\ UNCHANGED <<conv, torn>>

Settling(i) ==
  /\ row' \in [Ids -> Row] /\ UNCHANGED <<conv, opened, torn, mu, caller>>
  /\ row[i].status = "live" /\ row'[i].status = "settled"
  /\ row'[i].key = row[i].key /\ row'[i].input = row[i].input
  /\ \A j \in Ids \ {i} : row'[j] = row[j]

Crashing ==
  /\ UNCHANGED <<conv, opened, row>> /\ torn' = torn \cup Abandoned(Callers)
  /\ \A c \in Callers : /\ caller'[c].pc = "idle" /\ caller'[c].req = NoRequest
                       /\ ~caller'[c].replay /\ ~caller'[c].created

Resting == SameStore /\ UNCHANGED <<mu, caller>>

(* Every step is of one of these kinds. *)
LEMMA StepCases ==
  ASSUME Invariant, [Next]_vars
  PROVE  \/ \E c \in Callers :
               \/ Calling(c) \/ Locking(c) \/ Checking(c) \/ Counting(c) \/ Ensuring(c)
               \/ Creating(c) \/ Admits(c) \/ Recovering(c) \/ Failing(c)
         \/ \E i \in Ids : Settling(i)
         \/ Crashing
         \/ Resting
  <1>a. /\ TypeOK /\ Locals /\ Opening /\ RowKeys /\ Receipts /\ CallerType
        /\ row \in [Ids -> Row] /\ opened \in [Keys -> Seq(Nat)] /\ minted \in Nat
    BY Zenon DEF Invariant, TypeOK, CallerType
  <1>1. ASSUME NEW c \in Callers, NEW r \in Requests, Call(c, r) PROVE Calling(c)
    <2>1. caller[c].pc \in {"idle", "answered"} /\ SameStore /\ UNCHANGED mu
      BY <1>1 DEF Call, At, SameStore
    <2> QED
      BY <1>1, <1>a, <2>1, CallEffect, Zenon DEF Calling
  <1>2. ASSUME NEW c \in Callers, Lock(c) PROVE Locking(c)
    <2>1. /\ caller[c].pc = "lock" /\ mu = "free" /\ mu' = c /\ SameStore /\ Goto(c, "replay")
      BY <1>2, Zenon DEF Lock, At, SameStore
    <2>2. Stays(c, "replay")
      BY <1>a, <2>1, GotoEffect DEF Stays, Pcs
    <2> QED
      BY <2>1, <2>2, Zenon DEF Locking
  <1>3. ASSUME NEW c \in Callers, CheckReplay(c) PROVE Checking(c)
    <2>1. caller[c].pc = "replay" /\ SameStore /\ UNCHANGED mu
      BY <1>3, Zenon DEF CheckReplay, At, SameStore
    <2> QED
      BY <1>3, <1>a, <2>1, CheckReplayEffect, Zenon DEF Checking
  <1>4. ASSUME NEW c \in Callers, CountChildren(c) PROVE Counting(c)
    <2>1. caller[c].pc = "count" /\ SameStore
      BY <1>4, Zenon DEF CountChildren, At, SameStore
    <2>2. CASE Cardinality(Live) >= MaxChildren
      BY <1>4, <1>a, <2>1, <2>2, LeaveEffect, Zenon DEF CountChildren, Counting, Idles
    <2>3. CASE ~(Cardinality(Live) >= MaxChildren)
      <3>1. Goto(c, "ensure") /\ UNCHANGED mu /\ "ensure" \in Pcs
        BY <1>4, <2>3, Zenon DEF CountChildren, Pcs
      <3> QED
        BY <1>a, <2>1, <2>3, <3>1, GotoEffect, Zenon DEF Counting, Stays
    <2> QED
      BY <2>2, <2>3
  <1>5. ASSUME NEW c \in Callers, EnsureConversation(c) PROVE Ensuring(c)
    <2>1. /\ caller[c].pc = "ensure" /\ conv' = conv \cup {caller[c].req.key}
          /\ UNCHANGED <<opened, row, mu, torn>>
      BY <1>5, Zenon DEF EnsureConversation, At
    <2>2. caller[c].req \in Requests /\ caller[c].req.key \in Keys
      BY <1>a, <2>1, Asked
    <2> QED
      BY <1>5, <1>a, <2>1, <2>2, EnsureEffect, Zenon DEF Ensuring
  <1>6. ASSUME NEW c \in Callers, AppendCreated(c) PROVE Creating(c)
    <2> DEFINE k == caller[c].req.key
    <2>1. /\ caller[c].pc = "open" /\ opened' = [opened EXCEPT ![k] = Append(@, caller[c].spawn)]
          /\ Goto(c, "admit") /\ UNCHANGED <<conv, row, mu, torn>>
      BY <1>6, Zenon DEF AppendCreated, At
    <2>2. caller[c].req \in Requests /\ k \in Keys /\ opened[k] = <<>> /\ caller[c].spawn \in Nat
      BY <1>a, <2>1, Asked DEF Opening, At, CallerType, CallerState
    <2>3. opened' = [opened EXCEPT ![k] = <<caller[c].spawn>>]
      BY <1>a, <2>1, <2>2
    <2>4. /\ opened' \in [Keys -> Seq(Nat)]
          /\ opened'[k] # <<>> /\ Head(opened'[k]) = caller[c].spawn
          /\ \A x \in Keys \ {k} : opened'[x] = opened[x]
      BY <1>a, <2>2, <2>3
    <2>5. Stays(c, "admit")
      BY <1>a, <2>1, GotoEffect DEF Stays, Pcs
    <2> QED
      BY <2>1, <2>2, <2>4, <2>5, Zenon DEF Creating
  <1>7. ASSUME NEW c \in Callers, AdmitSubmission(c) PROVE Admits(c)
    BY <1>7, <1>a, AdmitEffect, Zenon DEF Admits, Stays, Idles, At
  <1>8. ASSUME NEW c \in Callers, RecoverSpawnRecordID(c) PROVE Recovering(c)
    BY <1>8, <1>a, RecoverEffect, Zenon DEF Recovering, SameStore, At
  <1>9. ASSUME NEW c \in Callers, CallFails(c) PROVE Failing(c)
    BY <1>9, <1>a, CallFailsEffect, Zenon DEF Failing, Idles, At
  <1>10. ASSUME NEW i \in Ids, Settle(i) PROVE Settling(i)
    BY <1>10, <1>a DEF Settle, Settling, Row, Statuses
  <1>11. ASSUME NEW i \in Ids, NotifySettled(i) PROVE Resting
    BY <1>11, Zenon DEF NotifySettled, store, Resting, SameStore
  <1>12. ASSUME NEW w \in Waiters, InWait(w) PROVE Resting
    BY <1>12 DEF InWait, GetSubmission, TakeSettleSub, Select, waitRest, Resting, SameStore
  <1>13. ASSUME NEW w \in Waiters, NEW i \in Awaited, Wait(w, i) PROVE Resting
    BY <1>13, Zenon DEF Wait, waitRest, Resting, SameStore
  <1>14. ASSUME Crash PROVE Crashing
    BY <1>a, <1>14, CrashEffect, Zenon DEF Crash, Crashing, store
  <1>15. CASE UNCHANGED vars
    BY <1>15, Zenon DEF vars, Resting, SameStore
  <1> QED
    BY <1>1, <1>2, <1>3, <1>4, <1>5, <1>6, <1>7, <1>8, <1>9, <1>10, <1>11, <1>12, <1>13,
       <1>14, <1>15,
       Zenon DEF Next, CallerStep

----------------------------------------------------------------------------

(* The conjuncts of the invariant, one by one. *)

LEMMA Rows ==
  ASSUME row \in [Ids -> Row], NEW r \in Requests, Stores(r)
  PROVE  /\ r.id \in Ids
         /\ \A i \in Ids : row'[i].status # "absent" <=> row[i].status # "absent" \/ i = r.id
         /\ \A i \in Ids : row[i].status # "absent" => row'[i] = row[i]
         /\ row[r.id].status = "absent" =>
              row'[r.id].status = "live" /\ row'[r.id].key = r.key /\ row'[r.id].input = r.input
         /\ row'[r.id] = Stored(r)
  <1>1. r.id \in Ids /\ Stored(r).status # "absent" /\ (Present(r.id) => Stored(r) = row[r.id])
    BY StoredEffect
  <1>2. ~Present(r.id) => Stored(r).status = "live" /\ Stored(r).key = r.key /\ Stored(r).input = r.input
    BY StoredEffect
  <1> QED
    BY <1>1, <1>2 DEF Stores, Present

(* While a task call holds the mutex, whoever else is in a dispatch is not a
   task call, and works on another submission. *)
LEMMA Alone ==
  ASSUME Locals, Exclusive, NEW c \in Callers, NEW d \in Callers, c # d,
         caller[c].pc \in Locked, TaskAt(d, Locked)
  PROVE  /\ ~caller[c].req.task /\ caller[c].req \in Requests /\ caller[d].req \in TaskCalls
         /\ caller[c].req.id # caller[d].req.id /\ caller[d].req.id \in Ids
  <1>1. ~caller[c].req.task
    BY DEF Exclusive, TaskAt
  <1>2. caller[c].req \in Requests /\ caller[d].req \in Requests /\ caller[d].req.task
    BY DEF Locals, Locked, TaskAt
  <1>3. caller[d].req.id \in Children /\ caller[d].req.id \in Ids /\ caller[d].req \in TaskCalls
    BY <1>2 DEF Children, TaskCalls, Ids
  <1> QED
    BY <1>1, <1>2, <1>3, TaskNames

LEMMA Called ==
  /\ Children \subseteq Ids /\ TaskCalls \subseteq Requests
  /\ \A q \in TaskCalls : q.task /\ q.id \in Children /\ q.id \in Ids /\ q.key \in Keys
  /\ \A q \in Requests : q.task => q \in TaskCalls
  BY DEF Children, Ids, TaskCalls, Keys

LEMMA StoredKeys ==
  ASSUME RowKeys, row \in [Ids -> Row], NEW r \in Requests, r.key \in conv, Stores(r),
         conv' = conv
  PROVE  RowKeys'
  <1>1. \A i \in Ids : row[i].status # "absent" => row'[i] = row[i]
    BY Rows
  <1>2. \A i \in Ids : row'[i].status # "absent" /\ row[i].status = "absent" =>
          i = r.id /\ row'[i].key = r.key
    BY Rows
  <1>3. \A i \in Ids : Present(i)' => row'[i].key \in conv'
    BY <1>1, <1>2 DEF RowKeys, Present
  <1>4. ASSUME NEW i \in Children, Present(i)'
        PROVE  \E q \in TaskCalls : q.id = i /\ q.key = row'[i].key
    <2>1. CASE Present(i)
      BY <1>1, <2>1, Called DEF RowKeys, Present
    <2>2. CASE ~Present(i)
      <3>1. i = r.id /\ row'[i].key = r.key
        BY <1>2, <1>4, <2>2, Called DEF Present
      <3>2. r \in TaskCalls
        BY <3>1, Called, TaskNames
      <3> QED
        BY <3>1, <3>2
    <2> QED
      BY <2>1, <2>2
  <1> QED
    BY <1>3, <1>4 DEF RowKeys

(* Creating and storing, with the locals spelt out. *)
LEMMA Opens ==
  ASSUME NEW c \in Callers, Creating(c)
  PROVE  LET k == caller[c].req.key
         IN /\ At(c, "open") /\ k \in Keys /\ caller[c].req \in Requests
            /\ caller'[c].pc = "admit" /\ caller'[c].req = caller[c].req
            /\ caller'[c].created = caller[c].created /\ caller'[c].spawn = caller[c].spawn
            /\ \A d \in Callers \ {c} : caller'[d] = caller[d]
            /\ opened'[k] # <<>> /\ Head(opened'[k]) = caller[c].spawn
            /\ \A x \in Keys \ {k} : opened'[x] = opened[x]
            /\ row' = row /\ torn' = torn
  BY Zenon DEF Creating, Stays, Becomes, Has, At

(* Checking, with the locals spelt out, and recovering. *)
LEMMA Checks ==
  ASSUME NEW c \in Callers, Checking(c)
  PROVE  /\ caller[c].pc = "replay" /\ caller'[c].pc \in {"ensure", "count"}
         /\ caller'[c].req = caller[c].req
         /\ IF caller'[c].replay
            THEN Present(caller[c].req.id) /\ caller'[c].pc = "ensure"
            ELSE ~Present(caller[c].req.id)
         /\ caller'[c].created = caller[c].created
         /\ \A d \in Callers \ {c} : caller'[d] = caller[d]
         /\ conv' = conv /\ opened' = opened /\ row' = row /\ torn' = torn /\ mu' = mu
  BY Zenon DEF Checking, Becomes, Has, SameStore

LEMMA Recovers ==
  ASSUME NEW c \in Callers, Recovering(c)
  PROVE  LET k == row[caller[c].req.id].key
         IN /\ caller[c].pc = "recover" /\ caller'[c].pc = "answered"
            /\ caller'[c].req = caller[c].req /\ caller'[c].named = k
            /\ opened[k] # <<>> /\ Head(opened[k]) # 0 => caller'[c].spawn = Head(opened[k])
            /\ \A d \in Callers \ {c} : caller'[d] = caller[d]
            /\ conv' = conv /\ opened' = opened /\ row' = row /\ torn' = torn
  BY Zenon DEF Recovering, Becomes, Has, SameStore

(* A caller that leaves its admission has stored the row, or leaves its conversation torn. *)
LeavesAt(c) ==
  /\ \A d \in Callers \ {c} : caller'[d] = caller[d]
  /\ opened' = opened
  /\ \/ caller[c].pc # "admit" /\ row' = row /\ torn \subseteq torn'
     \/ caller[c].req \in Requests /\ Stores(caller[c].req) /\ torn \subseteq torn'
     \/ row' = row /\ torn' = torn \cup Abandoned({c})

LEMMA LeavesAdmit ==
  ASSUME Refs, row \in [Ids -> Row], NEW c \in Callers, LeavesAt(c)
  PROVE  Refs'
  <1> SUFFICES ASSUME NEW q \in TaskCalls, opened'[q.key] # <<>>, Head(opened'[q.key]) # 0,
                      q.key \notin torn'
               PROVE  \/ row'[q.id].status # "absent"
                      \/ \E d \in Callers : /\ caller'[d].req.task /\ caller'[d].pc = "admit"
                                            /\ caller'[d].created /\ caller'[d].req.key = q.key
    BY DEF Refs, TaskAt, Present
  <1>1. torn \subseteq torn' /\ opened' = opened
    BY DEF LeavesAt
  <1>2. row[q.id].status # "absent" => row'[q.id].status # "absent"
    BY Rows, Called DEF LeavesAt
  <1>3. CASE row[q.id].status # "absent"
    BY <1>2, <1>3
  <1>4. CASE row[q.id].status = "absent"
    <2>1. PICK d \in Callers : TaskAt(d, {"admit"}) /\ caller[d].created /\ caller[d].req.key = q.key
      BY <1>1, <1>4 DEF Refs, Present
    <2>2. CASE d # c
      BY <2>1, <2>2 DEF LeavesAt, TaskAt
    <2>3. CASE d = c
      <3>1. CASE row' = row /\ torn' = torn \cup Abandoned({c})
        BY <2>1, <2>3, <3>1 DEF Abandoned, At, TaskAt
      <3>2. CASE caller[c].req \in Requests /\ Stores(caller[c].req)
        <4>1. caller[c].req.id = q.id
          BY <2>1, <2>3, <3>2, Called, TaskNames DEF TaskAt
        <4> QED
          BY <3>2, <4>1, Rows
      <3> QED
        BY <2>1, <2>3, <3>1, <3>2 DEF LeavesAt, TaskAt
    <2> QED
      BY <2>2, <2>3
  <1> QED
    BY <1>3, <1>4

LEMMA ReceiptStays ==
  ASSUME Locals, NEW d \in Callers, Received(d), caller'[d] = caller[d], opened' = opened,
         torn \subseteq torn', \A i \in Ids : row[i].status # "absent" => row'[i] = row[i]
  PROVE  Received(d)'
  <1>1. caller[d].pc \in {"recover", "answered"} => caller[d].req.id \in Ids
    BY Asked
  <1> QED
    BY <1>1 DEF Received, Names, Present, At

(* Counting the live children. *)
LEMMA LiveFinite == IsFiniteSet(Live) /\ Cardinality(Live) \in Nat
  BY TaskNames, FS_Subset, FS_CardinalityType DEF Live

LEMMA LiveSame == row' = row => Live' = Live
  BY DEF Live

LEMMA FewerLive ==
  ASSUME Live' \subseteq Live
  PROVE  Cardinality(Live') <= Cardinality(Live) /\ Cardinality(Live') \in Nat
  BY LiveFinite, FS_Subset, FS_CardinalityType

(* An admission adds a live child only when it is that of a task call that found room. *)
LEMMA StoredLive ==
  ASSUME Locals, Kept, row \in [Ids -> Row], NEW c \in Callers, caller[c].pc = "admit",
         caller[c].req \in Requests, Stores(caller[c].req)
  PROVE  /\ Cardinality(Live') \in Nat
         /\ \/ Cardinality(Live') <= Cardinality(Live)
            \/ /\ TaskAt(c, {"admit"}) /\ ~caller[c].replay
               /\ Cardinality(Live') <= Cardinality(Live) + 1
  <1> DEFINE r == caller[c].req
  <1>1. \A i \in Ids : i # r.id \/ row[i].status # "absent" => row'[i] = row[i]
    BY Rows DEF Stores
  <1>2. CASE TaskAt(c, {"admit"}) /\ ~caller[c].replay
    <2>1. Live' \subseteq Live \cup {r.id}
      BY <1>1, Called DEF Live
    <2>2. /\ IsFiniteSet(Live \cup {r.id})
          /\ Cardinality(Live \cup {r.id}) \in Nat
          /\ Cardinality(Live \cup {r.id}) <= Cardinality(Live) + 1
      <3>1. /\ IsFiniteSet(Live \cup {r.id})
            /\ Cardinality(Live \cup {r.id}) = IF r.id \in Live THEN Cardinality(Live)
                                               ELSE Cardinality(Live) + 1
        BY LiveFinite, FS_AddElement, Zenon
      <3> QED
        BY <3>1, LiveFinite
    <2>3. Cardinality(Live') <= Cardinality(Live \cup {r.id}) /\ Cardinality(Live') \in Nat
      BY <2>1, <2>2, FS_Subset, FS_CardinalityType
    <2> QED
      BY <1>2, <2>2, <2>3, LiveFinite
  <1>3. CASE ~(TaskAt(c, {"admit"}) /\ ~caller[c].replay)
    <2>1. r.task => row[r.id].status # "absent"
      BY <1>3 DEF Kept, TaskAt, Decided, Present
    <2>2. ~r.task => r.id \notin Children
      BY TaskNames
    <2>3. Live' \subseteq Live
      BY <1>1, <2>1, <2>2, Called DEF Live
    <2> QED
      BY <2>3, FewerLive
  <1> QED
    BY <1>2, <1>3

(* The live children stay within what they were, or the task call that found room admits one. *)
AddsChild(c) ==
  /\ TaskAt(c, {"admit"}) /\ ~caller[c].replay
  /\ caller'[c].pc \in {"idle", "recover", "answered"}
  /\ \A d \in Callers \ {c} : caller'[d] = caller[d]
  /\ Cardinality(Live') <= Cardinality(Live) + 1

LEMMA LiveStep ==
  ASSUME Invariant, [Next]_vars
  PROVE  /\ Cardinality(Live') \in Nat
         /\ \/ Cardinality(Live') <= Cardinality(Live)
            \/ \E c \in Callers : AddsChild(c)
  <1>a. Locals /\ Kept /\ row \in [Ids -> Row]
    BY Zenon DEF Invariant, TypeOK
  <1>b. CASE row' = row
    <2>1. Live' = Live
      BY <1>b, LiveSame
    <2> QED
      BY <2>1, LiveFinite
  <1>1. ASSUME NEW c \in Callers, caller[c].pc = "admit", caller[c].req \in Requests,
               Stores(caller[c].req), caller'[c].pc \in {"idle", "recover", "answered"},
               \A d \in Callers \ {c} : caller'[d] = caller[d]
        PROVE  /\ Cardinality(Live') \in Nat
               /\ Cardinality(Live') <= Cardinality(Live) \/ AddsChild(c)
    BY <1>a, <1>1, StoredLive, Zenon DEF AddsChild
  <1>2. ASSUME NEW c \in Callers, Admits(c)
        PROVE  /\ Cardinality(Live') \in Nat
               /\ Cardinality(Live') <= Cardinality(Live) \/ AddsChild(c)
    <2>1. /\ caller'[c].pc \in {"idle", "recover", "answered"}
          /\ \A d \in Callers \ {c} : caller'[d] = caller[d]
      BY <1>2 DEF Admits, Idles, Stays, Becomes, Has
    <2> QED
      BY <1>1, <1>2, <2>1, Zenon DEF Admits
  <1>3. ASSUME NEW c \in Callers, Failing(c)
        PROVE  \/ row' = row
               \/ /\ Cardinality(Live') \in Nat
                  /\ Cardinality(Live') <= Cardinality(Live) \/ AddsChild(c)
    <2>1. /\ caller'[c].pc \in {"idle", "recover", "answered"}
          /\ \A d \in Callers \ {c} : caller'[d] = caller[d]
      BY <1>3 DEF Failing, Idles, Becomes, Has
    <2> QED
      BY <1>1, <1>3, <2>1, Zenon DEF Failing
  <1>4. ASSUME NEW i \in Ids, Settling(i)
        PROVE  Cardinality(Live') \in Nat /\ Cardinality(Live') <= Cardinality(Live)
    <2>1. Live' \subseteq Live
      BY <1>4, Called DEF Live, Settling
    <2> QED
      BY <2>1, FewerLive
  <1>5. ASSUME NEW c \in Callers,
               \/ Calling(c) \/ Locking(c) \/ Checking(c) \/ Counting(c) \/ Ensuring(c)
               \/ Creating(c) \/ Recovering(c)
        PROVE  row' = row
    BY <1>5, Zenon
       DEF Calling, Locking, Checking, Counting, Ensuring, Creating, Recovering, SameStore
  <1>6. CASE Crashing \/ Resting
    BY <1>b, <1>6, Zenon DEF Crashing, Resting, SameStore
  <1> QED
    BY <1>b, <1>2, <1>3, <1>4, <1>5, <1>6, StepCases, Zenon

(* A step leaves each caller with the locals its place allows. *)
LEMMA LocalsStep ==
  ASSUME Invariant, [Next]_vars
  PROVE  Locals'
  <1>a. Locals /\ CallerType
    BY Zenon DEF Invariant, CallerType, TypeOK
  <1>1. ASSUME NEW c \in Callers, Calling(c) PROVE Locals'
    BY <1>a, <1>1 DEF Calling, Becomes, Has, SameStore, Unlock, Locals
  <1>2. ASSUME NEW c \in Callers, Locking(c) PROVE Locals'
    BY <1>a, <1>2 DEF Locking, Stays, Becomes, Has, SameStore, Unlock, Locals
  <1>3. ASSUME NEW c \in Callers, Checking(c) PROVE Locals'
    BY <1>a, <1>3 DEF Checking, Becomes, Has, SameStore, Unlock, Locals
  <1>4. ASSUME NEW c \in Callers, Counting(c) PROVE Locals'
    BY <1>a, <1>4 DEF Counting, Idles, Stays, Becomes, Has, SameStore, Unlock, Locals
  <1>5. ASSUME NEW c \in Callers, Ensuring(c) PROVE Locals'
    BY <1>a, <1>5 DEF Ensuring, Becomes, Has, SameStore, Unlock, Locals
  <1>6. ASSUME NEW c \in Callers, Creating(c) PROVE Locals'
    BY <1>a, <1>6 DEF Creating, Stays, Becomes, Has, SameStore, Unlock, Locals
  <1>7. ASSUME NEW c \in Callers, Admits(c) PROVE Locals'
    BY <1>a, <1>7 DEF Admits, Idles, Stays, Becomes, Has, SameStore, Unlock, Locals
  <1>8. ASSUME NEW c \in Callers, Recovering(c) PROVE Locals'
    BY <1>a, <1>8 DEF Recovering, Becomes, Has, SameStore, Unlock, Locals
  <1>9. ASSUME NEW c \in Callers, Failing(c) PROVE Locals'
    BY <1>a, <1>9 DEF Failing, Idles, Becomes, Has, SameStore, Unlock, Locals
  <1>10. ASSUME NEW i \in Ids, Settling(i) PROVE Locals'
    BY <1>a, <1>10 DEF Settling, Becomes, Has, SameStore, Unlock, Locals
  <1>11. CASE Crashing
    BY <1>a, <1>11 DEF Crashing, Becomes, Has, SameStore, Unlock, Locals
  <1>12. CASE Resting
    BY <1>a, <1>12 DEF Resting, Becomes, Has, SameStore, Unlock, Locals
  <1> QED
    BY <1>1, <1>2, <1>3, <1>4, <1>5, <1>6, <1>7, <1>8, <1>9, <1>10, <1>11, <1>12, StepCases

(* The mutex is taken when it is free, and kept until its holder is done. *)
LEMMA ExclusiveStep ==
  ASSUME Invariant, [Next]_vars
  PROVE  Exclusive'
  <1>a. Locals /\ CallerType /\ Exclusive
    BY Zenon DEF Invariant, CallerType, TypeOK
  <1>1. ASSUME NEW c \in Callers, Calling(c) PROVE Exclusive'
    BY <1>a, <1>1
       DEF Calling, Becomes, Has, SameStore, Unlock, Locals, Exclusive, TaskAt, Locked
  <1>2. ASSUME NEW c \in Callers, Locking(c) PROVE Exclusive'
    BY <1>a, <1>2, FreeMutex
       DEF Locking, Stays, Becomes, Has, SameStore, Unlock, Locals, Exclusive, TaskAt, Locked
  <1>3. ASSUME NEW c \in Callers, Checking(c) PROVE Exclusive'
    BY <1>a, <1>3
       DEF Checking, Becomes, Has, SameStore, Unlock, Locals, Exclusive, TaskAt, Locked
  <1>4. ASSUME NEW c \in Callers, Counting(c) PROVE Exclusive'
    BY <1>a, <1>4
       DEF Counting, Idles, Stays, Becomes, Has, SameStore, Unlock, Locals, Exclusive,
           TaskAt, Locked
  <1>5. ASSUME NEW c \in Callers, Ensuring(c) PROVE Exclusive'
    BY <1>a, <1>5
       DEF Ensuring, Becomes, Has, SameStore, Unlock, Locals, Exclusive, TaskAt, Locked
  <1>6. ASSUME NEW c \in Callers, Creating(c) PROVE Exclusive'
    BY <1>a, <1>6
       DEF Creating, Stays, Becomes, Has, SameStore, Unlock, Locals, Exclusive, TaskAt,
           Locked
  <1>7. ASSUME NEW c \in Callers, Admits(c) PROVE Exclusive'
    BY <1>a, <1>7
       DEF Admits, Idles, Stays, Becomes, Has, SameStore, Unlock, Locals, Exclusive, TaskAt,
           Locked
  <1>8. ASSUME NEW c \in Callers, Recovering(c) PROVE Exclusive'
    BY <1>a, <1>8
       DEF Recovering, Becomes, Has, SameStore, Unlock, Locals, Exclusive, TaskAt, Locked
  <1>9. ASSUME NEW c \in Callers, Failing(c) PROVE Exclusive'
    BY <1>a, <1>9
       DEF Failing, Idles, Becomes, Has, SameStore, Unlock, Locals, Exclusive, TaskAt, Locked
  <1>10. ASSUME NEW i \in Ids, Settling(i) PROVE Exclusive'
    BY <1>a, <1>10
       DEF Settling, Becomes, Has, SameStore, Unlock, Locals, Exclusive, TaskAt, Locked
  <1>11. CASE Crashing
    BY <1>a, <1>11
       DEF Crashing, Becomes, Has, SameStore, Unlock, Locals, Exclusive, TaskAt, Locked
  <1>12. CASE Resting
    BY <1>a, <1>12
       DEF Resting, Becomes, Has, SameStore, Unlock, Locals, Exclusive, TaskAt, Locked
  <1> QED
    BY <1>1, <1>2, <1>3, <1>4, <1>5, <1>6, <1>7, <1>8, <1>9, <1>10, <1>11, <1>12, StepCases

(* Nobody but the holder of the mutex admits the child it found missing. *)
LEMMA FreshStep ==
  ASSUME Invariant, [Next]_vars
  PROVE  Fresh'
  <1>a. Locals /\ CallerType /\ Exclusive /\ Fresh /\ row \in [Ids -> Row]
    BY Zenon DEF Invariant, CallerType, TypeOK
  <1>1. ASSUME NEW c \in Callers, Calling(c) PROVE Fresh'
    BY <1>a, <1>1
       DEF Calling, Becomes, Has, SameStore, Unlock, Locals, Fresh, TaskAt, Locked, Decided,
           Present
  <1>2. ASSUME NEW c \in Callers, Locking(c) PROVE Fresh'
    BY <1>a, <1>2
       DEF Locking, Stays, Becomes, Has, SameStore, Unlock, Locals, Fresh, TaskAt, Locked,
           Decided, Present
  <1>3. ASSUME NEW c \in Callers, Checking(c) PROVE Fresh'
    <2>1. \A d \in Callers \ {c} : caller'[d] = caller[d]
      BY <1>3, Checks
    <2>2. row' = row
      BY <1>3, Checks
    <2>3. IF caller'[c].replay THEN row[caller'[c].req.id].status # "absent"
                              ELSE row[caller'[c].req.id].status = "absent"
      BY <1>3, Checks, Zenon DEF Present
    <2> QED
      BY <1>a, <2>1, <2>2, <2>3 DEF Fresh, TaskAt, Present
  <1>4. ASSUME NEW c \in Callers, Counting(c) PROVE Fresh'
    BY <1>a, <1>4
       DEF Counting, Idles, Stays, Becomes, Has, SameStore, Unlock, Locals, Fresh, TaskAt,
           Locked, Decided, Present
  <1>5. ASSUME NEW c \in Callers, Ensuring(c) PROVE Fresh'
    BY <1>a, <1>5
       DEF Ensuring, Becomes, Has, SameStore, Unlock, Locals, Fresh, TaskAt, Locked, Decided,
           Present
  <1>6. ASSUME NEW c \in Callers, Creating(c) PROVE Fresh'
    BY <1>a, <1>6
       DEF Creating, Stays, Becomes, Has, SameStore, Unlock, Locals, Fresh, TaskAt, Locked,
           Decided, Present
  <1>7. ASSUME NEW c \in Callers, Admits(c) PROVE Fresh'
    <2>1. /\ \A d \in Callers \ {c} : caller'[d] = caller[d]
          /\ caller[c].pc = "admit" /\ caller'[c].pc \in {"idle", "recover", "answered"}
      BY <1>7 DEF Admits, Idles, Stays, Becomes, Has
    <2>2. \A i \in Ids : i # caller[c].req.id => row'[i] = row[i]
      BY <1>7, Zenon DEF Admits, Stores
    <2>3. \A d \in Callers \ {c} : TaskAt(d, Decided \cup {"count"}) => row'[caller[d].req.id] = row[caller[d].req.id]
      BY <1>a, <2>1, <2>2, Alone DEF TaskAt, Decided, Locked
    <2> QED
      BY <1>a, <2>1, <2>3 DEF Fresh, TaskAt, Decided, Present
  <1>8. ASSUME NEW c \in Callers, Recovering(c) PROVE Fresh'
    BY <1>a, <1>8
       DEF Recovering, Becomes, Has, SameStore, Unlock, Locals, Fresh, TaskAt, Locked,
           Decided, Present
  <1>9. ASSUME NEW c \in Callers, Failing(c) PROVE Fresh'
    BY <1>a, <1>9, Rows, Alone
       DEF Failing, Idles, Becomes, Has, SameStore, Unlock, Locals, Fresh, TaskAt, Locked,
           Decided, Present
  <1>10. ASSUME NEW i \in Ids, Settling(i) PROVE Fresh'
    BY <1>a, <1>10, Asked
       DEF Settling, Becomes, Has, SameStore, Unlock, Locals, Fresh, TaskAt, Locked, Decided,
           Present
  <1>11. CASE Crashing
    BY <1>a, <1>11
       DEF Crashing, Becomes, Has, SameStore, Unlock, Locals, Fresh, TaskAt, Locked, Decided,
           Present
  <1>12. CASE Resting
    BY <1>a, <1>12
       DEF Resting, Becomes, Has, SameStore, Unlock, Locals, Fresh, TaskAt, Locked, Decided,
           Present
  <1> QED
    BY <1>1, <1>2, <1>3, <1>4, <1>5, <1>6, <1>7, <1>8, <1>9, <1>10, <1>11, <1>12, StepCases

(* A row that is there stays. *)
LEMMA KeptStep ==
  ASSUME Invariant, [Next]_vars
  PROVE  Kept'
  <1>a. Locals /\ CallerType /\ Exclusive /\ Kept /\ row \in [Ids -> Row]
    BY Zenon DEF Invariant, CallerType, TypeOK
  <1>1. ASSUME NEW c \in Callers, Calling(c) PROVE Kept'
    BY <1>a, <1>1
       DEF Calling, Becomes, Has, SameStore, Unlock, Kept, TaskAt, Locked, Decided, Present
  <1>2. ASSUME NEW c \in Callers, Locking(c) PROVE Kept'
    BY <1>a, <1>2
       DEF Locking, Stays, Becomes, Has, SameStore, Unlock, Kept, TaskAt, Locked, Decided,
           Present
  <1>3. ASSUME NEW c \in Callers, Checking(c) PROVE Kept'
    <2>1. \A d \in Callers \ {c} : caller'[d] = caller[d]
      BY <1>3, Checks
    <2>2. row' = row
      BY <1>3, Checks
    <2>3. IF caller'[c].replay THEN row[caller'[c].req.id].status # "absent"
                              ELSE row[caller'[c].req.id].status = "absent"
      BY <1>3, Checks, Zenon DEF Present
    <2> QED
      BY <1>a, <2>1, <2>2, <2>3 DEF Kept, TaskAt, Present
  <1>4. ASSUME NEW c \in Callers, Counting(c) PROVE Kept'
    BY <1>a, <1>4
       DEF Counting, Idles, Stays, Becomes, Has, SameStore, Unlock, Kept, TaskAt, Locked,
           Decided, Present, Locals
  <1>5. ASSUME NEW c \in Callers, Ensuring(c) PROVE Kept'
    BY <1>a, <1>5
       DEF Ensuring, Becomes, Has, SameStore, Unlock, Kept, TaskAt, Locked, Decided, Present
  <1>6. ASSUME NEW c \in Callers, Creating(c) PROVE Kept'
    BY <1>a, <1>6
       DEF Creating, Stays, Becomes, Has, SameStore, Unlock, Kept, TaskAt, Locked, Decided,
           Present
  <1>7. ASSUME NEW c \in Callers, Admits(c) PROVE Kept'
    BY <1>a, <1>7, Rows, Asked
       DEF Admits, Idles, Stays, Becomes, Has, SameStore, Unlock, Kept, TaskAt, Locked,
           Decided, Present
  <1>8. ASSUME NEW c \in Callers, Recovering(c) PROVE Kept'
    BY <1>a, <1>8
       DEF Recovering, Becomes, Has, SameStore, Unlock, Kept, TaskAt, Locked, Decided,
           Present
  <1>9. ASSUME NEW c \in Callers, Failing(c) PROVE Kept'
    BY <1>a, <1>9, Rows, Asked
       DEF Failing, Idles, Becomes, Has, SameStore, Unlock, Kept, TaskAt, Locked, Decided,
           Present
  <1>10. ASSUME NEW i \in Ids, Settling(i) PROVE Kept'
    BY <1>a, <1>10, Asked
       DEF Settling, Becomes, Has, SameStore, Unlock, Kept, TaskAt, Locked, Decided, Present
  <1>11. CASE Crashing
    BY <1>a, <1>11
       DEF Crashing, Becomes, Has, SameStore, Unlock, Kept, TaskAt, Locked, Decided, Present
  <1>12. CASE Resting
    BY <1>a, <1>12
       DEF Resting, Becomes, Has, SameStore, Unlock, Kept, TaskAt, Locked, Decided, Present
  <1> QED
    BY <1>1, <1>2, <1>3, <1>4, <1>5, <1>6, <1>7, <1>8, <1>9, <1>10, <1>11, <1>12, StepCases

(* A conversation is opened after it is created. *)
LEMMA UnopenedStep ==
  ASSUME Invariant, [Next]_vars
  PROVE  Unopened'
  <1>a. /\  CallerType /\ Unopened /\ Created /\ row \in [Ids -> Row] /\ conv \subseteq Keys
        /\ opened \in [Keys -> Seq(Nat)]
    BY Zenon DEF Invariant, CallerType, TypeOK
  <1>1. ASSUME NEW c \in Callers, Calling(c) PROVE Unopened'
    BY <1>a, <1>1 DEF Calling, Becomes, Has, SameStore, Unlock, Unopened
  <1>2. ASSUME NEW c \in Callers, Locking(c) PROVE Unopened'
    BY <1>a, <1>2 DEF Locking, Stays, Becomes, Has, SameStore, Unlock, Unopened
  <1>3. ASSUME NEW c \in Callers, Checking(c) PROVE Unopened'
    BY <1>a, <1>3 DEF Checking, Becomes, Has, SameStore, Unlock, Unopened
  <1>4. ASSUME NEW c \in Callers, Counting(c) PROVE Unopened'
    BY <1>a, <1>4 DEF Counting, Idles, Stays, Becomes, Has, SameStore, Unlock, Unopened
  <1>5. ASSUME NEW c \in Callers, Ensuring(c) PROVE Unopened'
    BY <1>a, <1>5 DEF Ensuring, Becomes, Has, SameStore, Unlock, Unopened
  <1>6. ASSUME NEW c \in Callers, Creating(c) PROVE Unopened'
    BY <1>a, <1>6 DEF Creating, Stays, Becomes, Has, SameStore, Unlock, Unopened, Created
  <1>7. ASSUME NEW c \in Callers, Admits(c) PROVE Unopened'
    BY <1>a, <1>7 DEF Admits, Idles, Stays, Becomes, Has, SameStore, Unlock, Unopened
  <1>8. ASSUME NEW c \in Callers, Recovering(c) PROVE Unopened'
    BY <1>a, <1>8 DEF Recovering, Becomes, Has, SameStore, Unlock, Unopened
  <1>9. ASSUME NEW c \in Callers, Failing(c) PROVE Unopened'
    BY <1>a, <1>9 DEF Failing, Idles, Becomes, Has, SameStore, Unlock, Unopened
  <1>10. ASSUME NEW i \in Ids, Settling(i) PROVE Unopened'
    BY <1>a, <1>10 DEF Settling, Becomes, Has, SameStore, Unlock, Unopened
  <1>11. CASE Crashing
    BY <1>a, <1>11 DEF Crashing, Becomes, Has, SameStore, Unlock, Unopened
  <1>12. CASE Resting
    BY <1>a, <1>12 DEF Resting, Becomes, Has, SameStore, Unlock, Unopened
  <1> QED
    BY <1>1, <1>2, <1>3, <1>4, <1>5, <1>6, <1>7, <1>8, <1>9, <1>10, <1>11, <1>12, StepCases

(* A conversation is created before it is opened. *)
LEMMA CreatedStep ==
  ASSUME Invariant, [Next]_vars
  PROVE  Created'
  <1>a. CallerType /\ Created
    BY Zenon DEF Invariant, CallerType, TypeOK
  <1>1. ASSUME NEW c \in Callers, Calling(c) PROVE Created'
    BY <1>a, <1>1 DEF Calling, Becomes, Has, SameStore, Unlock, Created
  <1>2. ASSUME NEW c \in Callers, Locking(c) PROVE Created'
    BY <1>a, <1>2 DEF Locking, Stays, Becomes, Has, SameStore, Unlock, Created
  <1>3. ASSUME NEW c \in Callers, Checking(c) PROVE Created'
    BY <1>a, <1>3 DEF Checking, Becomes, Has, SameStore, Unlock, Created
  <1>4. ASSUME NEW c \in Callers, Counting(c) PROVE Created'
    BY <1>a, <1>4 DEF Counting, Idles, Stays, Becomes, Has, SameStore, Unlock, Created
  <1>5. ASSUME NEW c \in Callers, Ensuring(c) PROVE Created'
    BY <1>a, <1>5 DEF Ensuring, Becomes, Has, SameStore, Unlock, Created
  <1>6. ASSUME NEW c \in Callers, Creating(c) PROVE Created'
    BY <1>a, <1>6 DEF Creating, Stays, Becomes, Has, SameStore, Unlock, Created
  <1>7. ASSUME NEW c \in Callers, Admits(c) PROVE Created'
    BY <1>a, <1>7 DEF Admits, Idles, Stays, Becomes, Has, SameStore, Unlock, Created
  <1>8. ASSUME NEW c \in Callers, Recovering(c) PROVE Created'
    BY <1>a, <1>8 DEF Recovering, Becomes, Has, SameStore, Unlock, Created
  <1>9. ASSUME NEW c \in Callers, Failing(c) PROVE Created'
    BY <1>a, <1>9 DEF Failing, Idles, Becomes, Has, SameStore, Unlock, Created
  <1>10. ASSUME NEW i \in Ids, Settling(i) PROVE Created'
    BY <1>a, <1>10 DEF Settling, Becomes, Has, SameStore, Unlock, Created
  <1>11. CASE Crashing
    BY <1>a, <1>11 DEF Crashing, Becomes, Has, SameStore, Unlock, Created
  <1>12. CASE Resting
    BY <1>a, <1>12 DEF Resting, Becomes, Has, SameStore, Unlock, Created
  <1> QED
    BY <1>1, <1>2, <1>3, <1>4, <1>5, <1>6, <1>7, <1>8, <1>9, <1>10, <1>11, <1>12, StepCases

(* The creator of a conversation finds it unopened, since it is the only one to open it. *)
LEMMA OpeningStep ==
  ASSUME Invariant, [Next]_vars
  PROVE  Opening'
  <1>a. /\  Locals /\ CallerType /\ Opening /\ Unopened /\ OneOpener /\ row \in [Ids -> Row]
        /\ conv \subseteq Keys /\ opened \in [Keys -> Seq(Nat)]
    BY Zenon DEF Invariant, CallerType, TypeOK
  <1>1. ASSUME NEW c \in Callers, Calling(c) PROVE Opening'
    BY <1>a, <1>1 DEF Calling, Becomes, Has, SameStore, Unlock, Opening, At
  <1>2. ASSUME NEW c \in Callers, Locking(c) PROVE Opening'
    BY <1>a, <1>2 DEF Locking, Stays, Becomes, Has, SameStore, Unlock, Opening, At
  <1>3. ASSUME NEW c \in Callers, Checking(c) PROVE Opening'
    BY <1>a, <1>3 DEF Checking, Becomes, Has, SameStore, Unlock, Opening, At
  <1>4. ASSUME NEW c \in Callers, Counting(c) PROVE Opening'
    BY <1>a, <1>4 DEF Counting, Idles, Stays, Becomes, Has, SameStore, Unlock, Opening, At
  <1>5. ASSUME NEW c \in Callers, Ensuring(c) PROVE Opening'
    BY <1>a, <1>5, Asked DEF Ensuring, Becomes, Has, SameStore, Unlock, Opening, At, Unopened
  <1>6. ASSUME NEW c \in Callers, Creating(c) PROVE Opening'
    <2>1. \A d \in Callers \ {c} : At(d, "open") =>
            caller[d].req \in Requests /\ caller[d].req.key \in Keys /\ caller[d].req.key # caller[c].req.key
      BY <1>a, <1>6, Asked DEF OneOpener, At, Creating
    <2>2. /\ \A d \in Callers \ {c} : caller'[d] = caller[d]
          /\ caller'[c].pc = "admit"
      BY <1>6, Zenon DEF Creating, Stays, Becomes, Has
    <2>3. \A x \in Keys \ {caller[c].req.key} : opened'[x] = opened[x]
      BY <1>6, Zenon DEF Creating
    <2> QED
      BY <1>a, <2>1, <2>2, <2>3 DEF Opening, At
  <1>7. ASSUME NEW c \in Callers, Admits(c) PROVE Opening'
    BY <1>a, <1>7 DEF Admits, Idles, Stays, Becomes, Has, SameStore, Unlock, Opening, At
  <1>8. ASSUME NEW c \in Callers, Recovering(c) PROVE Opening'
    BY <1>a, <1>8 DEF Recovering, Becomes, Has, SameStore, Unlock, Opening, At
  <1>9. ASSUME NEW c \in Callers, Failing(c) PROVE Opening'
    BY <1>a, <1>9 DEF Failing, Idles, Becomes, Has, SameStore, Unlock, Opening, At
  <1>10. ASSUME NEW i \in Ids, Settling(i) PROVE Opening'
    BY <1>a, <1>10 DEF Settling, Becomes, Has, SameStore, Unlock, Opening, At
  <1>11. CASE Crashing
    BY <1>a, <1>11 DEF Crashing, Becomes, Has, SameStore, Unlock, Opening, At
  <1>12. CASE Resting
    BY <1>a, <1>12 DEF Resting, Becomes, Has, SameStore, Unlock, Opening, At
  <1> QED
    BY <1>1, <1>2, <1>3, <1>4, <1>5, <1>6, <1>7, <1>8, <1>9, <1>10, <1>11, <1>12, StepCases

(* A second caller finds the conversation there and does not open it. *)
LEMMA OneOpenerStep ==
  ASSUME Invariant, [Next]_vars
  PROVE  OneOpener'
  <1>a. /\  CallerType /\ Locals /\ OneOpener /\ Created /\ row \in [Ids -> Row]
        /\ conv \subseteq Keys /\ opened \in [Keys -> Seq(Nat)]
    BY Zenon DEF Invariant, CallerType, TypeOK
  <1>1. ASSUME NEW c \in Callers, Calling(c) PROVE OneOpener'
    BY <1>a, <1>1 DEF Calling, Becomes, Has, SameStore, Unlock, OneOpener, At
  <1>2. ASSUME NEW c \in Callers, Locking(c) PROVE OneOpener'
    BY <1>a, <1>2 DEF Locking, Stays, Becomes, Has, SameStore, Unlock, OneOpener, At
  <1>3. ASSUME NEW c \in Callers, Checking(c) PROVE OneOpener'
    BY <1>a, <1>3 DEF Checking, Becomes, Has, SameStore, Unlock, OneOpener, At
  <1>4. ASSUME NEW c \in Callers, Counting(c) PROVE OneOpener'
    BY <1>a, <1>4 DEF Counting, Idles, Stays, Becomes, Has, SameStore, Unlock, OneOpener, At
  <1>5. ASSUME NEW c \in Callers, Ensuring(c) PROVE OneOpener'
    <2>1. \A d \in Callers : At(d, "open") => caller[d].req.key # caller[c].req.key \/ caller[c].req.key \in conv
      BY <1>a DEF Created, At
    <2>2. \A d \in Callers \ {c} : caller'[d] = caller[d]
      BY <1>5, Zenon DEF Ensuring, Becomes
    <2>3. caller'[c].req = caller[c].req /\ (caller'[c].pc = "open" => caller[c].req.key \notin conv)
      BY <1>5 DEF Ensuring, Becomes, Has
    <2> QED
      BY <1>a, <2>1, <2>2, <2>3 DEF OneOpener, At
  <1>6. ASSUME NEW c \in Callers, Creating(c) PROVE OneOpener'
    BY <1>a, <1>6, Opens DEF OneOpener, At
  <1>7. ASSUME NEW c \in Callers, Admits(c) PROVE OneOpener'
    BY <1>a, <1>7 DEF Admits, Idles, Stays, Becomes, Has, SameStore, Unlock, OneOpener, At
  <1>8. ASSUME NEW c \in Callers, Recovering(c) PROVE OneOpener'
    BY <1>a, <1>8 DEF Recovering, Becomes, Has, SameStore, Unlock, OneOpener, At
  <1>9. ASSUME NEW c \in Callers, Failing(c) PROVE OneOpener'
    BY <1>a, <1>9 DEF Failing, Idles, Becomes, Has, SameStore, Unlock, OneOpener, At
  <1>10. ASSUME NEW i \in Ids, Settling(i) PROVE OneOpener'
    BY <1>a, <1>10 DEF Settling, Becomes, Has, SameStore, Unlock, OneOpener, At
  <1>11. CASE Crashing
    BY <1>a, <1>11 DEF Crashing, Becomes, Has, SameStore, Unlock, OneOpener, At
  <1>12. CASE Resting
    BY <1>a, <1>12 DEF Resting, Becomes, Has, SameStore, Unlock, OneOpener, At
  <1> QED
    BY <1>1, <1>2, <1>3, <1>4, <1>5, <1>6, <1>7, <1>8, <1>9, <1>10, <1>11, <1>12, StepCases

(* A child's conversation was there when its call created another one, or is the call's own. *)
LEMMA MovedStep ==
  ASSUME Invariant, [Next]_vars
  PROVE  Moved'
  <1>a. /\  CallerType /\ Locals /\ Moved /\ Exclusive /\ RowKeys /\ Fresh
        /\ row \in [Ids -> Row] /\ conv \subseteq Keys /\ opened \in [Keys -> Seq(Nat)]
    BY Zenon DEF Invariant, CallerType, TypeOK
  <1>1. ASSUME NEW c \in Callers, Calling(c) PROVE Moved'
    BY <1>a, <1>1 DEF Calling, Becomes, Has, SameStore, Unlock, Moved, TaskAt, Present
  <1>2. ASSUME NEW c \in Callers, Locking(c) PROVE Moved'
    BY <1>a, <1>2 DEF Locking, Stays, Becomes, Has, SameStore, Unlock, Moved, TaskAt, Present
  <1>3. ASSUME NEW c \in Callers, Checking(c) PROVE Moved'
    BY <1>a, <1>3, Checks DEF Moved, TaskAt, Present
  <1>4. ASSUME NEW c \in Callers, Counting(c) PROVE Moved'
    BY <1>a, <1>4
       DEF Counting, Idles, Stays, Becomes, Has, SameStore, Unlock, Moved, TaskAt, Present
  <1>5. ASSUME NEW c \in Callers, Ensuring(c) PROVE Moved'
    BY <1>a, <1>5, Asked
       DEF Ensuring, Becomes, Has, SameStore, Unlock, Moved, TaskAt, Present, RowKeys
  <1>6. ASSUME NEW c \in Callers, Creating(c) PROVE Moved'
    BY <1>a, <1>6 DEF Creating, Stays, Becomes, Has, SameStore, Unlock, Moved, TaskAt, Present
  <1>7. ASSUME NEW c \in Callers, Admits(c) PROVE Moved'
    <2>1. /\ \A d \in Callers \ {c} : caller'[d] = caller[d]
          /\ caller[c].pc = "admit" /\ caller'[c].pc \in {"idle", "recover", "answered"}
      BY <1>7 DEF Admits, Idles, Stays, Becomes, Has
    <2>2. \A i \in Ids : i # caller[c].req.id => row'[i] = row[i]
      BY <1>7, Zenon DEF Admits, Stores
    <2>3. \A d \in Callers \ {c} : TaskAt(d, {"open"}) => row'[caller[d].req.id] = row[caller[d].req.id]
      BY <1>a, <2>1, <2>2, Alone DEF TaskAt, Decided, Locked
    <2> QED
      BY <1>a, <2>1, <2>3 DEF Moved, TaskAt, Decided, Present
  <1>8. ASSUME NEW c \in Callers, Recovering(c) PROVE Moved'
    <2>1. caller'[c].pc = "answered" /\ row' = row
      BY <1>8, Recovers
    <2>2. \A d \in Callers \ {c} : caller'[d] = caller[d]
      BY <1>8, Recovers
    <2> QED
      BY <1>a, <2>1, <2>2 DEF Moved, TaskAt, Present
  <1>9. ASSUME NEW c \in Callers, Failing(c) PROVE Moved'
    BY <1>a, <1>9, Rows, Alone
       DEF Failing, Idles, Becomes, Has, SameStore, Unlock, Moved, TaskAt, Present, Locked,
           RowKeys
  <1>10. ASSUME NEW i \in Ids, Settling(i) PROVE Moved'
    <2>1. \A j \in Ids : /\ row'[j].status # "absent" <=> row[j].status # "absent"
                         /\ row'[j].key = row[j].key
      BY <1>10 DEF Settling
    <2>2. caller' = caller
      BY <1>10 DEF Settling
    <2>3. \A c \in Callers : TaskAt(c, {"open"}) => caller[c].req.id \in Ids
      BY <1>a, Asked DEF TaskAt
    <2> QED
      BY <1>a, <2>1, <2>2, <2>3 DEF Moved, TaskAt, Present
  <1>11. CASE Crashing
    BY <1>a, <1>11 DEF Crashing, Becomes, Has, SameStore, Unlock, Moved, TaskAt, Present
  <1>12. CASE Resting
    BY <1>a, <1>12 DEF Resting, Becomes, Has, SameStore, Unlock, Moved, TaskAt, Present
  <1> QED
    BY <1>1, <1>2, <1>3, <1>4, <1>5, <1>6, <1>7, <1>8, <1>9, <1>10, <1>11, <1>12, StepCases

(* A row is admitted for a conversation that is there, a child's by a task call. *)
LEMMA RowKeysStep ==
  ASSUME Invariant, [Next]_vars
  PROVE  RowKeys'
  <1>a. /\  Locals /\ CallerType /\ Created /\ RowKeys /\ row \in [Ids -> Row]
        /\ conv \subseteq Keys
    BY Zenon DEF Invariant, CallerType, TypeOK
  <1>1. ASSUME NEW c \in Callers, Calling(c) PROVE RowKeys'
    BY <1>a, <1>1 DEF Calling, Becomes, Has, SameStore, Unlock, RowKeys, Present
  <1>2. ASSUME NEW c \in Callers, Locking(c) PROVE RowKeys'
    BY <1>a, <1>2 DEF Locking, Stays, Becomes, Has, SameStore, Unlock, RowKeys, Present
  <1>3. ASSUME NEW c \in Callers, Checking(c) PROVE RowKeys'
    BY <1>a, <1>3 DEF Checking, Becomes, Has, SameStore, Unlock, RowKeys, Present
  <1>4. ASSUME NEW c \in Callers, Counting(c) PROVE RowKeys'
    BY <1>a, <1>4 DEF Counting, Idles, Stays, Becomes, Has, SameStore, Unlock, RowKeys, Present
  <1>5. ASSUME NEW c \in Callers, Ensuring(c) PROVE RowKeys'
    BY <1>a, <1>5 DEF Ensuring, Becomes, Has, SameStore, Unlock, RowKeys, Present
  <1>6. ASSUME NEW c \in Callers, Creating(c) PROVE RowKeys'
    BY <1>a, <1>6 DEF Creating, Stays, Becomes, Has, SameStore, Unlock, RowKeys, Present
  <1>7. ASSUME NEW c \in Callers, Admits(c) PROVE RowKeys'
    BY <1>a, <1>7, StoredKeys, Asked
       DEF Admits, Idles, Stays, Becomes, Has, SameStore, Unlock, RowKeys, Present, Created
  <1>8. ASSUME NEW c \in Callers, Recovering(c) PROVE RowKeys'
    BY <1>a, <1>8 DEF Recovering, Becomes, Has, SameStore, Unlock, RowKeys, Present
  <1>9. ASSUME NEW c \in Callers, Failing(c) PROVE RowKeys'
    BY <1>a, <1>9, StoredKeys, Asked
       DEF Failing, Idles, Becomes, Has, SameStore, Unlock, RowKeys, Present, Created
  <1>10. ASSUME NEW i \in Ids, Settling(i) PROVE RowKeys'
    BY <1>a, <1>10, Called DEF Settling, Becomes, Has, SameStore, Unlock, RowKeys, Present
  <1>11. CASE Crashing
    BY <1>a, <1>11 DEF Crashing, Becomes, Has, SameStore, Unlock, RowKeys, Present
  <1>12. CASE Resting
    BY <1>a, <1>12 DEF Resting, Becomes, Has, SameStore, Unlock, RowKeys, Present
  <1> QED
    BY <1>1, <1>2, <1>3, <1>4, <1>5, <1>6, <1>7, <1>8, <1>9, <1>10, <1>11, <1>12, StepCases

(* The task call that opens a conversation admits its child, or leaves it torn. *)
LEMMA RefsStep ==
  ASSUME Invariant, [Next]_vars
  PROVE  Refs'
  <1>a. Locals /\ CallerType /\ Opening /\ Refs /\ row \in [Ids -> Row]
    BY Zenon DEF Invariant, CallerType, TypeOK
  <1>1. ASSUME NEW c \in Callers, Calling(c) PROVE Refs'
    BY <1>a, <1>1 DEF Calling, Becomes, Has, SameStore, Unlock, Refs, TaskAt, Present
  <1>2. ASSUME NEW c \in Callers, Locking(c) PROVE Refs'
    BY <1>a, <1>2 DEF Locking, Stays, Becomes, Has, SameStore, Unlock, Refs, TaskAt, Present
  <1>3. ASSUME NEW c \in Callers, Checking(c) PROVE Refs'
    BY <1>a, <1>3 DEF Checking, Becomes, Has, SameStore, Unlock, Refs, TaskAt, Present
  <1>4. ASSUME NEW c \in Callers, Counting(c) PROVE Refs'
    BY <1>a, <1>4
       DEF Counting, Idles, Stays, Becomes, Has, SameStore, Unlock, Refs, TaskAt, Present
  <1>5. ASSUME NEW c \in Callers, Ensuring(c) PROVE Refs'
    BY <1>a, <1>5 DEF Ensuring, Becomes, Has, SameStore, Unlock, Refs, TaskAt, Present
  <1>6. ASSUME NEW c \in Callers, Creating(c) PROVE Refs'
    <2> DEFINE r == caller[c].req
    <2>1. IF r.task THEN caller[c].created ELSE caller[c].spawn = 0
      BY <1>a, <1>6, Opens DEF Opening
    <2> SUFFICES ASSUME NEW q \in TaskCalls, opened'[q.key] # <<>>, Head(opened'[q.key]) # 0,
                        q.key \notin torn'
                 PROVE  \/ row'[q.id].status # "absent"
                        \/ \E d \in Callers : /\ caller'[d].req.task /\ caller'[d].pc = "admit"
                                             /\ caller'[d].created /\ caller'[d].req.key = q.key
      BY DEF Refs, TaskAt, Present
    <2>2. CASE q.key = r.key
      BY <1>6, <2>1, <2>2, Opens
    <2>3. CASE q.key # r.key
      <3>1. \/ row[q.id].status # "absent"
            \/ \E d \in Callers : TaskAt(d, {"admit"}) /\ caller[d].created /\ caller[d].req.key = q.key
        BY <1>a, <1>6, <2>3, Opens, Called DEF Refs, Present
      <3>2. \A d \in Callers : TaskAt(d, {"admit"}) => caller'[d] = caller[d]
        BY <1>6, Opens DEF TaskAt, At
      <3> QED
        BY <1>6, <3>1, <3>2, Opens DEF TaskAt
    <2> QED
      BY <2>2, <2>3
  <1>7. ASSUME NEW c \in Callers, Admits(c) PROVE Refs'
    <2>1. LeavesAt(c)
      BY <1>7 DEF LeavesAt, Admits, Idles, Stays, Becomes
    <2> QED
      BY <1>a, <2>1, LeavesAdmit, Zenon
  <1>8. ASSUME NEW c \in Callers, Recovering(c) PROVE Refs'
    BY <1>a, <1>8, Recovers DEF Refs, TaskAt, Present
  <1>9. ASSUME NEW c \in Callers, Failing(c) PROVE Refs'
    <2>1. LeavesAt(c)
      BY <1>9 DEF LeavesAt, Failing, Idles, Becomes
    <2> QED
      BY <1>a, <2>1, LeavesAdmit, Zenon
  <1>10. ASSUME NEW i \in Ids, Settling(i) PROVE Refs'
    <2>1. \A j \in Ids : row'[j].status # "absent" <=> row[j].status # "absent"
      BY <1>10 DEF Settling
    <2>2. UNCHANGED <<opened, torn, caller>>
      BY <1>10, Zenon DEF Settling
    <2> QED
      BY <1>a, <2>1, <2>2, Called DEF Refs, TaskAt, Present
  <1>11. CASE Crashing
    BY <1>a, <1>11
       DEF Crashing, Becomes, Has, SameStore, Unlock, Refs, TaskAt, Present, Abandoned, At
  <1>12. CASE Resting
    BY <1>a, <1>12 DEF Resting, Becomes, Has, SameStore, Unlock, Refs, TaskAt, Present
  <1> QED
    BY <1>1, <1>2, <1>3, <1>4, <1>5, <1>6, <1>7, <1>8, <1>9, <1>10, <1>11, <1>12, StepCases

(* A new child's call opened the conversation itself, or no task call did. *)
LEMMA AdmittingStep ==
  ASSUME Invariant, [Next]_vars
  PROVE  Admitting'
  <1>a. /\  Locals /\ CallerType /\ Exclusive /\ Fresh /\ Refs /\ Opening /\ Admitting
        /\ row \in [Ids -> Row] /\ opened \in [Keys -> Seq(Nat)]
    BY Zenon DEF Invariant, CallerType, TypeOK
  <1>1. ASSUME NEW c \in Callers, Calling(c) PROVE Admitting'
    BY <1>a, <1>1 DEF Calling, Becomes, Has, SameStore, Unlock, Admitting, Names, TaskAt
  <1>2. ASSUME NEW c \in Callers, Locking(c) PROVE Admitting'
    BY <1>a, <1>2 DEF Locking, Stays, Becomes, Has, SameStore, Unlock, Admitting, Names, TaskAt
  <1>3. ASSUME NEW c \in Callers, Checking(c) PROVE Admitting'
    BY <1>a, <1>3 DEF Checking, Becomes, Has, SameStore, Unlock, Admitting, Names, TaskAt
  <1>4. ASSUME NEW c \in Callers, Counting(c) PROVE Admitting'
    BY <1>a, <1>4
       DEF Counting, Idles, Stays, Becomes, Has, SameStore, Unlock, Admitting, Names, TaskAt
  <1>5. ASSUME NEW c \in Callers, Ensuring(c) PROVE Admitting'
    <2> DEFINE r == caller[c].req
    <2>1. /\ At(c, "ensure") /\ caller'[c].req = r /\ caller'[c].replay = caller[c].replay
          /\ \A d \in Callers \ {c} : caller'[d] = caller[d]
          /\ opened' = opened /\ torn' = torn
      BY <1>5 DEF Ensuring, Becomes, Has, At
    <2>2. ASSUME r.task, ~caller[c].replay, r.key \notin torn, opened[r.key] # <<>>
          PROVE  Head(opened[r.key]) = 0
      <3>1. TaskAt(c, Locked) /\ TaskAt(c, Decided \cup {"count"}) /\ r \in TaskCalls
        BY <1>a, <2>1, <2>2, Asked, Called DEF TaskAt, Locked, Decided, At
      <3>2. ~Present(r.id)
        BY <1>a, <2>2, <3>1 DEF Fresh
      <3>3. \A d \in Callers : ~TaskAt(d, {"admit"})
        BY <1>a, <2>1, <3>1 DEF Exclusive, TaskAt, Locked, At
      <3> QED
        BY <1>a, <2>2, <3>1, <3>2, <3>3 DEF Refs
    <2> QED
      BY <1>a, <2>1, <2>2 DEF Admitting, Names, TaskAt
  <1>6. ASSUME NEW c \in Callers, Creating(c) PROVE Admitting'
    <2> SUFFICES ASSUME NEW d \in Callers, caller'[d].req.task, caller'[d].pc = "admit",
                        ~caller'[d].replay, caller'[d].req.key \notin torn',
                        opened'[caller'[d].req.key] # <<>>
                 PROVE  Head(opened'[caller'[d].req.key]) \in {0, caller'[d].spawn}
      BY DEF Admitting, Names, TaskAt
    <2>1. CASE d = c
      BY <1>6, <2>1, Opens
    <2>2. CASE d # c
      <3>1. caller'[d] = caller[d] /\ TaskAt(d, {"admit"}) /\ TaskAt(d, Locked)
        BY <1>6, <2>2, Opens DEF TaskAt, Locked
      <3>2. caller[c].spawn = 0
        BY <1>a, <1>6, <2>2, <3>1, Opens DEF Exclusive, TaskAt, Locked, At, Opening
      <3>3. CASE caller[d].req.key = caller[c].req.key
        BY <1>6, <3>1, <3>2, <3>3, Opens
      <3>4. CASE caller[d].req.key # caller[c].req.key
        <4>1. caller[d].req.key \in Keys
          BY <1>a, <3>1, Asked DEF TaskAt
        <4>2. opened'[caller[d].req.key] = opened[caller[d].req.key] /\ torn' = torn
          BY <1>6, <3>4, <4>1, Opens
        <4> QED
          BY <1>a, <3>1, <4>2 DEF Admitting, Names
      <3> QED
        BY <3>3, <3>4
    <2> QED
      BY <2>1, <2>2
  <1>7. ASSUME NEW c \in Callers, Admits(c) PROVE Admitting'
    BY <1>a, <1>7
       DEF Admits, Idles, Stays, Becomes, Has, SameStore, Unlock, Admitting, Names, TaskAt
  <1>8. ASSUME NEW c \in Callers, Recovering(c) PROVE Admitting'
    BY <1>a, <1>8 DEF Recovering, Becomes, Has, SameStore, Unlock, Admitting, Names, TaskAt
  <1>9. ASSUME NEW c \in Callers, Failing(c) PROVE Admitting'
    BY <1>a, <1>9 DEF Failing, Idles, Becomes, Has, SameStore, Unlock, Admitting, Names, TaskAt
  <1>10. ASSUME NEW i \in Ids, Settling(i) PROVE Admitting'
    BY <1>a, <1>10 DEF Settling, Becomes, Has, SameStore, Unlock, Admitting, Names, TaskAt
  <1>11. CASE Crashing
    BY <1>a, <1>11 DEF Crashing, Becomes, Has, SameStore, Unlock, Admitting, Names, TaskAt
  <1>12. CASE Resting
    BY <1>a, <1>12 DEF Resting, Becomes, Has, SameStore, Unlock, Admitting, Names, TaskAt
  <1> QED
    BY <1>1, <1>2, <1>3, <1>4, <1>5, <1>6, <1>7, <1>8, <1>9, <1>10, <1>11, <1>12, StepCases

(* What a receipt names does not change after it is given. *)
LEMMA ReceiptsStep ==
  ASSUME Invariant, [Next]_vars
  PROVE  Receipts'
  <1>a. /\  Locals /\ CallerType /\ Receipts /\ Opening /\ Fresh /\ Admitting /\ RowKeys
        /\ Moved /\ conv \subseteq Keys /\ row \in [Ids -> Row]
        /\ opened \in [Keys -> Seq(Nat)]
    BY Zenon DEF Invariant, CallerType, TypeOK
  <1>1. ASSUME NEW c \in Callers, Calling(c) PROVE Receipts'
    BY <1>a, <1>1
       DEF Calling, Becomes, Has, SameStore, Unlock, Receipts, Received, Names, Present, At
  <1>2. ASSUME NEW c \in Callers, Locking(c) PROVE Receipts'
    BY <1>a, <1>2
       DEF Locking, Stays, Becomes, Has, SameStore, Unlock, Receipts, Received, Names,
           Present, At
  <1>3. ASSUME NEW c \in Callers, Checking(c) PROVE Receipts'
    BY <1>a, <1>3, Checks DEF Receipts, Received, Names, Present, At
  <1>4. ASSUME NEW c \in Callers, Counting(c) PROVE Receipts'
    BY <1>a, <1>4
       DEF Counting, Idles, Stays, Becomes, Has, SameStore, Unlock, Receipts, Received,
           Names, Present, At
  <1>5. ASSUME NEW c \in Callers, Ensuring(c) PROVE Receipts'
    BY <1>a, <1>5
       DEF Ensuring, Becomes, Has, SameStore, Unlock, Receipts, Received, Names, Present, At
  <1>6. ASSUME NEW c \in Callers, Creating(c) PROVE Receipts'
    <2> DEFINE k == caller[c].req.key
    <2> SUFFICES ASSUME NEW d \in Callers PROVE Received(d)'
      BY DEF Receipts
    <2>1. CASE d = c
      BY <1>6, <2>1, Opens DEF Received, At
    <2>2. CASE d # c
      <3>1. /\ caller'[d] = caller[d] /\ row' = row /\ torn' = torn /\ Received(d)
            /\ \A x \in Keys \ {k} : opened'[x] = opened[x]
        BY <1>a, <1>6, <2>2, Opens DEF Receipts
      <3>2. ASSUME At(d, "answered"), caller[d].req.task PROVE Names(d, caller[d].named)'
        <4> DEFINE q == caller[d].req
        <4>1. Present(q.id) /\ row[q.id].key = caller[d].named /\ q \in TaskCalls
          BY <1>a, <3>1, <3>2, Asked, Called DEF Received, At
        <4>2. caller[d].named \in Keys
          BY <1>a, <4>1, Called DEF RowKeys
        <4>3. CASE caller[d].named # k
          BY <3>1, <3>2, <4>2, <4>3 DEF Received, Names
        <4>4. CASE caller[d].named = k
          <5>1. ~caller[c].req.task
            <6> SUFFICES ASSUME caller[c].req.task PROVE FALSE
              OBVIOUS
            <6>1. caller[c].req \in TaskCalls /\ TaskAt(c, {"open"})
              BY <1>6, Opens, Called DEF TaskAt, At
            <6>2. PICK s \in TaskCalls : s.id = q.id /\ s.key = k
              BY <1>a, <4>1, <4>4, Called DEF RowKeys
            <6>3. caller[c].req.id = q.id
              BY <6>1, <6>2, TaskNames
            <6> QED
              BY <1>a, <4>1, <4>4, <6>1, <6>3 DEF Moved
          <5>2. Head(opened'[k]) = 0
            BY <1>a, <1>6, <5>1, Opens DEF Opening
          <5> QED
            BY <3>1, <4>4, <5>2 DEF Names
        <4> QED
          BY <4>3, <4>4
      <3> QED
        BY <3>1, <3>2 DEF Received, At, Present
    <2> QED
      BY <2>1, <2>2
  <1>7. ASSUME NEW c \in Callers, Admits(c) PROVE Receipts'
    <2> DEFINE r == caller[c].req
    <2>1. /\ \A i \in Ids : row[i].status # "absent" => row'[i] = row[i]
          /\ r.id \in Ids /\ row'[r.id] = Stored(r) /\ row'[r.id].status # "absent"
          /\ row[r.id].status = "absent" => row'[r.id].key = r.key
      BY <1>a, <1>7, Rows DEF Admits
    <2>2. torn \subseteq torn' /\ opened' = opened
      BY <1>7 DEF Admits
    <2>3. \A d \in Callers \ {c} : caller'[d] = caller[d]
      BY <1>7, Zenon DEF Admits, Idles, Stays, Becomes
    <2>4. \/ caller'[c].pc = "idle"
          \/ caller'[c].pc = "recover" /\ caller'[c].req = r /\ Stored(r).input = r.input
          \/ /\ caller'[c].pc = "answered" /\ caller'[c].req = r /\ Stored(r).input = r.input
             /\ caller'[c].named = Stored(r).key /\ caller'[c].spawn = caller[c].spawn
             /\ ~caller[c].replay
      BY <1>7, Zenon DEF Admits, Idles, Stays, Becomes, Has
    <2>5. r.task /\ ~caller[c].replay => row[r.id].status = "absent" /\ Names(c, r.key)
      BY <1>a, <1>7 DEF Admits, Fresh, Admitting, TaskAt, Decided, Present
    <2>6. Received(c)'
      BY <2>1, <2>2, <2>4, <2>5 DEF Received, At, Names, Present
    <2> QED
      BY <1>a, <2>1, <2>2, <2>3, <2>6, ReceiptStays DEF Receipts
  <1>8. ASSUME NEW c \in Callers, Recovering(c) PROVE Receipts'
    <2>1. \A d \in Callers \ {c} : caller'[d] = caller[d]
      BY <1>8, Recovers
    <2>2. opened' = opened /\ row' = row /\ torn' = torn
      BY <1>8, Recovers
    <2>3. Received(c)
      BY <1>a DEF Receipts
    <2>4. Received(c)'
      BY <1>8, <2>2, <2>3, Recovers DEF Received, Names, Present, At
    <2> QED
      BY <1>a, <2>1, <2>2, <2>4, ReceiptStays DEF Receipts
  <1>9. ASSUME NEW c \in Callers, Failing(c) PROVE Receipts'
    <2>1. \A i \in Ids : row[i].status # "absent" => row'[i] = row[i]
      BY <1>a, <1>9, Rows DEF Failing
    <2>2. torn \subseteq torn' /\ opened' = opened
      BY <1>9 DEF Failing
    <2>3. \A d \in Callers \ {c} : caller'[d] = caller[d]
      BY <1>9, Zenon DEF Failing, Idles, Becomes
    <2>4. caller'[c].pc = "idle"
      BY <1>9, Zenon DEF Failing, Idles, Becomes, Has
    <2>5. Received(c)'
      BY <2>4 DEF Received, At
    <2> QED
      BY <1>a, <2>1, <2>2, <2>3, <2>5, ReceiptStays DEF Receipts
  <1>10. ASSUME NEW i \in Ids, Settling(i) PROVE Receipts'
    <2>1. \A j \in Ids : /\ row'[j].status # "absent" <=> row[j].status # "absent"
                         /\ row'[j].key = row[j].key /\ row'[j].input = row[j].input
      BY <1>10 DEF Settling
    <2>2. /\ UNCHANGED <<opened, torn, caller>>
          /\ \A d \in Callers : caller[d].pc \in {"recover", "answered"} => caller[d].req.id \in Ids
      BY <1>a, <1>10, Asked DEF Settling
    <2> QED
      BY <1>a, <2>1, <2>2 DEF Receipts, Received, Names, Present, At
  <1>11. CASE Crashing
    BY <1>a, <1>11
       DEF Crashing, Becomes, Has, SameStore, Unlock, Receipts, Received, Names, Present, At
  <1>12. CASE Resting
    BY <1>a, <1>12
       DEF Resting, Becomes, Has, SameStore, Unlock, Receipts, Received, Names, Present, At
  <1> QED
    BY <1>1, <1>2, <1>3, <1>4, <1>5, <1>6, <1>7, <1>8, <1>9, <1>10, <1>11, <1>12, StepCases

(* While a task call holds the mutex, the live children only become fewer. *)
LEMMA RoomStep ==
  ASSUME Invariant, [Next]_vars
  PROVE  Room'
  <1>a. Locals /\ CallerType /\ Exclusive /\ Room /\ row \in [Ids -> Row]
    BY Zenon DEF Invariant, CallerType, TypeOK
  <1>b. /\ Cardinality(Live') \in Nat
        /\ Cardinality(Live') <= Cardinality(Live) \/ \E c \in Callers : AddsChild(c)
    BY LiveStep, Zenon
  <1>1. ASSUME NEW c \in Callers, Calling(c) PROVE Room'
    BY <1>a, <1>1, LiveSame DEF Calling, Becomes, Has, SameStore, Unlock, Room, TaskAt, Decided
  <1>2. ASSUME NEW c \in Callers, Locking(c) PROVE Room'
    BY <1>a, <1>2, LiveSame
       DEF Locking, Stays, Becomes, Has, SameStore, Unlock, Room, TaskAt, Decided
  <1>3. ASSUME NEW c \in Callers, Checking(c) PROVE Room'
    BY <1>a, <1>3, LiveSame DEF Checking, Becomes, Has, SameStore, Unlock, Room, TaskAt, Decided
  <1>4. ASSUME NEW c \in Callers, Counting(c) PROVE Room'
    <2>1. \/ ~(Cardinality(Live) >= MaxChildren)
          \/ caller'[c].pc = "idle"
      BY <1>4, Zenon DEF Counting, Idles, Stays, Becomes, Has
    <2>2. \A d \in Callers \ {c} : caller'[d] = caller[d]
      BY <1>4, Zenon DEF Counting, Idles, Stays, Becomes
    <2>3. row' = row
      BY <1>4, Zenon DEF Counting, SameStore
    <2>4. Live' = Live
      BY <2>3 DEF Live
    <2>5. ~(Cardinality(Live) >= MaxChildren) => Cardinality(Live) < MaxChildren
      BY LiveFinite, FanOut
    <2> QED
      BY <1>a, <2>1, <2>2, <2>4, <2>5 DEF Room, TaskAt, Decided
  <1>5. ASSUME NEW c \in Callers, Ensuring(c) PROVE Room'
    BY <1>a, <1>5, LiveSame DEF Ensuring, Becomes, Has, SameStore, Unlock, Room, TaskAt, Decided
  <1>6. ASSUME NEW c \in Callers, Creating(c) PROVE Room'
    BY <1>a, <1>6, LiveSame
       DEF Creating, Stays, Becomes, Has, SameStore, Unlock, Room, TaskAt, Decided
  <1>7. ASSUME NEW c \in Callers, Admits(c) PROVE Room'
    <2>1. /\ caller'[c].pc \in {"idle", "recover", "answered"}
          /\ \A d \in Callers \ {c} : caller'[d] = caller[d]
      BY <1>7 DEF Admits, Idles, Stays, Becomes, Has
    <2>2. CASE Cardinality(Live') <= Cardinality(Live)
      BY <1>a, <1>b, <2>1, <2>2, LiveFinite, FanOut DEF Room, TaskAt, Decided
    <2>3. CASE \E e \in Callers : AddsChild(e)
      <3>1. PICK e \in Callers : AddsChild(e)
        BY <2>3
      <3>2. \A d \in Callers \ {e} : ~TaskAt(d, Decided)
        BY <1>a, <3>1 DEF Exclusive, AddsChild, TaskAt, Locked, Decided
      <3>3. \A d \in Callers : ~(caller'[d].req.task /\ caller'[d].pc \in Decided)
        BY <3>1, <3>2 DEF AddsChild, TaskAt, Decided
      <3> QED
        BY <3>3 DEF Room, TaskAt
    <2> QED
      BY <1>b, <2>2, <2>3
  <1>8. ASSUME NEW c \in Callers, Recovering(c) PROVE Room'
    BY <1>a, <1>8, LiveSame
       DEF Recovering, Becomes, Has, SameStore, Unlock, Room, TaskAt, Decided
  <1>9. ASSUME NEW c \in Callers, Failing(c) PROVE Room'
    <2>1. /\ caller'[c].pc \in {"idle", "recover", "answered"}
          /\ \A d \in Callers \ {c} : caller'[d] = caller[d]
      BY <1>9 DEF Failing, Idles, Becomes, Has
    <2>2. CASE Cardinality(Live') <= Cardinality(Live)
      BY <1>a, <1>b, <2>1, <2>2, LiveFinite, FanOut DEF Room, TaskAt, Decided
    <2>3. CASE \E e \in Callers : AddsChild(e)
      <3>1. PICK e \in Callers : AddsChild(e)
        BY <2>3
      <3>2. \A d \in Callers \ {e} : ~TaskAt(d, Decided)
        BY <1>a, <3>1 DEF Exclusive, AddsChild, TaskAt, Locked, Decided
      <3>3. \A d \in Callers : ~(caller'[d].req.task /\ caller'[d].pc \in Decided)
        BY <3>1, <3>2 DEF AddsChild, TaskAt, Decided
      <3> QED
        BY <3>3 DEF Room, TaskAt
    <2> QED
      BY <1>b, <2>2, <2>3
  <1>10. ASSUME NEW i \in Ids, Settling(i) PROVE Room'
    <2>1. Live' \subseteq Live
      BY <1>10, Called DEF Settling, Live
    <2>2. Cardinality(Live') <= Cardinality(Live) /\ caller' = caller
      BY <1>10, <2>1, FewerLive DEF Settling
    <2> QED
      BY <1>a, <1>b, <2>2, LiveFinite, FanOut DEF Room, TaskAt, Decided
  <1>11. CASE Crashing
    BY <1>a, <1>11, <1>b DEF Crashing, Becomes, Has, SameStore, Unlock, Room, TaskAt, Decided
  <1>12. CASE Resting
    BY <1>a, <1>12, LiveSame DEF Resting, Becomes, Has, SameStore, Unlock, Room, TaskAt, Decided
  <1> QED
    BY <1>1, <1>2, <1>3, <1>4, <1>5, <1>6, <1>7, <1>8, <1>9, <1>10, <1>11, <1>12, StepCases

(* A child is admitted where there was room. *)
LEMMA FanOutStep ==
  ASSUME Invariant, [Next]_vars
  PROVE  FanOutBounded'
  <1>1. Room /\ FanOutBounded
    BY Zenon DEF Invariant
  <1>2. Cardinality(Live') \in Nat /\ Cardinality(Live) \in Nat /\ MaxChildren \in Nat
    BY LiveStep, LiveFinite, FanOut
  <1>3. CASE Cardinality(Live') <= Cardinality(Live)
    BY <1>1, <1>2, <1>3 DEF FanOutBounded
  <1>4. ASSUME NEW c \in Callers, AddsChild(c)
        PROVE  FanOutBounded'
    <2>1. Cardinality(Live) < MaxChildren
      BY <1>1, <1>4 DEF Room, AddsChild, TaskAt, Decided
    <2> QED
      BY <1>2, <1>4, <2>1 DEF FanOutBounded, AddsChild
  <1> QED
    BY <1>3, <1>4, LiveStep

----------------------------------------------------------------------------
(* The invariant is inductive. *)
LEMMA InvariantInit == Init => Invariant
  <1> SUFFICES ASSUME Init PROVE Invariant
    OBVIOUS
  <1>1. TypeOK
    BY TypeInit
  <1>2. /\ \A c \in Callers : caller[c] = IdleCaller
        /\ \A i \in Ids : ~Present(i)
        /\ opened = [k \in Keys |-> <<>>]
    BY DEF Init, Present, NoRow
  <1>3. IdleCaller.pc = "idle" /\ ~IdleCaller.replay /\ ~IdleCaller.created /\ ~IdleCaller.req.task
    BY DEF IdleCaller, NoRequest
  <1>4. Live = {}
    BY <1>2, Called DEF Live, Present
  <1>5. FanOutBounded
    BY <1>4, FS_EmptySet, FanOut DEF FanOutBounded
  <1>6. Locals /\ Exclusive /\ Fresh /\ Kept /\ Room
    BY <1>2, <1>3 DEF Locals, Exclusive, Fresh, Kept, Room, TaskAt
  <1>7. RowKeys /\ Unopened /\ Created /\ Opening /\ OneOpener /\ Moved
    BY <1>2, <1>3, Called DEF RowKeys, Unopened, Created, Opening, OneOpener, Moved, TaskAt, At
  <1>8. Refs /\ Admitting /\ Receipts
    BY <1>2, <1>3, Called DEF Refs, Admitting, Receipts, Received, TaskAt, At
  <1> QED
    BY <1>1, <1>5, <1>6, <1>7, <1>8, Zenon DEF Invariant

LEMMA InvariantStep ==
  ASSUME Invariant, [Next]_vars
  PROVE  Invariant'
  <1>1. TypeOK' /\ Locals' /\ Exclusive' /\ Fresh' /\ Kept' /\ Room' /\ FanOutBounded'
    BY TypeStep, LocalsStep, ExclusiveStep, FreshStep, KeptStep, RoomStep, FanOutStep
  <1>2. RowKeys' /\ Unopened' /\ Created' /\ Opening' /\ OneOpener' /\ Moved'
    BY RowKeysStep, UnopenedStep, CreatedStep, OpeningStep, OneOpenerStep, MovedStep
  <1>3. Refs' /\ Admitting' /\ Receipts'
    BY RefsStep, AdmittingStep, ReceiptsStep
  <1> QED
    BY <1>1, <1>2, <1>3, Zenon DEF Invariant

(* In every reachable state of dispatches that interleave, fail and are
   repeated, what the mutex of taskTool.admit protects is what its holder read. *)
THEOREM InvariantHolds == Spec => []Invariant
  <1>1. Init => Invariant
    BY InvariantInit
  <1>2. Invariant /\ [Next]_vars => Invariant'
    BY InvariantStep
  <1> QED
    BY <1>1, <1>2, PTL DEF Spec

(* The variables keep their types, and no conversation gets a second
   conversation_created record (Runtime.Dispatch appends one only when
   EnsureConversation has made the conversation). *)
THEOREM TypeCorrect == Spec => []TypeOK
  <1>1. Invariant => TypeOK
    BY Zenon DEF Invariant
  <1> QED
    BY <1>1, InvariantHolds, PTL

(* However many task calls there are, and whatever fails, a run never has more
   live children than MaxChildrenPerRun: taskTool.admit counts and admits under
   one lock. *)
THEOREM FanOutIsBounded == Spec => []FanOutBounded
  <1>1. Invariant => FanOutBounded
    BY Zenon DEF Invariant
  <1> QED
    BY <1>1, InvariantHolds, PTL

(* A receipt of Runtime.Dispatch names the conversation and the input of the
   stored row, and the spawn record id of a task call's receipt is the one the
   child conversation points back to (childSpawnRecordID). *)
THEOREM ReceiptsDoAgree == Spec => []ReceiptsAgree
  <1>1. Invariant => ReceiptsAgree
    <2> SUFFICES ASSUME Invariant, NEW c \in Callers, At(c, "answered")
                 PROVE  LET r == caller[c].req
                            key == caller[c].named
                            refs == opened[key]
                        IN /\ row[r.id].key = key /\ row[r.id].input = r.input
                           /\ r.task /\ key \notin torn /\ refs # <<>> =>
                                Head(refs) \in {0, caller[c].spawn}
      BY DEF ReceiptsAgree
    <2>1. Received(c)
      BY DEF Invariant, Receipts
    <2> QED
      BY <2>1 DEF Received, Names, At
  <1> QED
    BY <1>1, InvariantHolds, PTL
=============================================================================
