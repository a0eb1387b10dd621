--------------------------- MODULE SequenceFacts ---------------------------
(*****************************************************************************)
(* Lemmas about numbers and sequences: induction over data, with the         *)
(* property as a set, and what Only keeps of a sequence.                     *)
(*****************************************************************************)
EXTENDS Selections, Integers, WellFoundedInduction, SequenceTheorems, TLAPS

LessThan == {p \in Nat \X Nat : p[1] < p[2]}

(* The numbers below a number run out: the one fact of WellFoundedInduction
   that inductions over data need here. *)
LEMMA LessThanWellFounded == IsWellFoundedOn(LessThan, Nat)
  BY NatLessThanWellFounded DEF OpToRel, LessThan

(* Every set of numbers that is not empty has a least one. *)
LEMMA LeastNumber ==
  ASSUME NEW T \in SUBSET Nat, T # {}
  PROVE  \E x \in T : \A y \in T : x <= y
<1>1. PICK x \in T : \A y \in T : <<y, x>> \notin LessThan
  BY LessThanWellFounded, WFMin
<1>2. \A y \in T : ~ (y < x)
  BY <1>1 DEF LessThan
<1>. QED BY <1>2

(* Induction, with the numbers that have the property as a set: the theorems
   of NaturalsInduction take the property as an operator. *)
LEMMA Induction ==
  ASSUME NEW P, 0 \in P, \A n \in Nat : n \in P => n + 1 \in P
  PROVE  Nat \subseteq P
<1>. SUFFICES ASSUME Nat \ P # {} PROVE FALSE
  OBVIOUS
<1>1. PICK x \in Nat \ P : \A y \in Nat \ P : x <= y
  BY LeastNumber
<1>2. x # 0
  OBVIOUS
<1>3. x - 1 \in Nat /\ ~(x <= x - 1) /\ (x - 1) + 1 = x
  BY <1>2
<1>4. x - 1 \in P
  BY <1>1, <1>3
<1>. QED
  BY <1>3, <1>4

(* Induction over the numbers 0 .. n. *)
LEMMA InductionUpTo ==
  ASSUME NEW n \in Nat, NEW P, 0 \in P,
         \A i \in 0 .. n - 1 : i \in P => i + 1 \in P
  PROVE  \A i \in 0 .. n : i \in P
<1>. DEFINE Q == {i \in Nat : i <= n => i \in P}
<1>1. 0 \in Q
  OBVIOUS
<1>2. \A i \in Nat : i \in Q => i + 1 \in Q
  <2>. TAKE i \in Nat
  <2>. HAVE i \in Q
  <2>. SUFFICES ASSUME i + 1 <= n PROVE i + 1 \in P
    OBVIOUS
  <2>1. i \in 0 .. n - 1
    OBVIOUS
  <2>. QED
    BY <2>1
<1>. HIDE DEF Q
<1>3. Nat \subseteq Q
  BY <1>1, <1>2, Induction
<1>. QED
  BY <1>3 DEF Q

(* What holds at the start of a chain and passes from each element to the
   next holds all along it. *)
LEMMA Along ==
  ASSUME NEW n \in Nat, NEW f, NEW P, f[0] \in P,
         \A i \in 1 .. n : f[i - 1] \in P => f[i] \in P
  PROVE  \A i \in 0 .. n : f[i] \in P
<1>. DEFINE Q == {i \in 0 .. n : f[i] \in P}
<1>1. 0 \in Q
  OBVIOUS
<1>2. \A i \in 0 .. n - 1 : i \in Q => i + 1 \in Q
  <2>. TAKE i \in 0 .. n - 1
  <2>. HAVE i \in Q
  <2>1. i + 1 \in 1 .. n /\ i + 1 \in 0 .. n /\ (i + 1) - 1 = i
    OBVIOUS
  <2>2. f[i + 1] \in P
    BY <2>1
  <2>. QED
    BY <2>1, <2>2
<1>. HIDE DEF Q
<1>3. \A i \in 0 .. n : i \in Q
  BY <1>1, <1>2, InductionUpTo
<1>. QED
  BY <1>3 DEF Q

Iterates(f, n, S, base, step) ==
  /\ f \in [0 .. n -> S]
  /\ f[0] = base
  /\ \A i \in 1 .. n : f[i] = step[i][f[i - 1]]

(* A recursive function over 0 .. n exists: what allows its defining equation
   to be used. *)
LEMMA Iteration ==
  ASSUME NEW S, NEW n \in Nat, NEW base \in S, NEW step \in [1 .. n -> [S -> S]]
  PROVE  \E f : Iterates(f, n, S, base, step)
<1>. DEFINE Value(g, i) == IF i = 0 THEN base ELSE step[i][g[i - 1]]
            P == {k \in Nat : \E g \in [0 .. k -> S] : \A i \in 0 .. k : g[i] = Value(g, i)}
<1>1. 0 \in P
  <2>. DEFINE g == [i \in 0 .. 0 |-> base]
  <2>1. g \in [0 .. 0 -> S] /\ \A i \in 0 .. 0 : g[i] = Value(g, i)
    OBVIOUS
  <2>. QED
    BY <2>1
<1>2. \A k \in 0 .. n - 1 : k \in P => k + 1 \in P
  <2>. TAKE k \in 0 .. n - 1
  <2>. HAVE k \in P
  <2>1. PICK g \in [0 .. k -> S] : \A i \in 0 .. k : g[i] = Value(g, i)
    OBVIOUS
  <2>. DEFINE h == [i \in 0 .. k + 1 |-> IF i = k + 1 THEN step[k + 1][g[k]] ELSE g[i]]
  <2>2. h \in [0 .. k + 1 -> S]
    <3>1. step[k + 1][g[k]] \in S
      OBVIOUS
    <3>. QED
      BY <3>1
  <2>3. ASSUME NEW i \in 0 .. k + 1 PROVE h[i] = Value(h, i)
    <3>1. CASE i = k + 1
      <4>1. h[i] = step[k + 1][g[k]]
        BY <3>1
      <4>2. i # 0 /\ i - 1 = k /\ k \in 0 .. k + 1 /\ k # k + 1
        BY <3>1
      <4>3. h[i - 1] = g[k]
        BY <4>2
      <4>. QED
        BY <4>1, <4>2, <4>3, <3>1
    <3>2. CASE i \in 0 .. k
      <4>1. h[i] = g[i]
        BY <3>2
      <4>2. CASE i = 0
        BY <4>1, <4>2, <3>2, <2>1
      <4>3. CASE i # 0
        <5>1. i - 1 \in 0 .. k /\ h[i - 1] = g[i - 1]
          BY <4>3, <3>2
        <5>. QED
          BY <4>1, <4>3, <5>1, <3>2, <2>1
      <4>. QED
        BY <4>2, <4>3
    <3>. QED
      BY <3>1, <3>2
  <2>. HIDE DEF h
  <2>. QED
    BY <2>2, <2>3
<1>. HIDE DEF P
<1>3. n \in P
  <2>1. n \in 0 .. n
    OBVIOUS
  <2>. QED
    BY <1>1, <1>2, <2>1, InductionUpTo
<1>4. PICK f \in [0 .. n -> S] : \A i \in 0 .. n : f[i] = Value(f, i)
  BY <1>3 DEF P
<1>5. f[0] = base /\ \A i \in 1 .. n : f[i] = step[i][f[i - 1]]
  <2>1. 0 \in 0 .. n /\ \A i \in 1 .. n : i \in 0 .. n /\ i # 0
    OBVIOUS
  <2>. QED
    BY <1>4, <2>1
<1>. QED
  BY <1>5 DEF Iterates

Collects(f, n, s, S, T) ==
  /\ f \in [0 .. n -> Seq(S)]
  /\ f[0] = <<>>
  /\ \A i \in 1 .. n : f[i] = Keep(f[i - 1], s[i], T)

(* Only runs through the sequence once and keeps what is wanted. *)
LEMMA OnlyDef ==
  ASSUME NEW S, NEW s \in Seq(S), NEW T
  PROVE  \E f : Collects(f, Len(s), s, S, T) /\ Only(s, T) = f[Len(s)]
<1>. DEFINE n == Len(s)
            step == [i \in 1 .. n |-> [seq \in Seq(S) |-> Keep(seq, s[i], T)]]
            out[i \in 0 .. n] == IF i = 0 THEN <<>> ELSE Keep(out[i - 1], s[i], T)
            empty == <<>>
<1>. HIDE DEF n, step, out, empty
<1>1. n \in Nat /\ empty \in Seq(S) /\ \A i \in 1 .. n : s[i] \in S
  BY DEF n, empty
<1>2. \A i \in 1 .. n, seq \in Seq(S) : Keep(seq, s[i], T) \in Seq(S)
  BY <1>1 DEF Keep
<1>3. step \in [1 .. n -> [Seq(S) -> Seq(S)]]
  BY <1>2 DEF step
<1>4. PICK f : Iterates(f, n, Seq(S), empty, step)
  BY <1>1, <1>3, Iteration
<1>5. f = [i \in 0 .. n |-> IF i = 0 THEN empty ELSE Keep(f[i - 1], s[i], T)]
  <2>1. ASSUME NEW i \in 0 .. n, i # 0 PROVE f[i] = Keep(f[i - 1], s[i], T)
    <3>1. i \in 1 .. n /\ f[i - 1] \in Seq(S)
      BY <1>1, <1>4, <2>1 DEF Iterates
    <3>. QED
      BY <3>1, <1>4 DEF Iterates, step
  <2>. QED
    BY <1>4, <2>1 DEF Iterates
<1>6. out = [i \in 0 .. n |-> IF i = 0 THEN empty ELSE Keep(out[i - 1], s[i], T)]
  BY <1>5 DEF out, empty
<1>7. /\ out[0] = empty
      /\ \A i \in 1 .. n : out[i] = Keep(out[i - 1], s[i], T)
  <2>1. 0 \in 0 .. n /\ \A i \in 1 .. n : i \in 0 .. n /\ i # 0
    BY <1>1
  <2>. QED
    BY <1>6, <2>1
<1>8. \A i \in 0 .. n : out[i] \in Seq(S)
  <2>. DEFINE all == Seq(S)
  <2>1. /\ empty \in all
        /\ \A i \in 1 .. n : out[i - 1] \in all => out[i] \in all
    BY <1>1, <1>2, <1>7
  <2>. HIDE DEF all
  <2>2. \A i \in 0 .. n : out[i] \in all
    BY <1>1, <1>7, <2>1, Along
  <2>. QED
    BY <2>2 DEF all
<1>9. out \in [0 .. n -> Seq(S)]
  BY <1>6, <1>8
<1>10. Only(s, T) = out[n]
  BY DEF Only, out, n
<1>. QED
  BY <1>7, <1>9, <1>10 DEF n, empty, Collects

(* Nothing is kept of an empty sequence. *)
LEMMA OnlyOfNone ==
  ASSUME NEW T
  PROVE  Only(<<>>, T) = <<>>
<1>. DEFINE none == <<>>
<1>1. none \in Seq({}) /\ Len(none) = 0
  OBVIOUS
<1>. HIDE DEF none
<1>2. PICK f : Collects(f, Len(none), none, {}, T) /\ Only(none, T) = f[Len(none)]
  BY <1>1, OnlyDef
<1>. QED
  BY <1>1, <1>2 DEF none, Collects

(* What is kept is of the sequence and is wanted. *)
LEMMA OnlyType ==
  ASSUME NEW S, NEW s \in Seq(S), NEW T
  PROVE  Only(s, T) \in Seq(S \cap T)
<1>. DEFINE n == Len(s)
            all == Seq(S \cap T)
<1>1. n \in Nat /\ \A i \in 1 .. n : s[i] \in S
  OBVIOUS
<1>2. PICK f : Collects(f, n, s, S, T) /\ Only(s, T) = f[n]
  BY OnlyDef
<1>. HIDE DEF n
<1>3. f[0] \in all
  BY <1>2 DEF Collects
<1>4. ASSUME NEW i \in 1 .. n, f[i - 1] \in all PROVE f[i] \in all
  <2>1. f[i] = Keep(f[i - 1], s[i], T) /\ s[i] \in S
    BY <1>1, <1>2 DEF Collects
  <2>2. CASE s[i] \in T
    <3>1. f[i] = Append(f[i - 1], s[i]) /\ s[i] \in S \cap T
      BY <2>1, <2>2 DEF Keep
    <3>. QED
      BY <1>4, <3>1, AppendProperties
  <2>3. CASE s[i] \notin T
    BY <1>4, <2>1, <2>3 DEF Keep
  <2>. QED
    BY <2>2, <2>3
<1>. HIDE DEF all
<1>5. \A i \in 0 .. n : f[i] \in all
  BY <1>1, <1>3, <1>4, Along
<1>6. n \in 0 .. n
  BY <1>1
<1>. QED
  BY <1>2, <1>5, <1>6 DEF all

(* One more element is kept, at the end, or dropped. *)
LEMMA OnlyAppend ==
  ASSUME NEW S, NEW s \in Seq(S), NEW e \in S, NEW T
  PROVE  Only(Append(s, e), T) = Keep(Only(s, T), e, T)
<1>. DEFINE n == Len(s)
            t == Append(s, e)
<1>1. /\ n \in Nat /\ t \in Seq(S) /\ Len(t) = n + 1 /\ t[n + 1] = e
      /\ \A i \in 1 .. n : t[i] = s[i]
  OBVIOUS
<1>. HIDE DEF n, t
<1>2. PICK f : Collects(f, n, s, S, T) /\ Only(s, T) = f[n]
  BY OnlyDef DEF n
<1>3. PICK g : Collects(g, n + 1, t, S, T) /\ Only(t, T) = g[n + 1]
  BY <1>1, OnlyDef
<1>. DEFINE P == {i \in 0 .. n : g[i] = f[i]}
<1>4. 0 \in P
  BY <1>1, <1>2, <1>3 DEF Collects
<1>5. \A i \in 0 .. n - 1 : i \in P => i + 1 \in P
  <2>. TAKE i \in 0 .. n - 1
  <2>. HAVE i \in P
  <2>1. i + 1 \in 1 .. n /\ i + 1 \in 1 .. n + 1 /\ (i + 1) - 1 = i /\ i + 1 \in 0 .. n
    BY <1>1
  <2>. QED
    BY <1>1, <1>2, <1>3, <2>1 DEF Collects
<1>. HIDE DEF P
<1>6. n \in P
  <2>1. \A i \in 0 .. n : i \in P
    BY <1>1, <1>4, <1>5, InductionUpTo
  <2>. QED
    BY <1>1, <2>1
<1>7. n + 1 \in 1 .. n + 1 /\ (n + 1) - 1 = n
  BY <1>1
<1>. QED
  BY <1>1, <1>2, <1>3, <1>6, <1>7 DEF P, t, Collects

(* Two sets that agree on the elements of the sequence keep the same of it. *)
LEMMA OnlySame ==
  ASSUME NEW S, NEW s \in Seq(S), NEW T, NEW U,
         \A i \in 1 .. Len(s) : s[i] \in T <=> s[i] \in U
  PROVE  Only(s, T) = Only(s, U)
<1>. DEFINE n == Len(s)
<1>1. n \in Nat /\ \A i \in 1 .. n : s[i] \in T <=> s[i] \in U
  OBVIOUS
<1>. HIDE DEF n
<1>2. PICK f : Collects(f, n, s, S, T) /\ Only(s, T) = f[n]
  BY OnlyDef DEF n
<1>3. PICK g : Collects(g, n, s, S, U) /\ Only(s, U) = g[n]
  BY OnlyDef DEF n
<1>. DEFINE P == {i \in 0 .. n : g[i] = f[i]}
<1>4. 0 \in P
  BY <1>1, <1>2, <1>3 DEF Collects
<1>5. \A i \in 0 .. n - 1 : i \in P => i + 1 \in P
  <2>. TAKE i \in 0 .. n - 1
  <2>. HAVE i \in P
  <2>1. i + 1 \in 1 .. n /\ (i + 1) - 1 = i /\ i + 1 \in 0 .. n
    BY <1>1
  <2>2. f[i + 1] = Keep(f[i], s[i + 1], T) /\ g[i + 1] = Keep(f[i], s[i + 1], U)
    BY <1>2, <1>3, <2>1 DEF Collects
  <2>. QED
    BY <1>1, <2>1, <2>2 DEF Keep
<1>. HIDE DEF P
<1>6. n \in P
  <2>1. \A i \in 0 .. n : i \in P
    BY <1>1, <1>4, <1>5, InductionUpTo
  <2>. QED
    BY <1>1, <2>1
<1>. QED
  BY <1>2, <1>3, <1>6 DEF P

(* When the wanted elements are the last ones, what is kept is the rest of
   the sequence from there. *)
LEMMA OnlyTheLast ==
  ASSUME NEW S, NEW s \in Seq(S), NEW T, NEW k \in 0 .. Len(s),
         \A i \in 1 .. k : s[i] \notin T,
         \A i \in k + 1 .. Len(s) : s[i] \in T
  PROVE  Only(s, T) = SubSeq(s, k + 1, Len(s))
<1>. DEFINE n == Len(s)
<1>1. n \in Nat /\ \A i \in 1 .. n : s[i] \in S
  OBVIOUS
<1>. HIDE DEF n
<1>2. PICK f : Collects(f, n, s, S, T) /\ Only(s, T) = f[n]
  BY OnlyDef DEF n
<1>. DEFINE P == {i \in 0 .. n : f[i] = SubSeq(s, k + 1, i)}
<1>3. 0 \in P
  <2>1. SubSeq(s, k + 1, 0) = <<>>
    BY SubSeqEmpty
  <2>. QED
    BY <1>1, <1>2, <2>1 DEF Collects
<1>4. \A i \in 0 .. n - 1 : i \in P => i + 1 \in P
  <2>. TAKE i \in 0 .. n - 1
  <2>. HAVE i \in P
  <2>1. i + 1 \in 1 .. n /\ (i + 1) - 1 = i /\ i + 1 \in 0 .. n
    BY <1>1
  <2>2. f[i + 1] = Keep(SubSeq(s, k + 1, i), s[i + 1], T)
    BY <1>2, <2>1 DEF Collects
  <2>3. CASE i + 1 <= k
    <3>1. s[i + 1] \notin T
      BY <2>3
    <3>2. SubSeq(s, k + 1, i) = <<>> /\ SubSeq(s, k + 1, i + 1) = <<>>
      BY <2>3, SubSeqEmpty
    <3>. QED
      BY <2>1, <2>2, <3>1, <3>2 DEF Keep
  <2>4. CASE k + 1 <= i + 1
    <3>1. s[i + 1] \in T
      BY <1>1, <2>4 DEF n
    <3>2. SubSeq(s, k + 1, i + 1) = SubSeq(s, k + 1, (i + 1) - 1) \o <<s[i + 1]>>
      BY <1>1, <2>1, <2>4, SubSeqRecursiveSecond DEF n
    <3>3. SubSeq(s, k + 1, i) \in Seq(S)
      BY <1>1, <1>2 DEF Collects
    <3>4. Append(SubSeq(s, k + 1, i), s[i + 1]) = SubSeq(s, k + 1, i) \o <<s[i + 1]>>
      BY <1>1, <2>1, <3>3, AppendIsConcat
    <3>. QED
      BY <2>1, <2>2, <3>1, <3>2, <3>4 DEF Keep
  <2>. QED
    BY <2>3, <2>4
<1>. HIDE DEF P
<1>5. n \in P
  <2>1. \A i \in 0 .. n : i \in P
    BY <1>1, <1>3, <1>4, InductionUpTo
  <2>. QED
    BY <1>1, <2>1
<1>. QED
  BY <1>2, <1>5 DEF P, n

Increasing(p) == \A i, j \in 1 .. Len(p) : i < j => p[i] < p[j]

(* The wanted numbers among 1 .. n, kept in order, are the increasing
   sequence of these numbers. *)
LEMMA OnlyInOrder ==
  ASSUME NEW n \in Nat, NEW T, NEW p \in Seq(Nat), Increasing(p),
         \A i \in 1 .. Len(p) : p[i] \in 1 .. n,
         \A x \in 1 .. n : x \in T <=> \E i \in 1 .. Len(p) : p[i] = x
  PROVE  Only([i \in 1 .. n |-> i], T) = p
<1>. DEFINE s == [i \in 1 .. n |-> i]
            size == Len(p)
<1>1. s \in Seq(Nat) /\ Len(s) = n /\ \A i \in 1 .. n : s[i] = i
  OBVIOUS
<1>2. size \in Nat /\ \A i \in 1 .. size : p[i] \in 1 .. n
  OBVIOUS
<1>3. \A i, j \in 1 .. size : i < j => p[i] < p[j]
  BY DEF Increasing
<1>. HIDE DEF s, size
<1>4. PICK f : Collects(f, n, s, Nat, T) /\ Only(s, T) = f[n]
  BY <1>1, OnlyDef
<1>. DEFINE Upto(i, c) == /\ f[i] = SubSeq(p, 1, c)
                          /\ \A m \in 1 .. size : p[m] <= i <=> m <= c
            P == {i \in 0 .. n : \E c \in 0 .. size : Upto(i, c)}
<1>5. 0 \in P
  <2>1. f[0] = SubSeq(p, 1, 0)
    BY <1>4, SubSeqEmpty DEF Collects
  <2>2. \A m \in 1 .. size : ~(p[m] <= 0) /\ ~(m <= 0)
    BY <1>2
  <2>3. Upto(0, 0) /\ 0 \in 0 .. size /\ 0 \in 0 .. n
    BY <1>2, <2>1, <2>2
  <2>. HIDE DEF Upto
  <2>. QED
    BY <2>3
<1>6. \A i \in 0 .. n - 1 : i \in P => i + 1 \in P
  <2>. TAKE i \in 0 .. n - 1
  <2>. HAVE i \in P
  <2>1. PICK c \in 0 .. size : Upto(i, c)
    OBVIOUS
  <2>2. i + 1 \in 1 .. n /\ i + 1 \in 0 .. n /\ (i + 1) - 1 = i
    OBVIOUS
  <2>3. f[i + 1] = Keep(SubSeq(p, 1, c), i + 1, T)
    <3>1. f[i] = SubSeq(p, 1, c) /\ s[i + 1] = i + 1
      BY <1>1, <2>1, <2>2
    <3>2. f[i + 1] = Keep(f[i], s[i + 1], T)
      BY <1>4, <2>2 DEF Collects
    <3>. QED
      BY <3>1, <3>2
  <2>4. CASE i + 1 \in T
    <3>1. PICK m \in 1 .. size : p[m] = i + 1
      BY <2>2, <2>4 DEF size
    <3>2. ~(m <= c) /\ c + 1 \in 1 .. size
      BY <1>2, <2>1, <3>1
    <3>3. ~(p[c + 1] <= i)
      BY <1>2, <2>1, <3>2
    <3>4. m = c + 1
      BY <1>2, <1>3, <3>1, <3>2, <3>3
    <3>5. \A l \in 1 .. size : p[l] <= i + 1 <=> l <= c + 1
      <4>. TAKE l \in 1 .. size
      <4>1. l < m => p[l] < i + 1
        BY <1>3, <3>1
      <4>2. m < l => i + 1 < p[l]
        BY <1>3, <3>1
      <4>3. l = m => p[l] = i + 1
        BY <3>1
      <4>4. l \in Nat /\ p[l] \in Nat /\ c \in Nat /\ i \in Nat
        BY <1>2
      <4>. QED
        BY <3>4, <4>1, <4>2, <4>3, <4>4
    <3>6. f[i + 1] = Append(SubSeq(p, 1, c), p[c + 1])
      BY <2>3, <2>4, <3>1, <3>4 DEF Keep
    <3>7. SubSeq(p, 1, c + 1) = SubSeq(p, 1, (c + 1) - 1) \o <<p[c + 1]>>
      BY <1>2, <3>2, SubSeqRecursiveSecond DEF size
    <3>8. SubSeq(p, 1, c) \in Seq(Nat) /\ p[c + 1] \in Nat
      <4>1. f[i] \in Seq(Nat)
        BY <1>4 DEF Collects
      <4>. QED
        BY <1>2, <2>1, <3>2, <4>1
    <3>9. f[i + 1] = SubSeq(p, 1, c + 1)
      BY <3>2, <3>6, <3>7, <3>8, AppendIsConcat
    <3>10. Upto(i + 1, c + 1) /\ c + 1 \in 0 .. size
      BY <3>2, <3>5, <3>9
    <3>. HIDE DEF Upto
    <3>. QED
      BY <2>2, <3>10
  <2>5. CASE i + 1 \notin T
    <3>1. \A m \in 1 .. size : p[m] # i + 1
      BY <2>2, <2>5 DEF size
    <3>2. \A m \in 1 .. size : p[m] <= i + 1 <=> m <= c
      BY <1>2, <2>1, <3>1
    <3>3. f[i + 1] = SubSeq(p, 1, c)
      BY <2>3, <2>5 DEF Keep
    <3>. QED
      BY <2>2, <3>2, <3>3
  <2>. QED
    BY <2>4, <2>5
<1>. HIDE DEF P
<1>7. n \in P
  <2>1. \A i \in 0 .. n : i \in P
    BY <1>5, <1>6, InductionUpTo
  <2>. QED
    BY <2>1
<1>8. PICK c \in 0 .. size : Upto(n, c)
  BY <1>7 DEF P
<1>9. c = size
  <2>1. CASE size = 0
    BY <2>1
  <2>2. CASE size # 0
    <3>1. size \in 1 .. size /\ p[size] <= n
      BY <1>2, <2>2
    <3>2. size <= c
      BY <1>8, <3>1
    <3>. QED
      BY <1>2, <3>2
  <2>. QED
    BY <2>1, <2>2
<1>10. SubSeq(p, 1, size) = p
  BY SubSeqFull DEF size
<1>. QED
  BY <1>4, <1>8, <1>9, <1>10 DEF s

Found(out, m, s, j, T) ==
  /\ m <= j /\ out[m] = s[j] /\ s[j] \in T
  /\ \A h \in 1 .. j - 1 : s[h] \in T => \E l \in 1 .. m - 1 : out[l] = s[h]
  /\ \A l \in 1 .. m - 1 : \E h \in 1 .. j - 1 : out[l] = s[h]

(* Every element that is kept comes from a place of the sequence, with as
   many wanted ones before it, and every wanted element is kept. *)
LEMMA OnlyFinds ==
  ASSUME NEW S, NEW s \in Seq(S), NEW T
  PROVE  /\ \A m \in 1 .. Len(Only(s, T)) : \E j \in 1 .. Len(s) : Found(Only(s, T), m, s, j, T)
         /\ \A h \in 1 .. Len(s) : s[h] \in T =>
              \E m \in 1 .. Len(Only(s, T)) : Only(s, T)[m] = s[h]
<1>. DEFINE n == Len(s)
<1>1. n \in Nat /\ \A i \in 1 .. n : s[i] \in S
  OBVIOUS
<1>. HIDE DEF n
<1>2. PICK f : Collects(f, n, s, S, T) /\ Only(s, T) = f[n]
  BY OnlyDef DEF n
<1>. DEFINE Complete(i) ==
              /\ \A m \in 1 .. Len(f[i]) : \E j \in 1 .. i : Found(f[i], m, s, j, T)
              /\ \A h \in 1 .. i : s[h] \in T => \E m \in 1 .. Len(f[i]) : f[i][m] = s[h]
              /\ Len(f[i]) <= i
            P == {i \in 0 .. n : Complete(i)}
<1>3. 0 \in P
  <2>1. Len(f[0]) = 0
    BY <1>2 DEF Collects
  <2>. QED
    BY <1>1, <2>1
<1>4. \A i \in 0 .. n - 1 : i \in P => i + 1 \in P
  <2>. TAKE i \in 0 .. n - 1
  <2>. HAVE i \in P
  <2>1. i + 1 \in 1 .. n /\ i + 1 \in 0 .. n /\ (i + 1) - 1 = i /\ i \in 0 .. n /\ i \in Nat
    BY <1>1
  <2>2. f[i + 1] = Keep(f[i], s[i + 1], T) /\ s[i + 1] \in S /\ f[i] \in Seq(S)
    BY <1>1, <1>2, <2>1 DEF Collects
  <2>3. CASE s[i + 1] \in T
    <3>. DEFINE size == Len(f[i])
    <3>1. size \in Nat /\ size <= i
      BY <2>2
    <3>2. /\ Len(f[i + 1]) = size + 1
          /\ f[i + 1][size + 1] = s[i + 1]
          /\ \A m \in 1 .. size : f[i + 1][m] = f[i][m]
      BY <2>2, <2>3, AppendProperties DEF Keep
    <3>3. \A m \in 1 .. size : \E j \in 1 .. i : Found(f[i], m, s, j, T)
      OBVIOUS
    <3>4. \A h \in 1 .. i : s[h] \in T => \E m \in 1 .. size : f[i][m] = s[h]
      OBVIOUS
    <3>. HIDE DEF size
    <3>5. ASSUME NEW m \in 1 .. size PROVE \E j \in 1 .. i + 1 : Found(f[i + 1], m, s, j, T)
      <4>1. PICK j \in 1 .. i : Found(f[i], m, s, j, T)
        BY <3>3
      <4>2. \A l \in 1 .. m : f[i + 1][l] = f[i][l]
        BY <3>1, <3>2
      <4>3. Found(f[i + 1], m, s, j, T)
        BY <3>1, <4>1, <4>2 DEF Found
      <4>. QED
        BY <2>1, <4>3
    <3>6. Found(f[i + 1], size + 1, s, i + 1, T)
      <4>1. size + 1 <= i + 1 /\ (i + 1) - 1 = i /\ (size + 1) - 1 = size
        BY <2>1, <3>1
      <4>2. \A h \in 1 .. i : s[h] \in T => \E l \in 1 .. size : f[i + 1][l] = s[h]
        BY <3>2, <3>4
      <4>3. \A l \in 1 .. size : \E h \in 1 .. i : f[i + 1][l] = s[h]
        BY <3>2, <3>3 DEF Found
      <4>. QED
        BY <2>3, <3>2, <4>1, <4>2, <4>3 DEF Found
    <3>7. \A m \in 1 .. Len(f[i + 1]) : \E j \in 1 .. i + 1 : Found(f[i + 1], m, s, j, T)
      <4>. TAKE m \in 1 .. Len(f[i + 1])
      <4>1. m \in 1 .. size \/ m = size + 1
        BY <3>1, <3>2
      <4>2. i + 1 \in 1 .. i + 1
        BY <2>1
      <4>. QED
        BY <3>5, <3>6, <4>1, <4>2
    <3>8. \A h \in 1 .. i + 1 : s[h] \in T => \E m \in 1 .. Len(f[i + 1]) : f[i + 1][m] = s[h]
      <4>. TAKE h \in 1 .. i + 1
      <4>. HAVE s[h] \in T
      <4>1. CASE h \in 1 .. i
        <5>1. PICK m \in 1 .. size : f[i][m] = s[h]
          BY <3>4, <4>1
        <5>2. m \in 1 .. Len(f[i + 1]) /\ f[i + 1][m] = f[i][m]
          BY <3>1, <3>2
        <5>. QED
          BY <5>1, <5>2
      <4>2. CASE h = i + 1
        BY <3>1, <3>2, <4>2
      <4>. QED
        BY <2>1, <4>1, <4>2
    <3>9. Len(f[i + 1]) <= i + 1
      BY <2>1, <3>1, <3>2
    <3>. QED
      BY <2>1, <3>7, <3>8, <3>9
  <2>4. CASE s[i + 1] \notin T
    <3>1. f[i + 1] = f[i] /\ Len(f[i]) \in Nat
      BY <2>2, <2>4 DEF Keep
    <3>2. \A h \in 1 .. i + 1 : h \in 1 .. i \/ h = i + 1
      BY <2>1
    <3>3. \A j \in 1 .. i : j \in 1 .. i + 1
      BY <2>1
    <3>. QED
      BY <2>1, <2>4, <3>1, <3>2, <3>3
  <2>. QED
    BY <2>3, <2>4
<1>. HIDE DEF P
<1>5. n \in P
  <2>1. \A i \in 0 .. n : i \in P
    BY <1>1, <1>3, <1>4, InductionUpTo
  <2>. QED
    BY <1>1, <2>1
<1>. QED
  BY <1>2, <1>5 DEF P, n
=============================================================================
