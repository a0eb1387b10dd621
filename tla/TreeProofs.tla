----------------------------- MODULE TreeProofs -----------------------------
(*****************************************************************************)
(* Proofs about ConversationTree. The active path is a chain of links from   *)
(* its first record to the leaf (Linked): a record that cuts nothing         *)
(* extends it, a summary replaces its beginning. What a compaction under     *)
(* way knows of the path (ViewTrue, KeptTrue) outlives the records that      *)
(* others append, and no cut is made but its own.                            *)
(*****************************************************************************)
EXTENDS TreeInvariant, SequenceFacts

Entries == [kind : Kinds, kept : Nat]
Trees   == [parent : Seq(Nat), leaf : Nat]

Cutting(tree, rec) == rec.kind = "compaction" /\ rec.kept \in 1 .. Len(tree.parent)

Chains(tree, grown) ==
  LET n == Len(tree.parent)
  IN /\ Len(grown.parent) = n + 1 /\ grown.leaf = n + 1
     /\ grown.parent[n + 1] = tree.leaf
     /\ \A i \in 1 .. n : grown.parent[i] = tree.parent[i]

Roots(tree, kept, grown) ==
  LET n == Len(tree.parent)
  IN /\ Len(grown.parent) = n + 1 /\ grown.leaf = tree.leaf
     /\ grown.parent[n + 1] = 0 /\ grown.parent[kept] = n + 1
     /\ \A i \in 1 .. n : i # kept => grown.parent[i] = tree.parent[i]

(* A record is placed under the leaf; a summary with a first kept record is
   placed above that record and cuts it from what was before. *)
LEMMA PlaceGrows ==
  ASSUME NEW tree \in Trees, NEW rec \in Entries
  PROVE  /\ Place(tree, rec) \in Trees
         /\ ~Cutting(tree, rec) => Chains(tree, Place(tree, rec))
         /\ Cutting(tree, rec) => Roots(tree, rec.kept, Place(tree, rec))
<1>. DEFINE n == Len(tree.parent)
            id == n + 1
<1>1. /\ tree.parent \in Seq(Nat) /\ tree.leaf \in Nat /\ n \in Nat
      /\ rec.kept \in Nat
  BY DEF Trees, Entries
<1>2. (id - 1) = n
  BY <1>1
<1>3. CASE ~Cutting(tree, rec)
  <2>1. Place(tree, rec) = [parent |-> Append(tree.parent, tree.leaf), leaf |-> id]
    BY <1>2, <1>3 DEF Place, Cutting
  <2>2. /\ Append(tree.parent, tree.leaf) \in Seq(Nat)
        /\ Len(Append(tree.parent, tree.leaf)) = id
        /\ Append(tree.parent, tree.leaf)[id] = tree.leaf
        /\ \A i \in 1 .. n : Append(tree.parent, tree.leaf)[i] = tree.parent[i]
    BY <1>1, AppendProperties
  <2>3. Place(tree, rec) \in Trees
    BY <1>1, <2>1, <2>2 DEF Trees
  <2>. QED
    BY <1>3, <2>1, <2>2, <2>3 DEF Chains
<1>4. CASE Cutting(tree, rec)
  <2>. DEFINE longer == Append(tree.parent, 0)
              parent == [longer EXCEPT ![rec.kept] = id]
  <2>1. Place(tree, rec) = [parent |-> parent, leaf |-> tree.leaf]
    BY <1>2, <1>4 DEF Place, Cutting
  <2>2. /\ longer \in Seq(Nat) /\ Len(longer) = id /\ longer[id] = 0
        /\ \A i \in 1 .. n : longer[i] = tree.parent[i]
    BY <1>1, AppendProperties
  <2>3. rec.kept \in 1 .. n /\ rec.kept # id /\ rec.kept \in 1 .. id
    BY <1>1, <1>4 DEF Cutting
  <2>. HIDE DEF longer
  <2>4. /\ parent \in Seq(Nat) /\ Len(parent) = id
        /\ parent[rec.kept] = id /\ parent[id] = 0
        /\ \A i \in 1 .. n : i # rec.kept => parent[i] = tree.parent[i]
    BY <1>1, <2>2, <2>3, ExceptSeq
  <2>. HIDE DEF parent
  <2>5. Place(tree, rec) \in Trees
    BY <1>1, <2>1, <2>4 DEF Trees
  <2>. QED
    BY <1>4, <2>1, <2>4, <2>5 DEF Roots
<1>. QED
  BY <1>3, <1>4

Grows(f, n, recs) ==
  /\ f \in [0 .. n -> Trees]
  /\ f[0] = Sapling
  /\ \A i \in 1 .. n : f[i] = Place(f[i - 1], recs[i])

(* Reduce places the records one after the other. *)
LEMMA ReduceDef ==
  ASSUME NEW recs \in Seq(Entries)
  PROVE  \E f : Grows(f, Len(recs), recs) /\ Reduce(recs) = f[Len(recs)]
<1>. DEFINE n == Len(recs)
            step == [i \in 1 .. n |-> [t \in Trees |-> Place(t, recs[i])]]
            tree[i \in 0 .. n] == IF i = 0 THEN Sapling ELSE Place(tree[i - 1], recs[i])
<1>1. n \in Nat /\ \A i \in 1 .. n : recs[i] \in Entries
  OBVIOUS
<1>2. Sapling \in Trees
  BY DEF Sapling, Trees
<1>3. step \in [1 .. n -> [Trees -> Trees]]
  BY <1>1, PlaceGrows
<1>4. Reduce(recs) = tree[n]
  BY DEF Reduce
<1>. HIDE DEF n, step, tree
<1>5. PICK f : Iterates(f, n, Trees, Sapling, step)
  BY <1>1, <1>2, <1>3, Iteration
<1>6. \A i \in 1 .. n : f[i] = Place(f[i - 1], recs[i])
  <2>. TAKE i \in 1 .. n
  <2>1. f[i - 1] \in Trees
    BY <1>1, <1>5 DEF Iterates
  <2>. QED
    BY <1>5, <2>1 DEF Iterates, step
<1>7. f = [i \in 0 .. n |-> IF i = 0 THEN Sapling ELSE Place(f[i - 1], recs[i])]
  BY <1>1, <1>5, <1>6 DEF Iterates
<1>8. tree = [i \in 0 .. n |-> IF i = 0 THEN Sapling ELSE Place(tree[i - 1], recs[i])]
  BY <1>7 DEF tree
<1>9. /\ tree[0] = Sapling
      /\ \A i \in 1 .. n : tree[i] = Place(tree[i - 1], recs[i])
  <2>1. 0 \in 0 .. n /\ \A i \in 1 .. n : i \in 0 .. n /\ i # 0
    BY <1>1
  <2>. QED
    BY <1>8, <2>1
<1>10. \A i \in 0 .. n : tree[i] \in Trees
  <2>1. \A i \in 1 .. n : tree[i - 1] \in Trees => tree[i] \in Trees
    BY <1>1, <1>9, PlaceGrows
  <2>. QED
    BY <1>1, <1>2, <1>9, <2>1, Along
<1>11. tree \in [0 .. n -> Trees]
  BY <1>8, <1>10
<1>. QED
  BY <1>4, <1>9, <1>11 DEF Grows, n

(* One more record is placed in the tree of those before it. *)
LEMMA ReduceAppend ==
  ASSUME NEW recs \in Seq(Entries), NEW rec \in Entries
  PROVE  Reduce(Append(recs, rec)) = Place(Reduce(recs), rec)
<1>. DEFINE n == Len(recs)
            more == Append(recs, rec)
<1>1. /\ n \in Nat /\ more \in Seq(Entries) /\ Len(more) = n + 1 /\ more[n + 1] = rec
      /\ \A i \in 1 .. n : more[i] = recs[i]
  BY AppendProperties
<1>. HIDE DEF n, more
<1>2. PICK f : Grows(f, n, recs) /\ Reduce(recs) = f[n]
  BY ReduceDef DEF n
<1>3. PICK g : Grows(g, n + 1, more) /\ Reduce(more) = g[n + 1]
  BY <1>1, ReduceDef
<1>. DEFINE P == {i \in 0 .. n : g[i] = f[i]}
<1>4. 0 \in P
  BY <1>1, <1>2, <1>3 DEF Grows
<1>5. \A i \in 0 .. n - 1 : i \in P => i + 1 \in P
  <2>. TAKE i \in 0 .. n - 1
  <2>. HAVE i \in P
  <2>1. i + 1 \in 1 .. n /\ i + 1 \in 1 .. n + 1 /\ (i + 1) - 1 = i /\ i + 1 \in 0 .. n
    BY <1>1
  <2>. QED
    BY <1>1, <1>2, <1>3, <2>1 DEF Grows
<1>. HIDE DEF P
<1>6. n \in P
  <2>1. \A i \in 0 .. n : i \in P
    BY <1>1, <1>4, <1>5, InductionUpTo
  <2>. QED
    BY <1>1, <2>1
<1>7. n + 1 \in 1 .. n + 1 /\ (n + 1) - 1 = n
  BY <1>1
<1>. QED
  BY <1>1, <1>2, <1>3, <1>6, <1>7 DEF P, more, Grows

Rooted(tree, n) ==
  /\ tree \in Trees /\ Len(tree.parent) = n /\ tree.leaf \in 0 .. n
  /\ \A i \in 1 .. n : tree.parent[i] \in 0 .. n

(* The tree has a place for every record, and its parents are records. *)
LEMMA ReduceType ==
  ASSUME NEW recs \in Seq(Entries)
  PROVE  Rooted(Reduce(recs), Len(recs))
<1>. DEFINE n == Len(recs)
<1>1. n \in Nat /\ \A i \in 1 .. n : recs[i] \in Entries
  OBVIOUS
<1>2. PICK f : Grows(f, n, recs) /\ Reduce(recs) = f[n]
  BY ReduceDef
<1>. HIDE DEF n
<1>. DEFINE P == {i \in 0 .. n : Rooted(f[i], i)}
<1>3. 0 \in P
  <2>1. Sapling.parent = <<>> /\ Sapling.leaf = 0 /\ Sapling \in Trees
    BY DEF Sapling, Trees
  <2>. QED
    BY <1>1, <1>2, <2>1 DEF Grows, Rooted
<1>4. \A i \in 0 .. n - 1 : i \in P => i + 1 \in P
  <2>. TAKE i \in 0 .. n - 1
  <2>. HAVE i \in P
  <2>. DEFINE t == f[i]
              g == f[i + 1]
              rec == recs[i + 1]
  <2>1. /\ i + 1 \in 1 .. n /\ (i + 1) - 1 = i /\ i + 1 \in 0 .. n /\ i \in Nat
        /\ rec \in Entries /\ g = Place(t, rec) /\ Rooted(t, i)
    BY <1>1, <1>2 DEF Grows
  <2>. HIDE DEF t, g, rec
  <2>2. /\ t \in Trees /\ Len(t.parent) = i /\ t.leaf \in 0 .. i
        /\ \A j \in 1 .. i : t.parent[j] \in 0 .. i
    BY <2>1 DEF Rooted
  <2>3. /\ g \in Trees
        /\ ~Cutting(t, rec) => Chains(t, g)
        /\ Cutting(t, rec) => Roots(t, rec.kept, g)
    BY <2>1, <2>2, PlaceGrows
  <2>4. /\ Len(g.parent) = i + 1 /\ g.leaf \in 0 .. i + 1
        /\ \A j \in 1 .. i + 1 : g.parent[j] \in 0 .. i + 1
    <3>1. \A j \in 1 .. i + 1 : j \in 1 .. i \/ j = i + 1
      BY <2>1
    <3>2. CASE ~Cutting(t, rec)
      BY <2>1, <2>2, <2>3, <3>1, <3>2 DEF Chains
    <3>3. CASE Cutting(t, rec)
      <4>1. /\ Len(g.parent) = i + 1 /\ g.leaf = t.leaf /\ g.parent[i + 1] = 0
            /\ \A j \in 1 .. i : g.parent[j] = i + 1 \/ g.parent[j] = t.parent[j]
        BY <2>2, <2>3, <3>3 DEF Roots
      <4>2. \A j \in 1 .. i + 1 : g.parent[j] \in 0 .. i + 1
        <5>1. i + 1 \in 0 .. i + 1 /\ 0 \in 0 .. i + 1
          BY <2>1
        <5>2. \A x \in 0 .. i : x \in 0 .. i + 1
          BY <2>1
        <5>. QED
          BY <2>2, <3>1, <4>1, <5>1, <5>2
      <4>. QED
        BY <2>1, <2>2, <4>1, <4>2
    <3>. QED
      BY <3>2, <3>3
  <2>5. Rooted(g, i + 1)
    BY <2>3, <2>4 DEF Rooted
  <2>. QED
    BY <2>1, <2>5 DEF g
<1>. HIDE DEF P
<1>5. n \in P
  <2>1. \A i \in 0 .. n : i \in P
    BY <1>1, <1>3, <1>4, InductionUpTo
  <2>. QED
    BY <1>1, <2>1
<1>. QED
  BY <1>2, <1>5 DEF P, n

----------------------------------------------------------------------------
(* The path. *)

Foot(tree) == IF tree.leaf = 0 THEN <<>> ELSE <<tree.leaf>>

Climbs(f, n, tree) ==
  /\ f \in [0 .. n -> Seq(1 .. n)]
  /\ f[0] = Foot(tree)
  /\ \A i \in 1 .. n : f[i] = Climb(f[i - 1], tree)

(* A step from a record to its parent. *)
LEMMA ClimbType ==
  ASSUME NEW n \in Nat, NEW tree, Rooted(tree, n), NEW path \in Seq(1 .. n)
  PROVE  Climb(path, tree) \in Seq(1 .. n)
<1>. DEFINE N == 1 .. n
            next == tree.parent[Head(path)]
<1>1. CASE path = <<>> \/ next = 0
  BY <1>1 DEF Climb
<1>2. CASE path # <<>> /\ next # 0
  <2>1. Head(path) \in N
    <3>. HIDE DEF N
    <3>. QED
      BY <1>2, HeadTailProperties DEF N
  <2>2. next \in N
    BY <1>2, <2>1 DEF Rooted
  <2>3. path \in Seq(N)
    OBVIOUS
  <2>4. Climb(path, tree) = <<next>> \o path
    BY <1>2 DEF Climb
  <2>. HIDE DEF N, next
  <2>5. <<next>> \in Seq(N)
    BY <2>2
  <2>6. <<next>> \o path \in Seq(N)
    BY <2>3, <2>5, ConcatProperties
  <2>. QED
    BY <2>4, <2>6 DEF N
<1>. QED
  BY <1>1, <1>2

(* The path starts from the leaf. *)
LEMMA FootType ==
  ASSUME NEW n \in Nat, NEW tree, Rooted(tree, n)
  PROVE  Foot(tree) \in Seq(1 .. n)
<1>. DEFINE N == 1 .. n
<1>1. tree.leaf = 0 \/ tree.leaf \in N
  BY DEF Rooted
<1>. HIDE DEF N
<1>2. Foot(tree) \in Seq(N)
  BY <1>1 DEF Foot
<1>. QED
  BY <1>2 DEF N

(* The active path is as many climbs as the log has records. *)
LEMMA PathDef ==
  ASSUME NEW recs \in Seq(Entries)
  PROVE  \E f : Climbs(f, Len(recs), Reduce(recs)) /\ ActiveLeafPath(recs) = f[Len(recs)]
<1>. DEFINE n == Len(recs)
            tree == Reduce(recs)
            S == Seq(1 .. n)
            base == Foot(tree)
            step == [i \in 1 .. n |-> [q \in S |-> Climb(q, tree)]]
            path[i \in 0 .. n] == IF i = 0 THEN base ELSE Climb(path[i - 1], tree)
<1>1. n \in Nat /\ Rooted(tree, n)
  BY ReduceType
<1>2. ActiveLeafPath(recs) = path[n]
  BY DEF ActiveLeafPath, Foot
<1>. HIDE DEF n, tree
<1>3. base \in S
  BY <1>1, FootType DEF S
<1>4. \A q \in S : Climb(q, tree) \in S
  BY <1>1, ClimbType
<1>. HIDE DEF S, base
<1>5. step \in [1 .. n -> [S -> S]]
  BY <1>4
<1>. HIDE DEF step, path
<1>6. PICK f : Iterates(f, n, S, base, step)
  BY <1>1, <1>3, <1>5, Iteration
<1>7. \A i \in 1 .. n : f[i] = Climb(f[i - 1], tree)
  <2>. TAKE i \in 1 .. n
  <2>1. f[i - 1] \in S
    BY <1>1, <1>6 DEF Iterates
  <2>. QED
    BY <1>6, <2>1 DEF Iterates, step
<1>8. f = [i \in 0 .. n |-> IF i = 0 THEN base ELSE Climb(f[i - 1], tree)]
  BY <1>1, <1>6, <1>7 DEF Iterates
<1>9. path = [i \in 0 .. n |-> IF i = 0 THEN base ELSE Climb(path[i - 1], tree)]
  BY <1>8 DEF path
<1>10. /\ path[0] = base
       /\ \A i \in 1 .. n : path[i] = Climb(path[i - 1], tree)
  <2>1. 0 \in 0 .. n /\ \A i \in 1 .. n : i \in 0 .. n /\ i # 0
    BY <1>1
  <2>. QED
    BY <1>9, <2>1
<1>11. \A i \in 0 .. n : path[i] \in S
  <2>1. \A i \in 1 .. n : path[i - 1] \in S => path[i] \in S
    BY <1>4, <1>10
  <2>. QED
    BY <1>1, <1>3, <1>10, <2>1, Along
<1>12. path \in [0 .. n -> S]
  BY <1>9, <1>11
<1>. QED
  BY <1>2, <1>10, <1>12 DEF Climbs, n, tree, S, base

(* The active path is of records of the log. *)
LEMMA PathType ==
  ASSUME NEW recs \in Seq(Entries)
  PROVE  ActiveLeafPath(recs) \in Seq(Ids(recs))
<1>1. PICK f : Climbs(f, Len(recs), Reduce(recs)) /\ ActiveLeafPath(recs) = f[Len(recs)]
  BY PathDef
<1>2. Len(recs) \in 0 .. Len(recs)
  OBVIOUS
<1>. QED
  BY <1>1, <1>2 DEF Climbs, Ids

(* One element of a sequence, as a sequence. *)
LEMMA SubSeqOne ==
  ASSUME NEW S, NEW p \in Seq(S), NEW k \in 1 .. Len(p)
  PROVE  SubSeq(p, k, k) = <<p[k]>>
<1>. DEFINE q == SubSeq(p, k, k)
            r == <<p[k]>>
<1>1. k \in Int /\ p[k] \in S /\ (\A i \in k .. k : p[i] \in S) /\ k - k + 1 = 1 /\ k + 1 - 1 = k
  OBVIOUS
<1>2. q \in Seq(S) /\ Len(q) = 1 /\ q[1] = p[k]
  BY <1>1, SubSeqProperties
<1>3. r \in Seq(S) /\ Len(r) = 1 /\ r[1] = p[k]
  BY <1>1
<1>. HIDE DEF q, r
<1>4. \A i \in 1 .. Len(q) : q[i] = r[i]
  BY <1>2, <1>3
<1>. QED
  BY <1>2, <1>3, <1>4, SeqEqual DEF q, r

(* The element before a tail, put before it. *)
LEMMA PrependSub ==
  ASSUME NEW S, NEW p \in Seq(S), NEW a \in 2 .. Len(p)
  PROVE  <<p[a - 1]>> \o SubSeq(p, a, Len(p)) = SubSeq(p, a - 1, Len(p))
<1>. DEFINE n == Len(p)
            q == SubSeq(p, a, n)
            r == SubSeq(p, a - 1, n)
            h == <<p[a - 1]>>
<1>1. n \in Nat /\ a - 1 \in 1 .. n /\ \A j \in 1 .. n : p[j] \in S
  OBVIOUS
<1>2. /\ q \in Seq(S) /\ Len(q) = n - a + 1
      /\ \A j \in 1 .. n - a + 1 : q[j] = p[a + j - 1]
  BY SubSeqProperties
<1>3. /\ r \in Seq(S) /\ Len(r) = n - a + 2
      /\ \A j \in 1 .. n - a + 2 : r[j] = p[a - 1 + j - 1]
  BY SubSeqProperties
<1>4. h \in Seq(S) /\ Len(h) = 1 /\ h[1] = p[a - 1]
  BY <1>1
<1>. HIDE DEF n, q, r, h
<1>5. /\ h \o q \in Seq(S) /\ Len(h \o q) = n - a + 2
      /\ \A j \in 1 .. n - a + 2 : (h \o q)[j] = IF j = 1 THEN h[1] ELSE q[j - 1]
  <2>1. /\ h \o q \in Seq(S) /\ Len(h \o q) = Len(h) + Len(q)
        /\ \A j \in 1 .. Len(h) + Len(q) :
             (h \o q)[j] = IF j <= Len(h) THEN h[j] ELSE q[j - Len(h)]
    BY <1>2, <1>4, ConcatProperties
  <2>2. Len(h) + Len(q) = n - a + 2
    BY <1>1, <1>2, <1>4
  <2>3. \A j \in 1 .. n - a + 2 : j <= Len(h) <=> j = 1
    BY <1>1, <1>4
  <2>. QED
    BY <1>4, <2>1, <2>2, <2>3
<1>6. \A j \in 1 .. n - a + 2 : (h \o q)[j] = r[j]
  <2>. TAKE j \in 1 .. n - a + 2
  <2>1. CASE j = 1
    <3>1. (a - 1) + 1 - 1 = a - 1
      BY <1>1
    <3>. QED
      BY <1>3, <1>4, <1>5, <2>1, <3>1
  <2>2. CASE j # 1
    <3>1. j - 1 \in 1 .. n - a + 1 /\ a + (j - 1) - 1 = a - 1 + j - 1
      BY <1>1, <2>2
    <3>. QED
      BY <1>2, <1>3, <1>5, <2>2, <3>1
  <2>. QED
    BY <2>1, <2>2
<1>. QED
  BY <1>3, <1>5, <1>6, SeqEqual DEF n, q, r, h

(* The climb follows the links: a sequence that is linked is the path. *)
LEMMA PathOf ==
  ASSUME NEW recs \in Seq(Entries), NEW p \in Seq(Ids(recs)), Linked(p, Reduce(recs))
  PROVE  ActiveLeafPath(recs) = p
<1>. DEFINE n == Len(recs)
            tree == Reduce(recs)
            N == Ids(recs)
            size == Len(p)
<1>1. n \in Nat /\ Rooted(tree, n) /\ p \in Seq(N) /\ size \in Nat
      /\ (p = <<>> <=> size = 0) /\ \A i \in 1 .. size : p[i] \in N
  BY ReduceType
<1>2. /\ size = 0 <=> tree.leaf = 0
      /\ size <= n
      /\ size # 0 => p[size] = tree.leaf /\ tree.parent[p[1]] = 0
      /\ \A i \in 1 .. size - 1 : tree.parent[p[i + 1]] = p[i]
  BY <1>1 DEF Linked, Rooted
<1>3. PICK f : Climbs(f, n, tree) /\ ActiveLeafPath(recs) = f[n]
  BY PathDef
<1>4. 0 \notin N
  BY DEF Ids
<1>. HIDE DEF n, tree, N, size
<1>5. CASE size = 0
  <2>1. f[0] = <<>> /\ \A i \in 1 .. n : f[i - 1] \in {<<>>} => f[i] \in {<<>>}
    BY <1>2, <1>3, <1>5 DEF Climbs, Foot, Climb
  <2>2. \A i \in 0 .. n : f[i] \in {<<>>}
    <3>1. f[0] \in {<<>>}
      BY <2>1
    <3>. QED
      BY <1>1, <2>1, <3>1, Along
  <2>. QED
    BY <1>1, <1>3, <1>5, <2>2
<1>6. CASE size # 0
  <2>. DEFINE from(i) == IF i < size THEN size - i ELSE 1
              P == {i \in 0 .. n : f[i] = SubSeq(p, from(i), size)}
  <2>1. 0 \in P
    <3>1. f[0] = <<p[size]>>
      BY <1>2, <1>3, <1>6 DEF Climbs, Foot
    <3>2. from(0) = size
      BY <1>1, <1>6
    <3>3. SubSeq(p, size, size) = <<p[size]>>
      <4>1. size \in 1 .. size
        BY <1>1, <1>6
      <4>. QED
        BY <1>1, <4>1, SubSeqOne DEF size
    <3>4. f[0] = SubSeq(p, from(0), size) /\ 0 \in 0 .. n
      BY <1>1, <3>1, <3>2, <3>3
    <3>. QED
      BY <3>4
  <2>2. \A i \in 0 .. n - 1 : i \in P => i + 1 \in P
    <3>. TAKE i \in 0 .. n - 1
    <3>. HAVE i \in P
    <3>. DEFINE a == from(i)
    <3>1. /\ i + 1 \in 1 .. n /\ (i + 1) - 1 = i /\ i + 1 \in 0 .. n
          /\ a \in 1 .. size
      BY <1>1, <1>6
    <3>2. f[i] = SubSeq(p, a, size) /\ f[i + 1] = Climb(f[i], tree)
      BY <1>3, <3>1 DEF Climbs
    <3>3. from(i + 1) = IF a > 1 THEN a - 1 ELSE 1
      BY <1>1, <1>6, <3>1
    <3>. HIDE DEF from
    <3>. DEFINE q == SubSeq(p, a, size)
    <3>4. /\ q \in Seq(N) /\ Len(q) = size - a + 1
          /\ \A j \in 1 .. size - a + 1 : q[j] = p[a + j - 1]
      <4>1. \A j \in a .. size : p[j] \in N
        BY <1>1, <3>1
      <4>. HIDE DEF a
      <4>. QED
        BY <1>1, <3>1, <4>1, SubSeqProperties
    <3>. HIDE DEF q, a
    <3>5. q # <<>> /\ Head(q) = p[a]
      <4>1. Len(q) # 0 /\ 1 \in 1 .. size - a + 1 /\ a + 1 - 1 = a
        BY <1>1, <3>1, <3>4
      <4>2. q[1] = p[a]
        BY <3>4, <4>1
      <4>. QED
        BY <3>4, <4>1, <4>2
    <3>6. CASE a = 1
      <4>1. tree.parent[Head(q)] = 0
        BY <1>2, <1>6, <3>5, <3>6
      <4>2. f[i + 1] = q
        BY <3>2, <4>1 DEF Climb, q
      <4>. QED
        BY <3>1, <3>3, <3>6, <4>2 DEF q
    <3>7. CASE a > 1
      <4>1. a - 1 \in 1 .. size - 1 /\ (a - 1) + 1 = a /\ a - 1 \in 1 .. size
        BY <1>1, <3>1, <3>7
      <4>2. tree.parent[Head(q)] = p[a - 1] /\ p[a - 1] \in N
        BY <1>1, <1>2, <3>5, <4>1
      <4>3. f[i + 1] = <<p[a - 1]>> \o q
        BY <1>4, <3>2, <3>5, <4>2 DEF Climb, q
      <4>4. <<p[a - 1]>> \o q = SubSeq(p, a - 1, size)
        BY <1>1, <3>1, <4>1, PrependSub DEF q, size
      <4>. QED
        BY <3>1, <3>3, <3>7, <4>3, <4>4
    <3>. QED
      BY <3>1, <3>6, <3>7
  <2>. HIDE DEF P
  <2>3. n \in P
    <3>1. \A i \in 0 .. n : i \in P
      BY <1>1, <2>1, <2>2, InductionUpTo
    <3>. QED
      BY <1>1, <3>1
  <2>4. f[n] = SubSeq(p, 1, size)
    <3>1. from(n) = 1
      BY <1>1, <1>2
    <3>. QED
      BY <2>3, <3>1 DEF P
  <2>. QED
    BY <1>1, <1>3, <2>4, SubSeqFull DEF size
<1>. QED
  BY <1>5, <1>6

----------------------------------------------------------------------------
(* Types. *)

(* The messages are the shown records of the path. *)
LEMMA MessagesType ==
  ASSUME NEW recs \in Seq(Entries)
  PROVE  /\ Messages(recs) \in Seq(Ids(recs))
         /\ Messages(recs) = Only(ActiveLeafPath(recs), {id \in Ids(recs) : Shown(recs, id)})
<1>. DEFINE N == Ids(recs)
            T == {id \in N : Shown(recs, id)}
            p == ActiveLeafPath(recs)
<1>1. p \in Seq(N)
  BY PathType
<1>2. Messages(recs) = Only(p, T)
  BY DEF Messages
<1>3. N \cap T \subseteq N
  OBVIOUS
<1>. HIDE DEF N, T, p
<1>4. Only(p, T) \in Seq(N \cap T)
  BY <1>1, OnlyType
<1>5. Only(p, T) \in Seq(N)
  BY <1>3, <1>4, SeqMonotonic
<1>. QED
  BY <1>2, <1>5 DEF N, T, p

(* The system prompt is one message that is not of the log, or none. *)
LEMMA PromptType ==
  /\ Prompt \in Seq({0}) /\ Len(Prompt) \in {0, 1}
  /\ \A i \in 1 .. Len(Prompt) : Prompt[i] = 0
<1>1. CASE SystemPrompt
  <2>1. Prompt = <<0>>
    BY <1>1 DEF Prompt
  <2>. QED
    BY <2>1
<1>2. CASE ~SystemPrompt
  <2>1. Prompt = <<>>
    BY <1>2 DEF Prompt
  <2>. QED
    BY <2>1
<1>. QED
  BY <1>1, <1>2

(* The transcript: the prompt, and behind it the messages. *)
LEMMA LoadIs ==
  ASSUME NEW recs \in Seq(Entries)
  PROVE  /\ Load(recs) \in Seq(Nat)
         /\ Len(Load(recs)) = Len(Prompt) + Len(Messages(recs))
         /\ \A i \in 1 .. Len(Load(recs)) :
              Load(recs)[i] = IF i <= Len(Prompt) THEN 0 ELSE Messages(recs)[i - Len(Prompt)]
         /\ \A i \in 1 .. Len(Load(recs)) : Load(recs)[i] <= Len(recs)
<1>. DEFINE m == Messages(recs)
            N == Ids(recs)
            all == Load(recs)
<1>1. m \in Seq(N) /\ all = Prompt \o m /\ Len(recs) \in Nat
  <2>1. m \in Seq(N)
    BY MessagesType
  <2>2. all = Prompt \o m
    BY DEF Load
  <2>. QED
    BY <2>1, <2>2
<1>2. /\ Len(m) \in Nat /\ N \subseteq Nat
      /\ \A id \in N : id <= Len(recs)
  BY <1>1 DEF Ids
<1>3. \A i \in 1 .. Len(m) : m[i] \in N
  <2>. HIDE DEF m, N
  <2>. QED
    BY <1>1
<1>. HIDE DEF m, N, all
<1>4. m \in Seq(Nat) /\ Prompt \in Seq(Nat)
  <2>1. m \in Seq(Nat)
    BY <1>1, <1>2, SeqMonotonic
  <2>2. Prompt \in Seq(Nat)
    <3>1. {0} \subseteq Nat
      OBVIOUS
    <3>. QED
      BY <3>1, PromptType, SeqMonotonic
  <2>. QED
    BY <2>1, <2>2
<1>5. /\ all \in Seq(Nat)
      /\ Len(all) = Len(Prompt) + Len(m)
      /\ \A i \in 1 .. Len(Prompt) + Len(m) :
           all[i] = IF i <= Len(Prompt) THEN Prompt[i] ELSE m[i - Len(Prompt)]
  BY <1>1, <1>4, ConcatProperties
<1>6. \A i \in 1 .. Len(all) :
        all[i] = IF i <= Len(Prompt) THEN 0 ELSE m[i - Len(Prompt)]
  BY <1>2, <1>5, PromptType
<1>7. \A i \in 1 .. Len(all) : ~(i <= Len(Prompt)) => i - Len(Prompt) \in 1 .. Len(m)
  BY <1>2, <1>5, PromptType
<1>8. \A i \in 1 .. Len(all) : all[i] <= Len(recs)
  <2>. TAKE i \in 1 .. Len(all)
  <2>1. CASE i <= Len(Prompt)
    BY <1>1, <1>6, <2>1
  <2>2. CASE ~(i <= Len(Prompt))
    <3>1. m[i - Len(Prompt)] \in N
      BY <1>3, <1>7, <2>2
    <3>. QED
      BY <1>2, <1>6, <2>2, <3>1
  <2>. QED
    BY <2>1, <2>2
<1>. QED
  BY <1>5, <1>6, <1>8 DEF m, all

(* The first record to keep is a record of the log, or none. *)
LEMMA KeptType ==
  ASSUME NEW recs \in Seq(Entries), NEW endIdx
  PROVE  FirstKept(recs, endIdx) \in 0 .. Len(recs)
<1>. DEFINE m == Messages(recs)
            N == Ids(recs)
<1>1. m \in Seq(N)
  BY MessagesType
<1>2. N \subseteq 0 .. Len(recs) /\ 0 \in 0 .. Len(recs)
  BY DEF Ids
<1>3. \A i \in 1 .. Len(m) : m[i] \in N
  <2>. HIDE DEF m, N
  <2>. QED
    BY <1>1
<1>. QED
  BY <1>2, <1>3 DEF FirstKept

States == [pc : {"idle", "summarize", "cut", "append"},
           view : Seq(Nat), endIdx : Nat, kept : Nat]

(* What the types say of the log and of the compactions. *)
LEMMA TreeTypes ==
  ASSUME TypeOK
  PROVE  /\ log \in Seq(Entries) /\ Len(log) \in Nat /\ Len(log) <= MaxRecords
         /\ \A id \in Ids(log) : log[id].kept < id /\ log[id] \in Entries
         /\ at \in [Compactors -> States]
         /\ \A c \in Compactors :
              /\ at[c] \in States /\ at[c].view \in Seq(Nat)
              /\ at[c].endIdx \in Nat /\ at[c].kept \in Nat
         /\ covers \in Seq(SUBSET Ids(log)) /\ Len(covers) = Len(log)
<1>1. /\ log \in Seq(Entries) /\ Len(log) <= MaxRecords
      /\ \A id \in Ids(log) : log[id].kept < id
      /\ at \in [Compactors -> States]
      /\ covers \in Seq(SUBSET Ids(log)) /\ Len(covers) = Len(log)
  BY DEF TypeOK, Entries, States
<1>2. \A id \in Ids(log) : log[id] \in Entries
  BY <1>1 DEF Ids
<1>3. \A c \in Compactors : at[c] \in States
  BY <1>1
<1>4. \A st \in States : st.view \in Seq(Nat) /\ st.endIdx \in Nat /\ st.kept \in Nat
  BY DEF States
<1>. QED
  BY <1>1, <1>2, <1>3, <1>4

(* A record is appended. *)
LEMMA TypeAppend ==
  ASSUME TypeOK, NEW rec \in Entries, rec.kept <= Len(log), NEW cov \in SUBSET Ids(log), Room,
         log' = Append(log, rec), covers' = Append(covers, cov),
         at' \in [Compactors -> States]
  PROVE  /\ TypeOK'
         /\ Len(log') = Len(log) + 1 /\ log'[Len(log) + 1] = rec
         /\ \A i \in Ids(log) : log'[i] = log[i] /\ covers'[i] = covers[i]
         /\ covers'[Len(log) + 1] = cov
         /\ Ids(log') = Ids(log) \cup {Len(log) + 1} /\ Len(log) + 1 \notin Ids(log)
<1>. DEFINE n == Len(log)
            All == SUBSET Ids(log)
            More == SUBSET Ids(log')
<1>1. /\ log \in Seq(Entries) /\ n \in Nat /\ n < MaxRecords /\ MaxRecords \in Nat
      /\ \A id \in Ids(log) : log[id].kept < id
      /\ covers \in Seq(All) /\ Len(covers) = n
      /\ rec.kept \in Nat
  BY TreeTypes, TreeAssumption DEF Room, Entries
<1>2. /\ log' \in Seq(Entries) /\ Len(log') = n + 1 /\ log'[n + 1] = rec
      /\ \A i \in 1 .. n : log'[i] = log[i]
  BY <1>1, AppendProperties
<1>3. Ids(log') = Ids(log) \cup {n + 1} /\ n + 1 \notin Ids(log)
  BY <1>1, <1>2 DEF Ids
<1>4. cov \in All /\ All \subseteq More
  BY <1>3
<1>. HIDE DEF All, More
<1>5. /\ covers' \in Seq(All) /\ Len(covers') = n + 1 /\ covers'[n + 1] = cov
      /\ \A i \in 1 .. n : covers'[i] = covers[i]
  BY <1>1, <1>4, AppendProperties
<1>6. covers' \in Seq(More)
  BY <1>4, <1>5, SeqMonotonic
<1>7. \A id \in Ids(log') : log'[id].kept < id
  BY <1>1, <1>2, <1>3 DEF Ids
<1>8. TypeOK'
  <2>1. log' \in Seq([kind : Kinds, kept : Nat]) /\ Len(log') <= MaxRecords
    BY <1>1, <1>2 DEF Entries
  <2>2. covers' \in Seq(SUBSET Ids(log')) /\ Len(covers') = Len(log')
    BY <1>2, <1>5, <1>6 DEF More
  <2>. QED
    BY <1>7, <2>1, <2>2 DEF TypeOK, States
<1>. QED
  BY <1>2, <1>3, <1>5, <1>8 DEF Ids

(* One compaction moves, the others do not. *)
LEMMA StateMoves ==
  ASSUME TypeOK, NEW c \in Compactors, NEW st \in States, at' = [at EXCEPT ![c] = st]
  PROVE  /\ at' \in [Compactors -> States] /\ at'[c] = st
         /\ \A d \in Compactors \ {c} : at'[d] = at[d]
  BY TreeTypes

(* The log stands still. *)
LEMMA TypeStill ==
  ASSUME TypeOK, UNCHANGED <<log, covers>>, at' \in [Compactors -> States]
  PROVE  TypeOK'
  BY DEF TypeOK, States, Ids

(* A compaction that is not under way. *)
LEMMA IdleType == /\ Idle \in States /\ Idle.kept = 0 /\ Len(Idle.view) = 0
                  /\ Idle.pc = "idle"
  BY DEF Idle, States

(* What a summary covers is records of the log. *)
LEMMA SummarizedType ==
  ASSUME TypeOK, Held, NEW c \in Compactors, at[c].endIdx <= Len(at[c].view)
  PROVE  Summarized(c) \in SUBSET Ids(log)
<1>. DEFINE before == {at[c].view[i] : i \in 1 .. at[c].endIdx} \ {0}
<1>1. /\ at[c].view \in Seq(Nat) /\ at[c].endIdx \in Nat /\ Len(log) \in Nat
      /\ \A i \in 1 .. Len(at[c].view) : at[c].view[i] <= Len(log) /\ at[c].view[i] \in Nat
  BY TreeTypes DEF Held
<1>2. before \subseteq Ids(log)
  <2>. DEFINE view == at[c].view
              e == at[c].endIdx
  <2>1. /\ Len(view) \in Nat /\ e \in Nat /\ e <= Len(view)
        /\ \A i \in 1 .. Len(view) : view[i] <= Len(log) /\ view[i] \in Nat
    BY <1>1
  <2>. HIDE DEF view, e
  <2>2. \A i \in 1 .. e : view[i] = 0 \/ view[i] \in 1 .. Len(log)
    BY <1>1, <2>1
  <2>. QED
    BY <2>2 DEF Ids, view, e
<1>3. \A id \in Ids(log) : covers[id] \subseteq Ids(log)
  <2>. DEFINE All == SUBSET Ids(log)
  <2>1. covers \in Seq(All) /\ Len(covers) = Len(log)
    BY TreeTypes
  <2>. HIDE DEF All
  <2>2. \A id \in 1 .. Len(log) : covers[id] \in All
    BY <2>1
  <2>. QED
    BY <2>2 DEF All, Ids
<1>. QED
  BY <1>2, <1>3 DEF Summarized

(* The summary that is appended is a record. *)
LEMMA EndsWithin ==
  ASSUME TypeOK, Held, NEW c \in Compactors, at[c].pc = "append"
  PROVE  [kind |-> "compaction", kept |-> at[c].kept] \in Entries
  BY TreeTypes DEF Entries, Kinds

(* Every step keeps the types, and what a compaction holds stays within the
   log. *)
LEMMA TypeStep == TypeOK /\ Held /\ [Next]_vars => TypeOK' /\ Held'
<1>. SUFFICES ASSUME TypeOK, Held, [Next]_vars PROVE TypeOK' /\ Held'
  OBVIOUS
<1>0. /\ log \in Seq(Entries) /\ Len(log) \in Nat
      /\ \A c \in Compactors : /\ at[c] \in States /\ at[c].view \in Seq(Nat)
                              /\ at[c].endIdx \in Nat /\ at[c].kept \in Nat
                              /\ \A i \in 1 .. Len(at[c].view) : at[c].view[i] \in Nat
  BY TreeTypes
<1>1. CASE AppendRecord
  <2>1. PICK kind \in {"message", "silent"} : log' = Append(log, [kind |-> kind, kept |-> 0])
    BY <1>1 DEF AppendRecord
  <2>. DEFINE rec == [kind |-> kind, kept |-> 0]
  <2>2. rec \in Entries /\ rec.kept <= Len(log)
    BY <1>0 DEF Entries, Kinds
  <2>3. /\ covers' = Append(covers, {}) /\ Room /\ at' = at /\ at' \in [Compactors -> States]
    BY <1>1, TreeTypes DEF AppendRecord
  <2>. HIDE DEF rec
  <2>4. log' = Append(log, rec) /\ {} \in SUBSET Ids(log)
    BY <2>1 DEF rec
  <2>5. TypeOK' /\ Len(log') = Len(log) + 1
    BY <2>2, <2>3, <2>4, TypeAppend
  <2>. QED
    BY <1>0, <2>3, <2>5 DEF Held
<1>2. ASSUME NEW c \in Compactors, LoadTranscript(c)
      PROVE  TypeOK' /\ Held'
  <2>. DEFINE st == [at[c] EXCEPT !.pc = "summarize", !.view = Load(log)]
  <2>1. /\ Load(log) \in Seq(Nat)
        /\ \A i \in 1 .. Len(Load(log)) : Load(log)[i] <= Len(log)
    BY <1>0, LoadIs
  <2>2. /\ st \in States /\ st.view = Load(log) /\ st.kept = at[c].kept
        /\ st.pc = "summarize"
    BY <1>0, <2>1 DEF States
  <2>3. at' = [at EXCEPT ![c] = st] /\ UNCHANGED <<log, covers>>
    BY <1>2, TreeTypes DEF LoadTranscript
  <2>. HIDE DEF st
  <2>4. /\ at' \in [Compactors -> States] /\ at'[c] = st
        /\ \A d \in Compactors \ {c} : at'[d] = at[d]
    BY <2>2, <2>3, StateMoves
  <2>5. TypeOK'
    BY <2>3, <2>4, TypeStill
  <2>. QED
    BY <2>1, <2>2, <2>3, <2>4, <2>5 DEF Held
<1>3. ASSUME NEW c \in Compactors, Summarize(c)
      PROVE  TypeOK' /\ Held'
  <2>1. PICK end \in Len(Prompt) + 1 .. Len(at[c].view) :
          at' = [at EXCEPT ![c].pc = "cut", ![c].endIdx = end]
    BY <1>3 DEF Summarize
  <2>. DEFINE st == [at[c] EXCEPT !.pc = "cut", !.endIdx = end]
  <2>2. end \in Nat /\ end <= Len(at[c].view)
    BY <1>0, PromptType
  <2>3. /\ st \in States /\ st.view = at[c].view /\ st.kept = at[c].kept
        /\ st.endIdx = end
    BY <1>0, <2>2 DEF States
  <2>4. at' = [at EXCEPT ![c] = st] /\ UNCHANGED <<log, covers>>
    BY <1>3, <2>1, TreeTypes DEF Summarize
  <2>. HIDE DEF st
  <2>5. /\ at' \in [Compactors -> States] /\ at'[c] = st
        /\ \A d \in Compactors \ {c} : at'[d] = at[d]
    BY <2>3, <2>4, StateMoves
  <2>6. TypeOK'
    BY <2>4, <2>5, TypeStill
  <2>. QED
    BY <2>2, <2>3, <2>4, <2>5, <2>6 DEF Held
<1>4. ASSUME NEW c \in Compactors, CutPath(c)
      PROVE  TypeOK' /\ Held'
  <2>. DEFINE kept == FirstKept(log, at[c].endIdx)
              st == [at[c] EXCEPT !.pc = "append", !.kept = kept]
  <2>1. kept \in 0 .. Len(log)
    BY <1>0, KeptType
  <2>. HIDE DEF kept
  <2>2. kept \in Nat /\ kept <= Len(log)
    BY <1>0, <2>1
  <2>3. /\ st \in States /\ st.view = at[c].view /\ st.kept = kept
        /\ st.endIdx = at[c].endIdx /\ at[c].endIdx <= Len(at[c].view)
    BY <1>0, <1>4, <2>2 DEF States, CutPath, Held
  <2>4. at' = [at EXCEPT ![c] = st] /\ UNCHANGED <<log, covers>>
    BY <1>4, TreeTypes DEF CutPath, kept
  <2>. HIDE DEF st
  <2>5. /\ at' \in [Compactors -> States] /\ at'[c] = st
        /\ \A d \in Compactors \ {c} : at'[d] = at[d]
    BY <2>3, <2>4, StateMoves
  <2>6. TypeOK'
    BY <2>4, <2>5, TypeStill
  <2>. QED
    BY <2>2, <2>3, <2>4, <2>5, <2>6 DEF Held
<1>5. ASSUME NEW c \in Compactors, AppendBranchSummary(c)
      PROVE  TypeOK' /\ Held'
  <2>. DEFINE rec == [kind |-> "compaction", kept |-> at[c].kept]
  <2>1. rec \in Entries /\ rec.kept <= Len(log)
    BY <1>5, EndsWithin DEF AppendBranchSummary, Held
  <2>2. /\ log' = Append(log, rec) /\ covers' = Append(covers, Summarized(c)) /\ Room
        /\ at' = [at EXCEPT ![c] = Idle]
    BY <1>5 DEF AppendBranchSummary
  <2>. HIDE DEF rec
  <2>3. /\ at' \in [Compactors -> States] /\ at'[c] = Idle
        /\ \A d \in Compactors \ {c} : at'[d] = at[d]
    BY <2>2, IdleType, StateMoves
  <2>4. Summarized(c) \in SUBSET Ids(log)
    <3>1. at[c].endIdx <= Len(at[c].view)
      BY <1>5 DEF AppendBranchSummary, Held
    <3>. QED
      BY <3>1, SummarizedType
  <2>5. TypeOK' /\ Len(log') = Len(log) + 1
    BY <2>1, <2>2, <2>3, <2>4, TypeAppend
  <2>6. \A d \in Compactors \ {c} :
          /\ at[d].kept <= Len(log')
          /\ \A i \in 1 .. Len(at[d].view) : at[d].view[i] <= Len(log')
    BY <1>0, <2>5 DEF Held
  <2>. QED
    BY <1>0, <2>3, <2>5, <2>6, IdleType DEF Held
<1>6. ASSUME NEW c \in Compactors, GiveUp(c)
      PROVE  TypeOK' /\ Held'
  <2>1. at' = [at EXCEPT ![c] = Idle] /\ UNCHANGED <<log, covers>>
    BY <1>6 DEF GiveUp
  <2>2. /\ at' \in [Compactors -> States] /\ at'[c] = Idle
        /\ \A d \in Compactors \ {c} : at'[d] = at[d]
    BY <2>1, IdleType, StateMoves
  <2>3. TypeOK'
    BY <2>1, <2>2, TypeStill
  <2>. QED
    BY <1>0, <2>1, <2>2, <2>3, IdleType DEF Held
<1>7. CASE UNCHANGED vars
  <2>1. TypeOK'
    BY <1>7 DEF vars, TypeOK, Ids
  <2>. QED
    BY <1>7, <2>1 DEF vars, Held
<1>. QED
  BY <1>1, <1>2, <1>3, <1>4, <1>5, <1>6, <1>7 DEF Next

(* The initial state is of its type. *)
LEMMA TypeInit == Init => TypeOK /\ Held
  BY IdleType, TreeAssumption DEF Init, TypeOK, Held, Ids, States, Idle

(* Every variable keeps its type, with any number of compactions at once. *)
THEOREM TypeCorrect == Spec => []TypeOK
<1>1. Init => TypeOK /\ Held
  BY TypeInit
<1>2. TypeOK /\ Held /\ [Next]_vars => TypeOK' /\ Held'
  BY TypeStep
<1>. QED
  BY <1>1, <1>2, PTL DEF Spec

----------------------------------------------------------------------------
(* What an append does to the path. *)

(* A record that cuts nothing becomes the last one of the path. *)
LEMMA LinkGrows ==
  ASSUME NEW recs \in Seq(Entries), NEW rec \in Entries,
         ~(rec.kind = "compaction" /\ rec.kept \in 1 .. Len(recs)),
         NEW p \in Seq(Ids(recs)), Linked(p, Reduce(recs))
  PROVE  /\ Linked(Append(p, Len(recs) + 1), Reduce(Append(recs, rec)))
         /\ ActiveLeafPath(Append(recs, rec)) = Append(p, Len(recs) + 1)
<1>. DEFINE n == Len(recs)
            t == Reduce(recs)
            more == Append(recs, rec)
            g == Reduce(more)
            q == Append(p, n + 1)
            size == Len(p)
<1>1. /\ n \in Nat /\ Rooted(t, n) /\ g = Place(t, rec) /\ more \in Seq(Entries)
      /\ Len(more) = n + 1
  BY ReduceType, ReduceAppend, AppendProperties
<1>2. t \in Trees /\ Len(t.parent) = n
  BY <1>1 DEF Rooted
<1>3. Chains(t, g)
  BY <1>1, <1>2, PlaceGrows DEF Cutting
<1>4. /\ size \in Nat /\ (p = <<>> <=> size = 0) /\ \A i \in 1 .. size : p[i] \in Ids(recs)
      /\ p \in Seq(Ids(recs))
  OBVIOUS
<1>5. /\ size = 0 <=> t.leaf = 0
      /\ size <= n
      /\ size # 0 => p[size] = t.leaf /\ t.parent[p[1]] = 0
      /\ \A i \in 1 .. size - 1 : t.parent[p[i + 1]] = p[i]
  BY <1>2, <1>4 DEF Linked
<1>6. Ids(recs) = 1 .. n /\ Ids(more) = 1 .. n + 1
  BY <1>1 DEF Ids
<1>. HIDE DEF n, t, more, g, size
<1>7. /\ q \in Seq(Ids(more)) /\ Len(q) = size + 1 /\ q[size + 1] = n + 1
      /\ \A i \in 1 .. size : q[i] = p[i]
  <2>. DEFINE N == Ids(more)
  <2>1. Ids(recs) \subseteq N /\ n + 1 \in N
    BY <1>1, <1>6
  <2>. HIDE DEF N
  <2>2. p \in Seq(N)
    BY <1>4, <2>1, SeqMonotonic
  <2>. QED
    BY <2>1, <2>2, AppendProperties DEF N, size
<1>. HIDE DEF q
<1>8. /\ Len(g.parent) = n + 1 /\ g.leaf = n + 1
      /\ g.parent[n + 1] = t.leaf
      /\ \A i \in 1 .. n : g.parent[i] = t.parent[i]
  BY <1>2, <1>3 DEF Chains
<1>9. Linked(q, g)
  <2>1. q # <<>> /\ g.leaf # 0 /\ Len(q) <= Len(g.parent) /\ q[Len(q)] = g.leaf
    BY <1>1, <1>4, <1>5, <1>7, <1>8
  <2>2. g.parent[q[1]] = 0
    <3>1. CASE size = 0
      BY <1>5, <1>7, <1>8, <3>1
    <3>2. CASE size # 0
      <4>1. 1 \in 1 .. size /\ p[1] \in 1 .. n
        BY <1>4, <1>6, <3>2
      <4>. QED
        BY <1>5, <1>7, <1>8, <3>2, <4>1
    <3>. QED
      BY <3>1, <3>2
  <2>3. \A i \in 1 .. size : g.parent[q[i + 1]] = q[i]
    <3>. TAKE i \in 1 .. size
    <3>1. CASE i = size
      <4>1. q[i + 1] = n + 1 /\ q[i] = p[size] /\ size # 0
        BY <1>4, <1>7, <3>1
      <4>. QED
        BY <1>5, <1>8, <4>1
    <3>2. CASE i # size
      <4>1. i \in 1 .. size - 1 /\ i + 1 \in 1 .. size
        BY <1>4, <3>2
      <4>2. q[i + 1] = p[i + 1] /\ q[i] = p[i] /\ p[i + 1] \in 1 .. n
        BY <1>4, <1>6, <1>7, <4>1
      <4>. QED
        BY <1>5, <1>8, <4>1, <4>2
    <3>. QED
      BY <3>1, <3>2
  <2>4. Len(q) - 1 = size
    BY <1>4, <1>7
  <2>. QED
    BY <2>1, <2>2, <2>3, <2>4 DEF Linked
<1>10. ActiveLeafPath(more) = q
  BY <1>1, <1>7, <1>9, PathOf DEF g
<1>. QED
  BY <1>9, <1>10 DEF n, more, g, q

(* A summary whose first kept record is the j-th of the path replaces what is
   before it. *)
LEMMA LinkCuts ==
  ASSUME NEW recs \in Seq(Entries), NEW rec \in Entries, rec.kind = "compaction",
         NEW p \in Seq(Ids(recs)), Linked(p, Reduce(recs)),
         NEW j \in 1 .. Len(p), rec.kept = p[j],
         \A i \in j + 1 .. Len(p) : p[i] # p[j]
  PROVE  /\ Linked(<<Len(recs) + 1>> \o SubSeq(p, j, Len(p)), Reduce(Append(recs, rec)))
         /\ ActiveLeafPath(Append(recs, rec)) = <<Len(recs) + 1>> \o SubSeq(p, j, Len(p))
         /\ Len(ActiveLeafPath(Append(recs, rec))) = Len(p) - j + 2
         /\ ActiveLeafPath(Append(recs, rec))[1] = Len(recs) + 1
         /\ \A i \in 2 .. Len(p) - j + 2 : ActiveLeafPath(Append(recs, rec))[i] = p[i + j - 2]
<1>. DEFINE n == Len(recs)
            t == Reduce(recs)
            more == Append(recs, rec)
            g == Reduce(more)
            size == Len(p)
            tail == SubSeq(p, j, size)
            h == <<n + 1>>
            q == h \o tail
            k == p[j]
            rest == size - j + 1
<1>1. /\ n \in Nat /\ Rooted(t, n) /\ g = Place(t, rec) /\ more \in Seq(Entries)
      /\ Len(more) = n + 1
  BY ReduceType, ReduceAppend, AppendProperties
<1>2. t \in Trees /\ Len(t.parent) = n
  BY <1>1 DEF Rooted
<1>3. /\ size \in Nat /\ p # <<>> /\ \A i \in 1 .. size : p[i] \in Ids(recs)
      /\ p \in Seq(Ids(recs)) /\ j \in 1 .. size /\ k \in Ids(recs)
      /\ rest \in Nat \ {0}
  OBVIOUS
<1>4. Ids(recs) = 1 .. n /\ Ids(more) = 1 .. n + 1
  BY <1>1 DEF Ids
<1>5. Roots(t, k, g)
  BY <1>1, <1>2, <1>3, <1>4, PlaceGrows DEF Cutting
<1>6. /\ t.leaf # 0
      /\ size <= n
      /\ p[size] = t.leaf
      /\ \A i \in 1 .. size - 1 : t.parent[p[i + 1]] = p[i]
  BY <1>2, <1>3 DEF Linked
<1>7. \A i \in j + 1 .. size : p[i] # k
  OBVIOUS
<1>. DEFINE N == Ids(more)
<1>8. Ids(recs) \subseteq N /\ n + 1 \in N
  BY <1>1, <1>4
<1>. HIDE DEF n, t, more, g, k, N
<1>9. p \in Seq(N) /\ size \in Nat
  BY <1>3, <1>8, SeqMonotonic
<1>10. /\ tail \in Seq(N) /\ Len(tail) = rest
       /\ \A i \in 1 .. rest : tail[i] = p[j + i - 1]
  <2>1. \A i \in j .. size : p[i] \in N
    BY <1>3, <1>8
  <2>2. j \in Int /\ size \in Int /\ j <= size
    BY <1>3
  <2>. HIDE DEF size
  <2>. QED
    BY <1>9, <2>1, <2>2, SubSeqProperties
<1>11. h \in Seq(N) /\ Len(h) = 1 /\ h[1] = n + 1
  <2>1. \A x \in N : <<x>> \in Seq(N) /\ Len(<<x>>) = 1 /\ <<x>>[1] = x
    OBVIOUS
  <2>. QED
    BY <1>8, <2>1
<1>. HIDE DEF size, tail, h
<1>12. /\ q \in Seq(N) /\ Len(q) = rest + 1 /\ q[1] = n + 1
       /\ \A i \in 2 .. rest + 1 : q[i] = p[i + j - 2]
  <2>1. /\ q \in Seq(N) /\ Len(q) = Len(h) + Len(tail)
        /\ \A i \in 1 .. Len(h) + Len(tail) :
             q[i] = IF i <= Len(h) THEN h[i] ELSE tail[i - Len(h)]
    <3>1. h \in Seq(N) /\ tail \in Seq(N)
      BY <1>10, <1>11
    <3>. HIDE DEF rest
    <3>. QED
      BY <3>1, ConcatProperties
  <2>2. Len(q) = rest + 1 /\ 1 \in 1 .. Len(h) + Len(tail) /\ q[1] = n + 1
    BY <1>3, <1>10, <1>11, <2>1
  <2>3. \A i \in 2 .. rest + 1 : q[i] = p[i + j - 2]
    <3>. TAKE i \in 2 .. rest + 1
    <3>1. /\ i \in 1 .. Len(h) + Len(tail) /\ ~(i <= Len(h)) /\ i - Len(h) = i - 1
          /\ i - 1 \in 1 .. rest /\ j + (i - 1) - 1 = i + j - 2
      BY <1>3, <1>10, <1>11
    <3>. QED
      BY <1>10, <2>1, <3>1
  <2>. QED
    BY <2>1, <2>2, <2>3
<1>. HIDE DEF q
<1>13. /\ Len(g.parent) = n + 1 /\ g.leaf = t.leaf
       /\ g.parent[n + 1] = 0 /\ g.parent[k] = n + 1
       /\ \A i \in 1 .. n : i # k => g.parent[i] = t.parent[i]
  BY <1>2, <1>5 DEF Roots
<1>14. Linked(q, g)
  <2>1. q # <<>> /\ g.leaf # 0 /\ Len(q) <= Len(g.parent) /\ g.parent[q[1]] = 0
    <3>1. Len(q) = rest + 1 /\ rest + 1 # 0 /\ rest + 1 <= n + 1
      BY <1>1, <1>3, <1>6, <1>12
    <3>. QED
      BY <1>6, <1>12, <1>13, <3>1
  <2>2. q[Len(q)] = g.leaf
    <3>1. rest + 1 \in 2 .. rest + 1 /\ (rest + 1) + j - 2 = size
      BY <1>3
    <3>. QED
      BY <1>6, <1>12, <1>13, <3>1
  <2>3. \A i \in 1 .. rest : g.parent[q[i + 1]] = q[i]
    <3>. TAKE i \in 1 .. rest
    <3>1. i + 1 \in 2 .. rest + 1 /\ (i + 1) + j - 2 = i + j - 1
      BY <1>3
    <3>2. q[i + 1] = p[i + j - 1]
      BY <1>12, <3>1
    <3>3. CASE i = 1
      <4>1. i + j - 1 = j
        BY <1>3, <3>3
      <4>. QED
        BY <1>12, <1>13, <3>2, <3>3, <4>1 DEF k
    <3>4. CASE i # 1
      <4>1. /\ i \in 2 .. rest + 1 /\ i + j - 2 \in 1 .. size - 1
            /\ (i + j - 2) + 1 = i + j - 1 /\ i + j - 1 \in j + 1 .. size
            /\ i + j - 1 \in 1 .. size
        BY <1>3, <3>4
      <4>2. q[i] = p[i + j - 2] /\ t.parent[p[i + j - 1]] = p[i + j - 2]
        BY <1>6, <1>12, <4>1
      <4>3. p[i + j - 1] # k /\ p[i + j - 1] \in 1 .. n
        BY <1>3, <1>4, <1>7, <4>1
      <4>. QED
        BY <1>13, <3>2, <4>2, <4>3
    <3>. QED
      BY <3>3, <3>4
  <2>4. Len(q) - 1 = rest
    BY <1>3, <1>12
  <2>. HIDE DEF rest
  <2>. QED
    BY <2>1, <2>2, <2>3, <2>4 DEF Linked
<1>15. ActiveLeafPath(more) = q
  BY <1>1, <1>12, <1>14, PathOf DEF g, N
<1>16. rest + 1 = size - j + 2
  BY <1>3
<1>. QED
  BY <1>12, <1>14, <1>15, <1>16 DEF n, more, g, q, h, tail, size

(* A record that does not cut: the transcript goes on as it was. *)
LEMMA MessagesGrow ==
  ASSUME NEW recs \in Seq(Entries), NEW rec \in Entries,
         ~(rec.kind = "compaction" /\ rec.kept \in 1 .. Len(recs)),
         Linked(ActiveLeafPath(recs), Reduce(recs))
  PROVE  /\ Len(Messages(recs)) <= Len(Messages(Append(recs, rec)))
         /\ \A i \in 1 .. Len(Messages(recs)) : Messages(Append(recs, rec))[i] = Messages(recs)[i]
<1>. DEFINE n == Len(recs)
            more == Append(recs, rec)
            p == ActiveLeafPath(recs)
            q == Append(p, n + 1)
            T == {id \in Ids(recs) : Shown(recs, id)}
            U == {id \in Ids(more) : Shown(more, id)}
            N == Ids(more)
            m == Messages(recs)
<1>1. p \in Seq(Ids(recs)) /\ ActiveLeafPath(more) = q
  BY PathType, LinkGrows
<1>2. /\ n \in Nat /\ more \in Seq(Entries) /\ Len(more) = n + 1
      /\ \A i \in 1 .. n : more[i] = recs[i]
  BY AppendProperties
<1>3. Ids(recs) \subseteq N /\ n + 1 \in N
  BY <1>2 DEF Ids
<1>4. \A id \in Ids(recs) : id \in T <=> id \in U
  BY <1>2, <1>3 DEF Ids, Shown
<1>5. m = Only(p, T) /\ m \in Seq(Ids(recs)) /\ Messages(more) = Only(q, U)
  BY <1>1, <1>2, MessagesType
<1>. HIDE DEF n, more, p, T, U, N, m
<1>6. \A i \in 1 .. Len(p) : p[i] \in T <=> p[i] \in U
  BY <1>1, <1>4
<1>7. Only(p, T) = Only(p, U)
  BY <1>1, <1>6, OnlySame
<1>8. p \in Seq(N) /\ m \in Seq(N)
  BY <1>1, <1>3, <1>5, SeqMonotonic
<1>. HIDE DEF q
<1>9. Only(q, U) = Keep(m, n + 1, U)
  BY <1>3, <1>5, <1>7, <1>8, OnlyAppend DEF q
<1>10. /\ Len(Append(m, n + 1)) = Len(m) + 1 /\ Len(m) \in Nat
       /\ \A i \in 1 .. Len(m) : Append(m, n + 1)[i] = m[i]
  BY <1>3, <1>8, AppendProperties
<1>11. Messages(more) = m \/ Messages(more) = Append(m, n + 1)
  BY <1>5, <1>9 DEF Keep
<1>. QED
  BY <1>10, <1>11 DEF m, more

(* A transcript that was loaded is the beginning of the transcript after a
   record that cuts nothing. *)
LEMMA LoadGrows ==
  ASSUME NEW recs \in Seq(Entries), NEW rec \in Entries,
         ~(rec.kind = "compaction" /\ rec.kept \in 1 .. Len(recs)),
         Linked(ActiveLeafPath(recs), Reduce(recs))
  PROVE  /\ Len(Load(recs)) <= Len(Load(Append(recs, rec)))
         /\ \A i \in 1 .. Len(Load(recs)) : Load(Append(recs, rec))[i] = Load(recs)[i]
<1>. DEFINE more == Append(recs, rec)
            m == Messages(recs)
            w == Messages(more)
            a == Load(recs)
            b == Load(more)
            k == Len(Prompt)
<1>1. more \in Seq(Entries)
  BY AppendProperties
<1>2. Len(m) <= Len(w) /\ \A i \in 1 .. Len(m) : w[i] = m[i]
  BY MessagesGrow
<1>3. /\ Len(a) = k + Len(m)
      /\ \A i \in 1 .. Len(a) : a[i] = IF i <= k THEN 0 ELSE m[i - k]
  BY LoadIs
<1>4. /\ Len(b) = k + Len(w)
      /\ \A i \in 1 .. Len(b) : b[i] = IF i <= k THEN 0 ELSE w[i - k]
  BY <1>1, LoadIs
<1>5. Len(m) \in Nat /\ Len(w) \in Nat /\ k \in Nat
  <2>1. m \in Seq(Ids(recs)) /\ w \in Seq(Ids(more))
    BY <1>1, MessagesType
  <2>. HIDE DEF m, w
  <2>. QED
    BY <2>1, PromptType
<1>. HIDE DEF more, m, w, a, b, k
<1>6. \A i \in 1 .. Len(a) : i \in 1 .. Len(b) /\ (~(i <= k) => i - k \in 1 .. Len(m))
  BY <1>2, <1>3, <1>4, <1>5
<1>7. \A i \in 1 .. Len(a) : b[i] = a[i]
  <2>. TAKE i \in 1 .. Len(a)
  <2>1. CASE i <= k
    BY <1>3, <1>4, <1>6, <2>1
  <2>2. CASE ~(i <= k)
    BY <1>2, <1>3, <1>4, <1>6, <2>2
  <2>. QED
    BY <2>1, <2>2
<1>8. Len(a) <= Len(b)
  BY <1>2, <1>3, <1>4, <1>5
<1>. QED
  BY <1>7, <1>8 DEF more, a, b

----------------------------------------------------------------------------
(* The steps. *)

(* The set of the elements of a sequence. *)
LEMMA OnPathIs ==
  ASSUME NEW S, NEW q \in Seq(S)
  PROVE  ToSet(q) = {q[i] : i \in 1 .. Len(q)}
  BY DEF ToSet

(* The active path, as a sequence and as a set. *)
LEMMA PathFacts ==
  ASSUME TypeOK
  PROVE  /\ Path \in Seq(Ids(log)) /\ Len(Path) \in Nat
         /\ \A i \in 1 .. Len(Path) : Path[i] \in Ids(log)
         /\ OnPath = {Path[i] : i \in 1 .. Len(Path)}
<1>. DEFINE N == Ids(log)
<1>1. Path \in Seq(N)
  BY TreeTypes, PathType DEF Path
<1>. HIDE DEF N
<1>2. OnPath = {Path[i] : i \in 1 .. Len(Path)}
  BY <1>1, OnPathIs DEF OnPath
<1>. QED
  BY <1>1, <1>2 DEF N

PathIsList == OnPath = {Path[i] : i \in 1 .. Len(Path)}

(* The active path is a sequence of records. *)
LEMMA PathListed == TypeOK => PathIsList
  BY PathFacts DEF PathIsList

(* The same of the next state. *)
LEMMA PathListedNext == TypeOK' => PathIsList'
  BY PathListed, PTL

(* A record that does not cut. *)
LEMMA GrowStep ==
  ASSUME TypeOK, Linked(Path, Tree), InLine, CoversTrue, NoMessageLost, NoDoubleCount,
         NEW rec \in Entries, rec.kept = 0,
         NEW cov \in SUBSET Ids(log), cov = {} \/ rec.kind # "silent",
         Room, log' = Append(log, rec), covers' = Append(covers, cov),
         at' \in [Compactors -> States]
  PROVE  /\ Linked(Path, Tree)' /\ InLine'
         /\ CoversTrue' /\ NoMessageLost' /\ NoDoubleCount'
<1>. DEFINE n == Len(log)
            p == Path
            q == Path'
            size == Len(p)
            N == Ids(log)
<1>1. /\ TypeOK' /\ Len(log') = n + 1 /\ log'[n + 1] = rec
      /\ \A i \in N : log'[i] = log[i] /\ covers'[i] = covers[i]
      /\ covers'[n + 1] = cov
      /\ Ids(log') = N \cup {n + 1} /\ n + 1 \notin N
  <2>1. rec.kept <= Len(log)
    BY TreeTypes
  <2>. QED
    BY <2>1, TypeAppend
<1>2. /\ log \in Seq(Entries) /\ n \in Nat /\ N = 1 .. n
      /\ \A id \in N : log[id].kept \in Nat /\ log[id].kept < id
  BY TreeTypes DEF Ids, Entries
<1>3. p \in Seq(N) /\ size \in Nat /\ \A i \in 1 .. size : p[i] \in N
  BY PathFacts
<1>4. /\ Linked(Append(p, n + 1), Reduce(Append(log, rec)))
      /\ ActiveLeafPath(Append(log, rec)) = Append(p, n + 1)
  BY <1>2, <1>3, LinkGrows DEF Tree
<1>5. q = Append(p, n + 1) /\ Linked(Path, Tree)'
  BY <1>4 DEF Path, Tree
<1>. HIDE DEF n, p, q, size, N
<1>6. /\ Len(q) = size + 1 /\ q[size + 1] = n + 1
      /\ \A i \in 1 .. size : q[i] = p[i]
  <2>. DEFINE M == Ids(log')
  <2>1. N \subseteq M /\ n + 1 \in M
    BY <1>1
  <2>. HIDE DEF M
  <2>2. p \in Seq(M)
    BY <1>3, <2>1, SeqMonotonic
  <2>. QED
    BY <1>5, <2>1, <2>2, AppendProperties DEF size
<1>7. Cuts' = Cuts /\ Cuts \subseteq N
  BY <1>1 DEF Cuts, N
<1>8. /\ OnPath = {p[i] : i \in 1 .. size}
      /\ OnPath' = {q[i] : i \in 1 .. size + 1}
  <2>1. OnPath = {p[i] : i \in 1 .. size}
    BY PathFacts DEF p, size
  <2>2. TypeOK' => OnPath' = {q[i] : i \in 1 .. Len(q)}
    BY PathListedNext DEF PathIsList, q
  <2>. QED
    BY <1>1, <1>6, <2>1, <2>2
<1>9. OnPath' = OnPath \cup {n + 1} /\ OnPath \subseteq N
  <2>1. \A i \in 1 .. size + 1 : i \in 1 .. size \/ i = size + 1
    BY <1>3
  <2>2. size + 1 \in 1 .. size + 1 /\ \A i \in 1 .. size : i \in 1 .. size + 1
    BY <1>3
  <2>3. OnPath \subseteq N
    BY <1>3, <1>8
  <2>4. OnPath' = {q[i] : i \in 1 .. size} \cup {q[size + 1]}
    BY <1>8, <2>1, <2>2
  <2>5. {q[i] : i \in 1 .. size} = {p[i] : i \in 1 .. size}
    BY <1>6
  <2>. QED
    BY <1>6, <1>8, <2>3, <2>4, <2>5
<1>10. \A id \in N : Shown(log', id) <=> Shown(log, id)
  BY <1>1 DEF Shown
<1>11. InLine'
  <2>1. CASE Cuts = {} /\ Uncut(p)
    <3>1. size = n /\ \A i \in 1 .. n : p[i] = i
      BY <1>2, <2>1 DEF Uncut, size, N, n
    <3>3. Len(q) = n + 1 /\ \A i \in 1 .. n + 1 : q[i] = i
      <4>1. \A i \in 1 .. n + 1 : i \in 1 .. n \/ i = n + 1
        BY <1>2
      <4>. QED
        BY <1>6, <3>1, <4>1
    <3>2. Uncut(Path)'
      <4>1. Len(log') = n + 1 /\ Ids(log') = 1 .. n + 1
        BY <1>1, <1>2
      <4>. QED
        BY <3>3, <4>1 DEF Uncut, q
    <3>. QED
      BY <1>7, <2>1, <3>2 DEF InLine
  <2>2. ASSUME NEW last \in Cuts, CutAt(p, last) PROVE InLine'
    <3>1. /\ \A cut \in Cuts : cut <= last
          /\ size # 0 /\ p[1] = last
          /\ \A i, j \in 2 .. size : i < j => p[i] < p[j]
          /\ \A id \in N :
               id >= log[last].kept /\ id \notin Cuts <=> \E i \in 2 .. size : p[i] = id
      BY <1>3, <2>2 DEF CutAt, size, N
    <3>2. last \in N /\ log'[last] = log[last] /\ log[last].kept \in Nat /\ log[last].kept <= n
      BY <1>1, <1>2, <1>7, <2>2
    <3>3. q # <<>> /\ q[1] = last
      BY <1>3, <1>5, <1>6, <3>1
    <3>4. \A i, j \in 2 .. size + 1 : i < j => q[i] < q[j]
      <4>. TAKE i, j \in 2 .. size + 1
      <4>. HAVE i < j
      <4>1. i \in 2 .. size /\ i \in 1 .. size
        BY <1>3
      <4>2. CASE j = size + 1
        <5>1. q[i] = p[i] /\ p[i] \in 1 .. n /\ q[j] = n + 1
          BY <1>2, <1>3, <1>6, <4>1, <4>2
        <5>. QED
          BY <1>2, <5>1
      <4>3. CASE j \in 2 .. size
        BY <1>3, <1>6, <3>1, <4>1, <4>3
      <4>. QED
        BY <1>3, <4>2, <4>3
    <3>5. \A id \in N \cup {n + 1} :
            id >= log[last].kept /\ id \notin Cuts <=> \E i \in 2 .. size + 1 : q[i] = id
      <4>. TAKE id \in N \cup {n + 1}
      <4>1. CASE id \in N
        <5>1. \A i \in 2 .. size + 1 : q[i] = id <=> i \in 2 .. size /\ p[i] = id
          <6>. TAKE i \in 2 .. size + 1
          <6>1. i \in 2 .. size \/ i = size + 1
            BY <1>3
          <6>2. i \in 2 .. size => i \in 1 .. size
            BY <1>3
          <6>3. size + 1 \notin 2 .. size
            BY <1>3
          <6>. QED
            BY <1>1, <1>6, <4>1, <6>1, <6>2, <6>3
        <5>2. \A i \in 2 .. size : i \in 2 .. size + 1
          BY <1>3
        <5>. QED
          BY <3>1, <4>1, <5>1, <5>2
      <4>2. CASE id = n + 1
        <5>1. id >= log[last].kept /\ id \notin Cuts
          BY <1>1, <1>2, <1>7, <3>2, <4>2
        <5>2. size + 1 \in 2 .. size + 1 /\ q[size + 1] = id
          BY <1>3, <1>6, <3>1, <4>2
        <5>. QED
          BY <5>1, <5>2
      <4>. QED
        BY <4>1, <4>2
    <3>6. CutAt(Path, last)'
      BY <1>1, <1>6, <1>7, <2>2, <3>1, <3>2, <3>3, <3>4, <3>5 DEF CutAt, q
    <3>. QED
      BY <1>7, <2>2, <3>6 DEF InLine
  <2>. QED
    BY <2>1, <2>2 DEF InLine, CutAt, p
<1>12. CoversTrue'
  <2>1. \A id \in N : \A m \in covers'[id] : m < id /\ Shown(log', id)
    BY <1>1, <1>10 DEF CoversTrue, N
  <2>2. \A m \in cov : m < n + 1 /\ Shown(log', n + 1)
    BY <1>1, <1>2 DEF Shown, N
  <2>. QED
    BY <1>1, <2>1, <2>2 DEF CoversTrue
<1>13. NoMessageLost'
  <2>1. ASSUME NEW id \in N, Shown(log', id)
        PROVE  id \in OnPath' \/ \E s \in OnPath' : id \in covers'[s]
    <3>1. id \in OnPath \/ \E s \in OnPath : id \in covers[s]
      BY <1>10, <2>1 DEF NoMessageLost, N
    <3>. QED
      BY <1>1, <1>9, <3>1
  <2>. QED
    BY <1>1, <1>9, <2>1 DEF NoMessageLost
<1>14. NoDoubleCount'
  <2>. SUFFICES ASSUME NEW s \in OnPath' \cap Cuts' PROVE covers'[s] \cap OnPath' = {}
    BY DEF NoDoubleCount
  <2>1. s \in OnPath \cap Cuts /\ s \in N
    BY <1>1, <1>7, <1>9
  <2>2. covers'[s] = covers[s] /\ covers[s] \cap OnPath = {}
    BY <1>1, <2>1 DEF NoDoubleCount
  <2>3. \A m \in covers[s] : m < s
    BY <2>1 DEF CoversTrue, N
  <2>4. n + 1 \notin covers[s]
    BY <1>2, <2>1, <2>3
  <2>. QED
    BY <1>9, <2>2, <2>4
<1>. QED
  BY <1>5, <1>11, <1>12, <1>13, <1>14

(* Only the first record of the path may be a cut, and behind it the records
   of the path grow. *)
LEMMA PathShape ==
  ASSUME TypeOK, InLine
  PROVE  /\ \A a, b \in 1 .. Len(Path) : a < b => Path[a] < Path[b] \/ Path[a] \in Cuts
         /\ \A a, b \in 2 .. Len(Path) : a < b => Path[a] < Path[b]
         /\ \A a \in 2 .. Len(Path) : Path[a] \notin Cuts
         /\ \A a, b \in 1 .. Len(Path) : a < b => Path[a] # Path[b]
         /\ \A j \in 2 .. Len(Path), id \in Ids(log) :
              id >= Path[j] /\ id \notin Cuts <=> \E i \in j .. Len(Path) : Path[i] = id
<1>. DEFINE p == Path
            size == Len(p)
            N == Ids(log)
<1>0. size \in Nat /\ N \subseteq Nat /\ \A i \in 1 .. size : p[i] \in N
  BY PathFacts DEF Ids
<1>1. /\ size \in Nat /\ N \subseteq Nat
      /\ \A i \in 1 .. size : p[i] \in N /\ p[i] \in Nat
  <2>. HIDE DEF p, N, size
  <2>. QED
    BY <1>0
<1>2. \A i \in 2 .. size : i \in 1 .. size
  BY <1>1
<1>3. /\ \A a, b \in 2 .. size : a < b => p[a] < p[b]
      /\ \A a \in 2 .. size : p[a] \notin Cuts
      /\ \A b \in 2 .. size : p[1] < p[b] \/ p[1] \in Cuts
      /\ \A j \in 2 .. size, id \in N :
              id >= p[j] /\ id \notin Cuts => \E i \in 2 .. size : p[i] = id
  <2>1. CASE Cuts = {} /\ Uncut(p)
    <3>1. \A i \in 1 .. size : p[i] = i
      BY <1>1, <2>1 DEF Uncut, Ids, N, size
    <3>2. N = 1 .. size
      BY <2>1 DEF Uncut, Ids, N, size
    <3>. HIDE DEF N, p, size
    <3>3. \A j \in 2 .. size, id \in N : id >= p[j] => id \in 2 .. size /\ p[id] = id
      BY <1>1, <1>2, <3>1, <3>2
    <3>4. /\ \A a, b \in 2 .. size : a < b => p[a] < p[b]
          /\ \A b \in 2 .. size : p[1] < p[b]
      BY <1>1, <1>2, <3>1
    <3>. QED
      BY <2>1, <3>3, <3>4
  <2>2. ASSUME NEW last \in Cuts, CutAt(p, last) PROVE <1>3!1 /\ <1>3!2 /\ <1>3!3 /\ <1>3!4
    <3>1. /\ p[1] \in Cuts
          /\ \A i, j \in 2 .. size : i < j => p[i] < p[j]
          /\ \A id \in N :
               id >= log[last].kept /\ id \notin Cuts <=> \E i \in 2 .. size : p[i] = id
      BY <2>2 DEF CutAt, size, N
    <3>2. last \in N /\ log[last].kept \in Nat
      BY <2>2, TreeTypes DEF Cuts, Entries
    <3>. HIDE DEF p, N, size
    <3>3. \A a \in 2 .. size : p[a] \notin Cuts /\ p[a] >= log[last].kept
      BY <1>1, <1>2, <3>1
    <3>4. \A j \in 2 .. size, id \in N : id >= p[j] => id >= log[last].kept
      <4>. TAKE j \in 2 .. size, id \in N
      <4>1. p[j] \in Nat /\ id \in Nat
        BY <1>1, <1>2
      <4>. QED
        BY <3>2, <3>3, <4>1
    <3>. QED
      BY <3>1, <3>3, <3>4
  <2>. QED
    BY <2>1, <2>2 DEF InLine, p
<1>. HIDE DEF p, size, N
<1>4. \A a, b \in 1 .. size : a < b => p[a] < p[b] \/ p[a] \in Cuts
  <2>. TAKE a, b \in 1 .. size
  <2>1. a < b => b \in 2 .. size
    BY <1>1
  <2>2. a = 1 \/ a \in 2 .. size
    BY <1>1
  <2>. QED
    BY <1>3, <2>1, <2>2
<1>5. \A a, b \in 1 .. size : a < b => p[a] # p[b]
  <2>. TAKE a, b \in 1 .. size
  <2>. HAVE a < b
  <2>1. b \in 2 .. size /\ p[a] \in Nat /\ p[b] \in Nat
    BY <1>1
  <2>. QED
    BY <1>3, <1>4, <2>1
<1>6. ASSUME NEW j \in 2 .. size, NEW id \in N
      PROVE  id >= p[j] /\ id \notin Cuts <=> \E i \in j .. size : p[i] = id
  <2>1. ASSUME id >= p[j], id \notin Cuts PROVE \E i \in j .. size : p[i] = id
    <3>1. PICK i \in 2 .. size : p[i] = id
      BY <1>3, <2>1
    <3>2. i < j => p[i] < p[j]
      BY <1>3
    <3>3. p[i] \in Nat /\ p[j] \in Nat
      BY <1>1, <1>2
    <3>4. i \in j .. size
      BY <1>1, <2>1, <3>1, <3>2, <3>3
    <3>. QED
      BY <3>1, <3>4
  <2>2. ASSUME NEW i \in j .. size, p[i] = id PROVE id >= p[j] /\ id \notin Cuts
    <3>1. i \in 2 .. size /\ i \in 1 .. size /\ j \in 1 .. size
      BY <1>1
    <3>4. p[i] \in Nat /\ p[j] \in Nat
      BY <1>1, <3>1
    <3>2. j < i => p[j] < p[i]
      BY <1>3, <3>1
    <3>3. j < i \/ j = i
      BY <1>1
    <3>. QED
      BY <1>3, <2>2, <3>1, <3>2, <3>3, <3>4
  <2>. QED
    BY <2>1, <2>2
<1>. QED
  BY <1>3, <1>4, <1>5, <1>6 DEF p, size, N

(* The messages before the index are those the path had before the record to
   keep. *)
LEMMA CutFacts ==
  ASSUME TypeOK, NEW c \in Compactors, at[c].pc = "append", at[c].kept # 0,
         ViewTrue(c), KeptTrue(c)
  PROVE  \E j \in 2 .. Len(Path) :
           /\ Path[j] = at[c].kept
           /\ \A h \in 1 .. j - 1 :
                Shown(log, Path[h]) => \E i \in 1 .. at[c].endIdx : at[c].view[i] = Path[h]
           /\ \A i \in 1 .. at[c].endIdx :
                at[c].view[i] # 0 => \E h \in 1 .. j - 1 : at[c].view[i] = Path[h]
<1>. DEFINE p == Path
            N == Ids(log)
            T == {id \in N : Shown(log, id)}
            mm == Messages(log)
            all == Load(log)
            k == Len(Prompt)
            e == at[c].endIdx
            m == e - k + 1
            view == at[c].view
<1>1. log \in Seq(Entries) /\ p \in Seq(N) /\ \A i \in 1 .. Len(p) : p[i] \in N
  BY TreeTypes, PathFacts
<1>2. mm = Only(p, T) /\ mm \in Seq(N) /\ \A i \in 1 .. Len(mm) : mm[i] \in N
  <2>1. mm = Only(p, T) /\ mm \in Seq(N)
    BY <1>1, MessagesType DEF Path
  <2>. HIDE DEF mm, N, T, p
  <2>. QED
    BY <2>1
<1>3. /\ Len(all) = k + Len(mm)
      /\ \A i \in 1 .. Len(all) : all[i] = IF i <= k THEN 0 ELSE mm[i - k]
  BY <1>1, LoadIs
<1>4. /\ Len(view) <= Len(all) /\ \A i \in 1 .. Len(view) : view[i] = all[i]
      /\ e \in k + 1 .. Len(view)
  BY DEF ViewTrue
<1>5. m \in 1 .. Len(mm) /\ at[c].kept = mm[m]
  BY DEF KeptTrue
<1>6. /\ k \in Nat /\ Len(mm) \in Nat /\ Len(view) \in Nat /\ Len(p) \in Nat
      /\ 0 \notin N
  <2>1. view \in Seq(Nat)
    BY TreeTypes
  <2>2. Len(view) \in Nat
    BY <2>1
  <2>3. Len(mm) \in Nat
    <3>. HIDE DEF mm
    <3>. QED
      BY <1>2
  <2>. QED
    BY <2>2, <2>3, PromptType, PathFacts DEF Ids
<1>. HIDE DEF p, N, T, mm, all, k, view
<1>7. PICK j \in 1 .. Len(p) : Found(mm, m, p, j, T)
  BY <1>1, <1>2, <1>5, OnlyFinds
<1>8. /\ m <= j /\ mm[m] = p[j]
      /\ \A h \in 1 .. j - 1 : p[h] \in T => \E l \in 1 .. m - 1 : mm[l] = p[h]
      /\ \A l \in 1 .. m - 1 : \E h \in 1 .. j - 1 : mm[l] = p[h]
  BY <1>7 DEF Found
<1>. HIDE DEF e
<1>9. j \in 2 .. Len(p) /\ e \in Nat
  BY <1>4, <1>6, <1>8
<1>10. \A i \in 1 .. e : i \in 1 .. Len(view) /\ i \in 1 .. Len(all)
  BY <1>3, <1>4, <1>6
<1>11. ASSUME NEW h \in 1 .. j - 1, Shown(log, p[h])
       PROVE  \E i \in 1 .. e : view[i] = p[h]
  <2>1. p[h] \in T
    <3>1. h \in 1 .. Len(p)
      BY <1>6
    <3>. QED
      BY <1>1, <1>11, <3>1 DEF T
  <2>2. PICK l \in 1 .. m - 1 : mm[l] = p[h]
    BY <1>8, <2>1
  <2>3. l + k \in 1 .. e /\ ~(l + k <= k) /\ (l + k) - k = l
    BY <1>4, <1>6, <1>9
  <2>4. view[l + k] = p[h]
    BY <1>3, <1>4, <1>10, <2>2, <2>3
  <2>. QED
    BY <2>3, <2>4
<1>12. ASSUME NEW i \in 1 .. e, view[i] # 0
       PROVE  \E h \in 1 .. j - 1 : view[i] = p[h]
  <2>1. view[i] = IF i <= k THEN 0 ELSE mm[i - k]
    BY <1>3, <1>4, <1>10
  <2>2. ~(i <= k) /\ view[i] = mm[i - k]
    BY <1>12, <2>1
  <2>3. i - k \in 1 .. m - 1
    BY <1>6, <1>9, <2>2
  <2>. QED
    BY <1>8, <2>2, <2>3
<1>. QED
  BY <1>5, <1>8, <1>9, <1>11, <1>12 DEF p, view, e

(* A summary that cuts the path. *)
LEMMA CutStep ==
  ASSUME TypeOK, Held, Linked(Path, Tree), InLine, CoversTrue, NoMessageLost, NoDoubleCount,
         NEW c \in Compactors, at[c].pc = "append", at[c].kept # 0,
         ViewTrue(c), KeptTrue(c), Room,
         log' = Append(log, [kind |-> "compaction", kept |-> at[c].kept]),
         covers' = Append(covers, Summarized(c)),
         at' \in [Compactors -> States]
  PROVE  /\ Linked(Path, Tree)' /\ InLine'
         /\ CoversTrue' /\ NoMessageLost' /\ NoDoubleCount'
<1>. DEFINE n == Len(log)
            p == Path
            q == Path'
            size == Len(p)
            N == Ids(log)
            rec == [kind |-> "compaction", kept |-> at[c].kept]
            cov == Summarized(c)
            before == {at[c].view[i] : i \in 1 .. at[c].endIdx} \ {0}
<1>1. /\ TypeOK' /\ Len(log') = n + 1 /\ log'[n + 1] = rec
      /\ \A i \in N : log'[i] = log[i] /\ covers'[i] = covers[i]
      /\ covers'[n + 1] = cov
      /\ Ids(log') = N \cup {n + 1} /\ n + 1 \notin N
      /\ rec \in Entries /\ cov \in SUBSET N
  <2>1. rec \in Entries /\ rec.kept <= Len(log)
    BY EndsWithin DEF Held
  <2>2. cov \in SUBSET N
    <3>1. at[c].endIdx <= Len(at[c].view)
      BY DEF Held
    <3>. QED
      BY <3>1, SummarizedType
  <2>. HIDE DEF cov
  <2>3. log' = Append(log, rec) /\ covers' = Append(covers, cov)
    BY DEF cov
  <2>. HIDE DEF rec
  <2>. QED
    BY <2>1, <2>2, <2>3, TypeAppend
<1>2. /\ log \in Seq(Entries) /\ n \in Nat /\ N = 1 .. n
      /\ \A id \in N : log[id].kept \in Nat /\ log[id].kept < id
  BY TreeTypes DEF Ids, Entries
<1>3. p \in Seq(N) /\ size \in Nat /\ \A i \in 1 .. size : p[i] \in N
  BY PathFacts
<1>4. /\ \A a, b \in 1 .. size : a < b => p[a] < p[b] \/ p[a] \in Cuts
      /\ \A a, b \in 2 .. size : a < b => p[a] < p[b]
      /\ \A a \in 2 .. size : p[a] \notin Cuts
      /\ \A a, b \in 1 .. size : a < b => p[a] # p[b]
      /\ \A j \in 2 .. size, id \in N :
           id >= p[j] /\ id \notin Cuts <=> \E i \in j .. size : p[i] = id
  BY PathShape
<1>5. PICK j \in 2 .. size :
        /\ p[j] = at[c].kept
        /\ \A h \in 1 .. j - 1 :
             Shown(log, p[h]) => \E i \in 1 .. at[c].endIdx : at[c].view[i] = p[h]
        /\ \A i \in 1 .. at[c].endIdx :
             at[c].view[i] # 0 => \E h \in 1 .. j - 1 : at[c].view[i] = p[h]
  BY CutFacts
<1>6. /\ \A h \in 1 .. j - 1 : Shown(log, p[h]) => p[h] \in before
      /\ \A b \in before : \E h \in 1 .. j - 1 : b = p[h]
      /\ cov = before \cup UNION {covers[id] : id \in before}
  <2>1. \A h \in 1 .. j - 1 : h \in 1 .. size
    BY <1>3
  <2>2. 0 \notin N /\ \A h \in 1 .. j - 1 : p[h] \in N
    BY <1>2, <1>3, <2>1
  <2>3. cov = before \cup UNION {covers[id] : id \in before}
    BY DEF Summarized
  <2>. HIDE DEF p, N, cov
  <2>4. \A h \in 1 .. j - 1 : Shown(log, p[h]) => p[h] \in before
    BY <1>5, <2>2
  <2>5. \A b \in before : \E h \in 1 .. j - 1 : b = p[h]
    BY <1>5
  <2>. QED
    BY <2>3, <2>4, <2>5
<1>. DEFINE rest == size - j + 2
<1>7. /\ Linked(Path, Tree)'
      /\ Len(q) = rest /\ q[1] = n + 1
      /\ \A i \in 2 .. rest : q[i] = p[i + j - 2]
  <2>1. rec.kept = p[j] /\ rec.kind = "compaction" /\ j \in 1 .. size
    <3>1. p[j] = at[c].kept
      BY <1>5
    <3>2. j \in 1 .. size
      BY <1>3
    <3>. QED
      BY <3>1, <3>2
  <2>2. \A i \in j + 1 .. size : p[i] # p[j]
    BY <1>3, <1>4
  <2>3. log' = Append(log, rec) /\ Linked(p, Reduce(log)) /\ rec \in Entries
    BY <1>1 DEF Tree
  <2>. HIDE DEF p, rec, q, before, cov
  <2>4. /\ Linked(<<n + 1>> \o SubSeq(p, j, size), Reduce(Append(log, rec)))
        /\ ActiveLeafPath(Append(log, rec)) = <<n + 1>> \o SubSeq(p, j, size)
        /\ Len(ActiveLeafPath(Append(log, rec))) = rest
        /\ ActiveLeafPath(Append(log, rec))[1] = n + 1
        /\ \A i \in 2 .. rest : ActiveLeafPath(Append(log, rec))[i] = p[i + j - 2]
    BY <1>2, <1>3, <2>1, <2>2, <2>3, LinkCuts
  <2>5. q = ActiveLeafPath(Append(log, rec))
    BY <2>3 DEF Path, q
  <2>6. Linked(Path, Tree)'
    BY <2>3, <2>4 DEF Path, Tree
  <2>. QED
    BY <2>4, <2>5, <2>6
<1>. HIDE DEF p, q, N, before
<1>8. /\ rest \in Nat /\ rest >= 2
      /\ \A i \in 2 .. rest : i + j - 2 \in j .. size /\ i + j - 2 \in 1 .. size /\ i + j - 2 \in 2 .. size
      /\ \A i \in j .. size : i - j + 2 \in 2 .. rest /\ (i - j + 2) + j - 2 = i
  BY <1>3, <1>5
<1>9. /\ at[c].kept \in 1 .. n
      /\ Cuts' = Cuts \cup {n + 1} /\ Cuts \subseteq N
      /\ log'[n + 1].kept = p[j]
  <2>1. at[c].kept \in 1 .. n
    BY <1>2, <1>3, <1>5
  <2>2. log'[n + 1].kept # 0 /\ log'[n + 1].kept = p[j]
    BY <1>1, <1>5, <2>1
  <2>3. \A id \in N : log'[id].kept # 0 <=> log[id].kept # 0
    BY <1>1
  <2>. QED
    BY <1>1, <2>1, <2>2, <2>3 DEF Cuts, N
<1>. HIDE DEF n, size, rec, cov, rest
<1>10. /\ OnPath = {p[i] : i \in 1 .. size}
       /\ OnPath' = {q[i] : i \in 1 .. rest}
  <2>1. OnPath = {p[i] : i \in 1 .. size}
    BY PathFacts DEF p, size
  <2>2. OnPath' = {q[i] : i \in 1 .. Len(q)}
    BY <1>1, PathListedNext DEF PathIsList, q
  <2>. QED
    BY <1>7, <2>1, <2>2
<1>11. /\ n + 1 \in OnPath' /\ \A i \in j .. size : p[i] \in OnPath'
       /\ \A x \in OnPath' : x = n + 1 \/ \E i \in j .. size : x = p[i]
  <2>1. n + 1 \in OnPath'
    <3>1. 1 \in 1 .. rest
      BY <1>8
    <3>. QED
      BY <1>7, <1>10, <3>1
  <2>2. ASSUME NEW i \in j .. size PROVE p[i] \in OnPath'
    <3>1. i - j + 2 \in 2 .. rest /\ i - j + 2 \in 1 .. rest /\ q[i - j + 2] = p[i]
      <4>1. i - j + 2 \in 2 .. rest /\ (i - j + 2) + j - 2 = i
        BY <1>8
      <4>2. q[i - j + 2] = p[i]
        BY <1>7, <4>1
      <4>3. \A k \in 2 .. rest : k \in 1 .. rest
        BY <1>8
      <4>. QED
        BY <4>1, <4>2, <4>3
    <3>. QED
      BY <1>10, <3>1
  <2>3. ASSUME NEW x \in OnPath' PROVE x = n + 1 \/ \E i \in j .. size : x = p[i]
    <3>1. PICK i \in 1 .. rest : x = q[i]
      BY <1>10
    <3>2. i = 1 \/ i \in 2 .. rest
      BY <1>8
    <3>. QED
      BY <1>7, <1>8, <3>1, <3>2
  <2>. QED
    BY <2>1, <2>2, <2>3
<1>12. \A id \in N : Shown(log', id) <=> Shown(log, id)
  BY <1>1 DEF Shown
<1>13. InLine'
  <2>1. q # <<>>
    BY <1>7, <1>8
  <2>2. \A cut \in Cuts' : cut <= n + 1
    <3>1. \A x \in N \cup {n + 1} : x <= n + 1
      BY <1>2
    <3>. QED
      BY <1>9, <3>1
  <2>3. \A a, b \in 2 .. rest : a < b => q[a] < q[b]
    <3>. TAKE a, b \in 2 .. rest
    <3>. HAVE a < b
    <3>1. a + j - 2 < b + j - 2
      BY <1>5, <1>3
    <3>2. a + j - 2 \in 2 .. size /\ b + j - 2 \in 2 .. size
      BY <1>8
    <3>3. p[a + j - 2] < p[b + j - 2]
      BY <1>4, <3>1, <3>2
    <3>4. q[a] = p[a + j - 2] /\ q[b] = p[b + j - 2]
      BY <1>7
    <3>. QED
      BY <3>3, <3>4
  <2>4. ASSUME NEW id \in N \cup {n + 1}
        PROVE  id >= p[j] /\ id \notin Cuts' <=> \E i \in 2 .. rest : q[i] = id
    <3>1. CASE id = n + 1
      <4>1. \A i \in 2 .. rest : q[i] = p[i + j - 2] /\ p[i + j - 2] \in N
        BY <1>3, <1>7, <1>8
      <4>. QED
        BY <1>1, <1>9, <3>1, <4>1
    <3>2. CASE id \in N
      <4>1. id \notin Cuts' <=> id \notin Cuts
        BY <1>1, <1>9, <3>2
      <4>2. (\E i \in 2 .. rest : q[i] = id) <=> (\E i \in j .. size : p[i] = id)
        <5>1. ASSUME NEW i \in 2 .. rest, q[i] = id PROVE \E l \in j .. size : p[l] = id
          BY <1>7, <1>8, <5>1
        <5>2. ASSUME NEW l \in j .. size, p[l] = id PROVE \E i \in 2 .. rest : q[i] = id
          <6>1. l - j + 2 \in 2 .. rest /\ (l - j + 2) + j - 2 = l
            BY <1>8
          <6>2. q[l - j + 2] = id
            BY <1>7, <5>2, <6>1
          <6>. QED
            BY <6>1, <6>2
        <5>. QED
          BY <5>1, <5>2
      <4>. QED
        BY <1>4, <1>5, <3>2, <4>1, <4>2
    <3>. QED
      BY <3>1, <3>2
  <2>. PICK last : last = n + 1
    OBVIOUS
  <2>5. CutAt(Path, last)'
    <3>1. last \in Cuts' /\ Ids(log') = N \cup {n + 1} /\ log'[last].kept = p[j]
      BY <1>1, <1>9
    <3>. QED
      BY <1>7, <2>1, <2>2, <2>3, <2>4, <3>1 DEF CutAt, q
  <2>. QED
    BY <1>9, <2>5 DEF InLine
<1>14. CoversTrue'
  <2>1. \A id \in N : \A m \in covers'[id] : m < id /\ Shown(log', id)
    BY <1>1, <1>12 DEF CoversTrue, N
  <2>2. Shown(log', n + 1)
    BY <1>1 DEF Shown, rec
  <2>3. \A m \in cov : m < n + 1
    BY <1>1, <1>2
  <2>. QED
    BY <1>1, <2>1, <2>2, <2>3 DEF CoversTrue
<1>15. NoMessageLost'
  <2>1. ASSUME NEW h \in 1 .. size
        PROVE  p[h] \in OnPath' \/ (h \in 1 .. j - 1 /\ (Shown(log, p[h]) => p[h] \in before))
    <3>1. h \in j .. size \/ h \in 1 .. j - 1
      BY <1>3, <1>5
    <3>. QED
      BY <1>6, <1>11, <3>1
  <2>2. ASSUME NEW id \in N, Shown(log', id)
        PROVE  id \in OnPath' \/ \E s \in OnPath' : id \in covers'[s]
    <3>1. id \in OnPath \/ \E s \in OnPath : id \in covers[s]
      BY <1>12, <2>2 DEF NoMessageLost, N
    <3>2. CASE id \in OnPath
      <4>1. PICK h \in 1 .. size : id = p[h]
        BY <1>10, <3>2
      <4>2. id \in OnPath' \/ id \in cov
        BY <1>6, <1>12, <2>1, <2>2, <4>1
      <4>. QED
        BY <1>1, <1>11, <4>2
    <3>3. ASSUME NEW s \in OnPath, id \in covers[s]
          PROVE  id \in OnPath' \/ \E x \in OnPath' : id \in covers'[x]
      <4>1. PICK h \in 1 .. size : s = p[h]
        BY <1>10
      <4>2. s \in N
        BY <1>3, <4>1
      <4>3. Shown(log, s)
        BY <3>3, <4>2 DEF CoversTrue, N
      <4>4. s \in OnPath' \/ id \in cov
        BY <1>6, <2>1, <3>3, <4>1, <4>3
      <4>. QED
        BY <1>1, <1>11, <3>3, <4>2, <4>4
    <3>. QED
      BY <3>1, <3>2, <3>3
  <2>. QED
    BY <1>1, <1>11, <2>2 DEF NoMessageLost
<1>16. NoDoubleCount'
  <2>1. ASSUME NEW s \in OnPath' \cap Cuts' PROVE s = n + 1
    <3>1. ASSUME NEW i \in j .. size, s = p[i] PROVE FALSE
      <4>1. i \in 2 .. size /\ p[i] \in N
        BY <1>3, <1>5
      <4>. QED
        BY <1>1, <1>4, <1>9, <3>1, <4>1
    <3>. QED
      BY <1>11, <3>1
  <2>2. ASSUME NEW h \in 1 .. j - 1, NEW i \in j .. size
        PROVE  h \in 1 .. size /\ i \in 1 .. size /\ h < i /\ p[h] \in N /\ p[i] \in N
    BY <1>3, <1>5
  <2>3. ASSUME NEW h \in 1 .. j - 1, p[h] \in before, NEW i \in j .. size
        PROVE  p[i] # p[h] /\ p[i] \notin covers[p[h]]
    <3>1. p[i] # p[h]
      BY <1>4, <2>2
    <3>2. CASE p[h] < p[i]
      <4>1. \A m \in covers[p[h]] : m < p[h]
        BY <2>2 DEF CoversTrue, N
      <4>2. ~(p[i] < p[h])
        BY <1>2, <2>2, <3>2
      <4>. QED
        BY <3>1, <4>1, <4>2
    <3>3. CASE p[h] \in Cuts
      <4>1. p[h] \in OnPath \cap Cuts /\ p[i] \in OnPath
        BY <1>10, <2>2, <3>3
      <4>. QED
        BY <3>1, <4>1 DEF NoDoubleCount
    <3>. QED
      BY <1>4, <2>2, <3>2, <3>3
  <2>4. \A x \in cov : x \notin OnPath'
    <3>. TAKE x \in cov
    <3>1. x # n + 1
      BY <1>1
    <3>2. ASSUME NEW i \in j .. size PROVE x # p[i]
      <4>1. CASE x \in before
        BY <1>6, <2>3, <4>1
      <4>2. ASSUME NEW b \in before, x \in covers[b] PROVE x # p[i]
        BY <1>6, <2>3, <4>2
      <4>. QED
        BY <1>6, <4>1, <4>2
    <3>. QED
      BY <1>11, <3>1, <3>2
  <2>. QED
    BY <1>1, <2>1, <2>4 DEF NoDoubleCount
<1>. QED
  BY <1>7, <1>13, <1>14, <1>15, <1>16

(* The parts of the invariant that are about the log alone. *)
LogTrue == /\ Linked(Path, Tree) /\ InLine
           /\ CoversTrue /\ NoMessageLost /\ NoDoubleCount

(* What is true of the log stays true while it stands still. *)
LEMMA LogStill == LogTrue /\ UNCHANGED <<log, covers>> => LogTrue'
<1>. SUFFICES ASSUME LogTrue, log' = log, covers' = covers PROVE LogTrue'
  OBVIOUS
<1>1. Linked(Path, Tree)'
  BY DEF LogTrue, Path, Tree
<1>2. Path' = Path /\ Cuts' = Cuts /\ OnPath' = OnPath
  BY DEF Path, Cuts, OnPath, Ids
<1>3. InLine'
  BY <1>2 DEF LogTrue, InLine, Uncut, CutAt, Ids
<1>4. CoversTrue'
  BY DEF LogTrue, CoversTrue, Ids, Shown
<1>5. NoMessageLost'
  BY <1>2 DEF LogTrue, NoMessageLost, Ids, Shown
<1>6. NoDoubleCount'
  BY <1>2 DEF LogTrue, NoDoubleCount
<1>. QED
  BY <1>1, <1>3, <1>4, <1>5, <1>6 DEF LogTrue

(* What a compaction holds stays true while others append. *)
LEMMA ViewGrows ==
  ASSUME TypeOK, Linked(Path, Tree), NEW rec \in Entries, rec.kept = 0,
         log' = Append(log, rec), at' = at,
         NEW c \in Compactors, ViewTrue(c), KeptTrue(c)
  PROVE  ViewTrue(c)' /\ KeptTrue(c)'
<1>. DEFINE a == Load(log)
            b == Load(log')
            m == Messages(log)
            w == Messages(log')
            view == at[c].view
            k == at[c].endIdx - Len(Prompt) + 1
<1>1. log \in Seq(Entries) /\ Linked(ActiveLeafPath(log), Reduce(log))
  BY TreeTypes DEF Path, Tree
<1>2. Len(a) <= Len(b) /\ \A i \in 1 .. Len(a) : b[i] = a[i]
  BY <1>1, LoadGrows
<1>3. Len(m) <= Len(w) /\ \A i \in 1 .. Len(m) : w[i] = m[i]
  BY <1>1, MessagesGrow
<1>4. /\ Len(a) \in Nat /\ Len(b) \in Nat /\ Len(m) \in Nat /\ Len(w) \in Nat
      /\ Len(view) \in Nat
  <2>1. log' \in Seq(Entries)
    BY <1>1, AppendProperties
  <2>2. a \in Seq(Nat) /\ b \in Seq(Nat)
    BY <1>1, <2>1, LoadIs
  <2>3. m \in Seq(Ids(log)) /\ w \in Seq(Ids(log'))
    BY <1>1, <2>1, MessagesType
  <2>4. view \in Seq(Nat)
    BY TreeTypes
  <2>. HIDE DEF a, b, m, w, view
  <2>. QED
    BY <2>2, <2>3, <2>4
<1>. HIDE DEF a, b, m, w
<1>5. at[c].pc # "idle" =>
        /\ Len(view) <= Len(b)
        /\ \A i \in 1 .. Len(view) : view[i] = b[i]
  <2>. HAVE at[c].pc # "idle"
  <2>1. Len(view) <= Len(a) /\ \A i \in 1 .. Len(view) : view[i] = a[i]
    BY DEF ViewTrue, a
  <2>. HIDE DEF view
  <2>2. \A i \in 1 .. Len(view) : i \in 1 .. Len(a)
    BY <1>4, <2>1
  <2>3. Len(view) <= Len(b)
    BY <1>2, <1>4, <2>1
  <2>. QED
    BY <1>2, <2>1, <2>2, <2>3
<1>6. ViewTrue(c)'
  BY <1>5 DEF ViewTrue, b
<1>7. at[c].pc = "append" /\ at[c].kept # 0 => k \in 1 .. Len(w) /\ at[c].kept = w[k]
  <2>. HAVE at[c].pc = "append" /\ at[c].kept # 0
  <2>1. k \in 1 .. Len(m) /\ at[c].kept = m[k]
    BY DEF KeptTrue, m
  <2>. HIDE DEF k
  <2>2. k \in 1 .. Len(w)
    BY <1>3, <1>4, <2>1
  <2>. QED
    BY <1>3, <2>1, <2>2
<1>8. KeptTrue(c)'
  BY <1>7 DEF KeptTrue, w
<1>. QED
  BY <1>6, <1>8

(* The invariant holds initially. *)
LEMMA InvariantInit == Init => Invariant
<1>. SUFFICES ASSUME Init PROVE Invariant
  OBVIOUS
<1>1. TypeOK /\ Held
  BY TypeInit
<1>2. log = <<>> /\ log \in Seq(Entries) /\ Len(log) = 0 /\ Ids(log) = {}
  BY DEF Init, Ids
<1>3. PICK f : Grows(f, Len(log), log) /\ Reduce(log) = f[Len(log)]
  BY <1>2, ReduceDef
<1>4. Reduce(log).leaf = 0 /\ Len(Reduce(log).parent) = 0
  BY <1>2, <1>3 DEF Grows, Sapling
<1>5. Path \in Seq(Ids(log)) /\ Path = <<>> /\ OnPath = {}
  <2>1. PICK g : Climbs(g, Len(log), Reduce(log)) /\ ActiveLeafPath(log) = g[Len(log)]
    BY <1>2, PathDef
  <2>2. Path = <<>>
    BY <1>2, <1>4, <2>1 DEF Climbs, Foot, Path
  <2>. QED
    BY <2>2, <1>1, PathFacts
<1>6. Linked(Path, Tree)
  BY <1>4, <1>5 DEF Linked, Tree
<1>7. Cuts = {} /\ InLine
  BY <1>2, <1>5 DEF Cuts, InLine, Uncut
<1>8. \A c \in Compactors : ViewTrue(c) /\ KeptTrue(c)
  BY IdleType DEF Init, ViewTrue, KeptTrue
<1>9. CoversTrue /\ NoMessageLost /\ NoDoubleCount
  BY <1>2, <1>5 DEF CoversTrue, NoMessageLost, NoDoubleCount
<1>. QED
  BY <1>1, <1>6, <1>7, <1>8, <1>9 DEF Invariant

(* Every step keeps the invariant, when compactions of the conversation do
   not overlap. *)
LEMMA InvariantStep ==
  ASSUME Alone, Invariant, [Next]_vars
  PROVE  Invariant'
<1>1. /\ TypeOK /\ Held /\ LogTrue /\ \A c \in Compactors : ViewTrue(c) /\ KeptTrue(c)
      /\ Linked(Path, Tree) /\ InLine /\ CoversTrue /\ NoMessageLost /\ NoDoubleCount
  BY DEF Invariant, LogTrue
<1>2. TypeOK' /\ Held'
  BY <1>1, TypeStep
<1>3. SUFFICES LogTrue' /\ \A c \in Compactors : ViewTrue(c)' /\ KeptTrue(c)'
  BY <1>2 DEF Invariant, LogTrue
<1>4. /\ log \in Seq(Entries) /\ Len(log) \in Nat
      /\ at \in [Compactors -> States]
      /\ \A c \in Compactors : /\ at[c] \in States /\ at[c].view \in Seq(Nat)
                              /\ at[c].endIdx \in Nat /\ at[c].kept \in Nat
  BY <1>1, TreeTypes
<1>5. CASE AppendRecord
  <2>1. PICK kind \in {"message", "silent"} : log' = Append(log, [kind |-> kind, kept |-> 0])
    BY <1>5 DEF AppendRecord
  <2>. DEFINE rec == [kind |-> kind, kept |-> 0]
              none == {}
  <2>2. rec \in Entries /\ rec.kept = 0 /\ none \in SUBSET Ids(log) /\ none = {}
    BY DEF Entries, Kinds
  <2>3. /\ covers' = Append(covers, none) /\ Room /\ at' = at /\ at' \in [Compactors -> States]
    BY <1>4, <1>5 DEF AppendRecord
  <2>4. log' = Append(log, rec)
    BY <2>1
  <2>. HIDE DEF rec, none
  <2>5. LogTrue'
    BY <1>1, <2>2, <2>3, <2>4, GrowStep DEF LogTrue
  <2>6. \A c \in Compactors : ViewTrue(c)' /\ KeptTrue(c)'
    BY <1>1, <2>2, <2>3, <2>4, ViewGrows
  <2>. QED
    BY <2>5, <2>6
<1>6. ASSUME NEW c \in Compactors, LoadTranscript(c)
      PROVE  LogTrue' /\ \A d \in Compactors : ViewTrue(d)' /\ KeptTrue(d)'
  <2>1. UNCHANGED <<log, covers>> /\ at'[c].view = Load(log) /\ at'[c].pc = "summarize"
    BY <1>4, <1>6 DEF LoadTranscript, States
  <2>2. LogTrue'
    BY <1>1, <2>1, LogStill
  <2>3. Load(log) \in Seq(Nat) /\ Len(Load(log)) \in Nat
    <3>1. Load(log) \in Seq(Nat)
      BY <1>4, LoadIs
    <3>. QED
      BY <3>1
  <2>4. ViewTrue(c)' /\ KeptTrue(c)'
    BY <2>1, <2>3 DEF ViewTrue, KeptTrue
  <2>. QED
    BY <2>2, <2>4 DEF Alone
<1>7. ASSUME NEW c \in Compactors, Summarize(c)
      PROVE  LogTrue' /\ \A d \in Compactors : ViewTrue(d)' /\ KeptTrue(d)'
  <2>1. PICK end \in Len(Prompt) + 1 .. Len(at[c].view) :
          at' = [at EXCEPT ![c].pc = "cut", ![c].endIdx = end]
    BY <1>7 DEF Summarize
  <2>2. /\ UNCHANGED <<log, covers>> /\ at[c].pc = "summarize"
        /\ at'[c].view = at[c].view /\ at'[c].pc = "cut" /\ at'[c].endIdx = end
    BY <1>4, <1>7, <2>1 DEF Summarize, States
  <2>3. LogTrue'
    BY <1>1, <2>2, LogStill
  <2>4. ViewTrue(c)' /\ KeptTrue(c)'
    BY <1>1, <2>1, <2>2 DEF ViewTrue, KeptTrue
  <2>. QED
    BY <2>3, <2>4 DEF Alone
<1>8. ASSUME NEW c \in Compactors, CutPath(c)
      PROVE  LogTrue' /\ \A d \in Compactors : ViewTrue(d)' /\ KeptTrue(d)'
  <2>1. /\ UNCHANGED <<log, covers>> /\ at[c].pc = "cut"
        /\ at'[c].view = at[c].view /\ at'[c].pc = "append" /\ at'[c].endIdx = at[c].endIdx
        /\ at'[c].kept = FirstKept(log, at[c].endIdx)
    BY <1>4, <1>8 DEF CutPath, States
  <2>2. LogTrue'
    BY <1>1, <2>1, LogStill
  <2>3. ViewTrue(c)'
    BY <1>1, <2>1 DEF ViewTrue
  <2>4. KeptTrue(c)'
    BY <2>1 DEF KeptTrue, FirstKept
  <2>. QED
    BY <2>2, <2>3, <2>4 DEF Alone
<1>9. ASSUME NEW c \in Compactors, AppendBranchSummary(c)
      PROVE  LogTrue' /\ \A d \in Compactors : ViewTrue(d)' /\ KeptTrue(d)'
  <2>. DEFINE rec == [kind |-> "compaction", kept |-> at[c].kept]
              cov == Summarized(c)
  <2>1. /\ log' = Append(log, rec) /\ covers' = Append(covers, cov) /\ Room
        /\ at[c].pc = "append" /\ at'[c] = Idle /\ at' \in [Compactors -> States]
    BY <1>4, <1>9, IdleType DEF AppendBranchSummary
  <2>2. ViewTrue(c)' /\ KeptTrue(c)'
    BY <2>1, IdleType DEF ViewTrue, KeptTrue
  <2>3. CASE at[c].kept # 0
    <3>1. LogTrue'
      BY <1>1, <2>1, <2>3, CutStep DEF LogTrue
    <3>. QED
      BY <2>2, <3>1 DEF Alone
  <2>4. CASE at[c].kept = 0
    <3>1. rec \in Entries /\ rec.kept = 0 /\ rec.kind # "silent"
      BY <2>4 DEF Entries, Kinds
    <3>2. cov \in SUBSET Ids(log)
      <4>1. at[c].endIdx <= Len(at[c].view)
        BY <1>1, <2>1 DEF Held
      <4>. QED
        BY <1>1, <4>1, SummarizedType
    <3>. HIDE DEF rec, cov
    <3>3. LogTrue'
      BY <1>1, <2>1, <3>1, <3>2, GrowStep DEF LogTrue
    <3>. QED
      BY <2>2, <3>3 DEF Alone
  <2>. QED
    BY <2>3, <2>4
<1>10. ASSUME NEW c \in Compactors, GiveUp(c)
       PROVE  LogTrue' /\ \A d \in Compactors : ViewTrue(d)' /\ KeptTrue(d)'
  <2>1. UNCHANGED <<log, covers>> /\ at'[c] = Idle
    BY <1>4, <1>10 DEF GiveUp
  <2>2. LogTrue'
    BY <1>1, <2>1, LogStill
  <2>3. ViewTrue(c)' /\ KeptTrue(c)'
    BY <2>1, IdleType DEF ViewTrue, KeptTrue
  <2>. QED
    BY <2>2, <2>3 DEF Alone
<1>11. CASE UNCHANGED vars
  <2>1. UNCHANGED <<log, covers>> /\ at' = at
    BY <1>11 DEF vars
  <2>2. LogTrue'
    BY <1>1, <2>1, LogStill
  <2>3. \A c \in Compactors : ViewTrue(c)' /\ KeptTrue(c)'
    BY <1>1, <2>1 DEF ViewTrue, KeptTrue
  <2>. QED
    BY <2>2, <2>3
<1>. QED
  BY <1>5, <1>6, <1>7, <1>8, <1>9, <1>10, <1>11 DEF Next

----------------------------------------------------------------------------
(* The theorems. *)

(* The greatest element of a set of numbers. *)
LEMMA MaxIs ==
  ASSUME NEW T \in SUBSET Nat, NEW x \in T, \A y \in T : y <= x
  PROVE  Max(T) = x
<1>1. \A y \in T : x >= y
  OBVIOUS
<1>2. \A z \in T : (\A y \in T : z >= y) => z = x
  OBVIOUS
<1>. QED
  BY <1>1, <1>2 DEF Max

(* A sequence is its first element and the rest. *)
LEMMA HeadAndRest ==
  ASSUME NEW S, NEW p \in Seq(S), Len(p) # 0
  PROVE  p = <<p[1]>> \o SubSeq(p, 2, Len(p))
<1>. DEFINE n == Len(p)
<1>1. n \in Nat /\ 1 \in 1 .. n /\ 1 \in 1 .. n + 1 /\ 1 \in 1 - 1 .. n /\ n \in 1 .. n /\ 1 + 1 = 2
  OBVIOUS
<1>2. SubSeq(p, 1, n) = p
  BY SubSeqFull
<1>3. SubSeq(p, 1, 1) = <<p[1]>>
  BY <1>1, SubSeqOne
<1>4. SubSeq(p, 1, 1) \o SubSeq(p, 1 + 1, n) = SubSeq(p, 1, n)
  BY <1>1, ConcatAdjacentSubSeq
<1>. QED
  BY <1>1, <1>2, <1>3, <1>4

(* The path that the invariant describes is the last summary and the records
   from its first kept one. *)
LEMMA SuffixTrue ==
  ASSUME Invariant
  PROVE  PathIsSuffix
<1>. DEFINE n == Len(log)
            p == Path
            size == Len(p)
            N == Ids(log)
            all == [i \in 1 .. n |-> i]
<1>1. /\ TypeOK /\ InLine /\ n \in Nat /\ N = 1 .. n /\ Cuts \in SUBSET Nat
      /\ p \in Seq(N) /\ size \in Nat /\ \A i \in 1 .. size : p[i] \in 1 .. n
  BY TreeTypes, PathFacts DEF Invariant, Cuts, Ids
<1>2. CASE Cuts = {}
  <2>1. size = n /\ \A i \in 1 .. n : p[i] = i
    BY <1>1, <1>2 DEF InLine, Uncut
  <2>2. p = [i \in 1 .. n |-> i]
    <3>. HIDE DEF N
    <3>1. p = [i \in 1 .. size |-> p[i]]
      BY <1>1
    <3>. HIDE DEF p, n, size
    <3>. QED
      BY <2>1, <3>1
  <2>. QED
    BY <1>1, <1>2, <2>2 DEF PathIsSuffix
<1>3. CASE Cuts # {}
  <2>1. PICK last \in Cuts : CutAt(p, last)
    BY <1>1, <1>3 DEF InLine
  <2>. DEFINE T == {id \in N : id >= log[last].kept /\ id \notin Cuts}
              r == SubSeq(p, 2, size)
  <2>2. /\ \A cut \in Cuts : cut <= last
        /\ size # 0 /\ p[1] = last
        /\ \A i, j \in 2 .. size : i < j => p[i] < p[j]
        /\ \A id \in N :
             id >= log[last].kept /\ id \notin Cuts <=> \E i \in 2 .. size : p[i] = id
    BY <1>1, <2>1 DEF CutAt
  <2>3. Max(Cuts) = last
    BY <1>1, <2>2, MaxIs
  <2>. HIDE DEF N, p, n, size
  <2>4. p \in Seq(Nat) /\ \A i \in 1 .. size : p[i] \in Nat
    <3>1. N \subseteq Nat
      BY <1>1
    <3>2. p \in Seq(Nat)
      BY <1>1, <3>1, SeqMonotonic
    <3>. QED
      BY <1>1, <3>2
  <2>5. /\ r \in Seq(Nat) /\ Len(r) = size - 1
        /\ \A i \in 1 .. size - 1 : r[i] = p[i + 1]
    <3>1. \A i \in 2 .. size : p[i] \in Nat
      BY <1>1, <2>4
    <3>2. size + 1 >= 2
      BY <1>1, <2>2
    <3>3. /\ r \in Seq(Nat)
          /\ Len(r) = IF 2 <= size THEN size - 2 + 1 ELSE 0
          /\ \A i \in 1 .. size - 2 + 1 : r[i] = p[2 + i - 1]
      BY <1>1, <3>1, <2>4, SubSeqProperties
    <3>4. size - 2 + 1 = size - 1 /\ (2 <= size \/ size - 1 = 0) /\ \A i \in 1 .. size - 1 : 2 + i - 1 = i + 1
      BY <1>1, <2>2
    <3>. QED
      BY <3>3, <3>4
  <2>. HIDE DEF r
  <2>6. Increasing(r)
    <3>. SUFFICES ASSUME NEW i \in 1 .. size - 1, NEW j \in 1 .. size - 1, i < j
                  PROVE  r[i] < r[j]
      BY <2>5 DEF Increasing
    <3>1. i + 1 \in 2 .. size /\ j + 1 \in 2 .. size /\ i + 1 < j + 1
      BY <1>1
    <3>2. p[i + 1] < p[j + 1]
      BY <2>2, <3>1
    <3>. QED
      BY <2>5, <3>2
  <2>7. \A i \in 1 .. Len(r) : r[i] \in 1 .. n
    <3>1. \A i \in 1 .. size - 1 : i + 1 \in 1 .. size
      BY <1>1
    <3>. QED
      BY <1>1, <2>5, <3>1
  <2>8. \A x \in 1 .. n : x \in T <=> \E i \in 1 .. Len(r) : r[i] = x
    <3>. TAKE x \in 1 .. n
    <3>1. x \in T <=> \E i \in 2 .. size : p[i] = x
      BY <1>1, <2>2 DEF T
    <3>2. ASSUME NEW i \in 2 .. size, p[i] = x PROVE \E j \in 1 .. size - 1 : r[j] = x
      <4>1. i - 1 \in 1 .. size - 1 /\ (i - 1) + 1 = i
        BY <1>1
      <4>2. r[i - 1] = x
        BY <2>5, <3>2, <4>1
      <4>. QED
        BY <4>1, <4>2
    <3>3. ASSUME NEW j \in 1 .. size - 1, r[j] = x PROVE \E i \in 2 .. size : p[i] = x
      <4>1. j + 1 \in 2 .. size /\ p[j + 1] = x
        BY <1>1, <2>5, <3>3
      <4>. QED
        BY <4>1
    <3>. QED
      BY <2>5, <3>1, <3>2, <3>3
  <2>. HIDE DEF T
  <2>9. Only(all, T) = r
    BY <1>1, <2>5, <2>6, <2>7, <2>8, OnlyInOrder
  <2>10. p = <<last>> \o r
    BY <2>2, <2>4, HeadAndRest DEF r, size
  <2>11. Path = <<Max(Cuts)>> \o
                 Only([i \in Ids(log) |-> i],
                      {id \in Ids(log) : id >= log[Max(Cuts)].kept /\ id \notin Cuts})
    BY <1>1, <2>3, <2>9, <2>10 DEF T, p, N
  <2>. QED
    BY <1>3, <2>11 DEF PathIsSuffix
<1>. QED
  BY <1>2, <1>3

(* The inductive invariant of the tree, for a log and a prompt of any length,
   when no two compactions of the conversation are under way at once. Compact
   only looks for a live run before it starts (runtime.go:346): with two
   compactions TLC finds NoMessageLost and PathIsSuffix violated. *)
THEOREM InvariantHolds == ASSUME Alone PROVE Spec => []Invariant
<1>1. Init => Invariant
  BY InvariantInit
<1>2. Invariant /\ [Next]_vars => Invariant'
  BY InvariantStep
<1>. QED
  BY <1>1, <1>2, PTL DEF Spec

(* No message is lost: one that is not on the active path is covered by a
   summary that is, or by one that such a summary covers. *)
THEOREM NothingLost == ASSUME Alone PROVE Spec => []NoMessageLost
<1>1. Invariant => NoMessageLost
  BY DEF Invariant
<1>. QED
  BY <1>1, InvariantHolds, PTL

(* No message is counted twice: one that a summary on the active path covers
   is not on the path itself. *)
THEOREM NothingTwice == ASSUME Alone PROVE Spec => []NoDoubleCount
<1>1. Invariant => NoDoubleCount
  BY DEF Invariant
<1>. QED
  BY <1>1, InvariantHolds, PTL

(* The active path is the last summary and the records appended since its
   first kept one, but for the summaries that were cut. *)
THEOREM Suffix == ASSUME Alone PROVE Spec => []PathIsSuffix
<1>1. Invariant => PathIsSuffix
  BY SuffixTrue
<1>. QED
  BY <1>1, InvariantHolds, PTL
=============================================================================
