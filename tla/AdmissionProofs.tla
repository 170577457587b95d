---------------------------- MODULE AdmissionProofs ----------------------------
(***************************************************************************)
(* Record admission pairs every press with one release, and a press meets  *)
(* what was down when it was made, whatever the keys, the queue's capacity *)
(* and the number of edges a pass delivers.  Below, an output of QMK's      *)
(* combos: its press meets the chord that fired it, whatever the chords.    *)
(***************************************************************************)
EXTENDS RecordAdmission, ComboOrigin, FiniteSetTheorems, SequenceTheorems,
        WellFoundedInduction, TLAPS

(* Counting the records of a sequence: those of key k that go down (p = 1),  *)
(* or up (p = 0).                                                            *)

Does(r, k, p) == r.key = k /\ IF p = 1 THEN r.down ELSE ~r.down
Going(q, k, p, a, b) == {i \in a .. b : Does(q[i], k, p)}
N(q, k, p, a, b) == Cardinality(Going(q, k, p, a, b))

(* There are finitely many.                                                  *)
LEMMA CountType ==
  ASSUME NEW q, NEW k, NEW p, NEW a \in Int, NEW b \in Int
  PROVE  IsFiniteSet(Going(q, k, p, a, b)) /\ N(q, k, p, a, b) \in Nat
<1>1. IsFiniteSet(a .. b)
  BY FS_Interval
<1>2. Going(q, k, p, a, b) \in SUBSET (a .. b)
  BY DEF Going
<1>3. IsFiniteSet(Going(q, k, p, a, b))
  BY <1>1, <1>2, FS_Subset
<1> QED
  BY <1>3, FS_CardinalityType DEF N

(* None in an empty stretch.                                                 *)
LEMMA CountNone ==
  ASSUME NEW q, NEW k, NEW p, NEW a \in Int, NEW b \in Int, b < a
  PROVE  N(q, k, p, a, b) = 0
<1>1. Going(q, k, p, a, b) = {}
  BY DEF Going
<1> QED
  BY <1>1, FS_EmptySet DEF N

(* The count depends only on the keys and directions of the stretch.         *)
LEMMA CountSame ==
  ASSUME NEW q, NEW r, NEW k, NEW p, NEW a \in Int, NEW b \in Int,
         \A i \in a .. b : q[i].key = r[i].key /\ q[i].down = r[i].down
  PROVE  N(q, k, p, a, b) = N(r, k, p, a, b)
<1>1. Going(q, k, p, a, b) = Going(r, k, p, a, b)
  BY DEF Going, Does
<1> QED
  BY <1>1 DEF N

(* A stretch's last record.                                                  *)
LEMMA CountLast ==
  ASSUME NEW q, NEW k, NEW p, NEW a \in Int, NEW b \in Int, a <= b + 1
  PROVE  N(q, k, p, a, b + 1) =
           N(q, k, p, a, b) + IF Does(q[b + 1], k, p) THEN 1 ELSE 0
<1>1. IsFiniteSet(Going(q, k, p, a, b)) /\ N(q, k, p, a, b) \in Nat
  BY CountType
<1>2. CASE Does(q[b + 1], k, p)
  <2>1. Going(q, k, p, a, b + 1) = Going(q, k, p, a, b) \cup {b + 1}
    BY <1>2 DEF Going
  <2>2. b + 1 \notin Going(q, k, p, a, b)
    BY DEF Going
  <2> QED
    BY <1>1, <1>2, <2>1, <2>2, FS_AddElement DEF N
<1>3. CASE ~(Does(q[b + 1], k, p))
  <2>1. Going(q, k, p, a, b + 1) = Going(q, k, p, a, b)
    BY <1>3 DEF Going
  <2> QED
    BY <1>1, <1>3, <2>1 DEF N
<1> QED
  BY <1>2, <1>3

(* A stretch cut in two.                                                     *)
LEMMA CountCut ==
  ASSUME NEW q, NEW k, NEW p, NEW a \in Int, NEW n \in Int, NEW b \in Int, a <= n + 1, n <= b
  PROVE  N(q, k, p, a, b) = N(q, k, p, a, n) + N(q, k, p, n + 1, b)
<1> DEFINE L == Going(q, k, p, a, n)
           R == Going(q, k, p, n + 1, b)
<1>1. IsFiniteSet(L) /\ IsFiniteSet(R) /\ Cardinality(L) \in Nat /\ Cardinality(R) \in Nat
  BY CountType DEF N
<1>2. Going(q, k, p, a, b) = L \cup R /\ L \cap R = {}
  BY DEF Going
<1>3. Cardinality(L \cup R) = Cardinality(L) + Cardinality(R) - Cardinality(L \cap R)
  BY <1>1, FS_Union
<1>4. Cardinality(L \cap R) = 0
  BY <1>2, FS_EmptySet
<1> QED
  BY <1>1, <1>2, <1>3, <1>4 DEF N

(* A stretch moved by one place.                                             *)
LEMMA CountMoved ==
  ASSUME NEW q, NEW r, NEW k, NEW p, NEW a \in Int, NEW b \in Int,
         \A i \in a .. b : r[i] = q[i + 1]
  PROVE  N(r, k, p, a, b) = N(q, k, p, a + 1, b + 1)
<1> DEFINE S == Going(r, k, p, a, b)
           T == Going(q, k, p, a + 1, b + 1)
           f == [i \in S |-> i + 1]
<1>1. IsFiniteSet(S)
  BY CountType
<1>2. \A i \in S : i \in a .. b /\ i + 1 \in T
  BY DEF Going
<1>3. \A j \in T : j - 1 \in S /\ j \in Int
  <2> SUFFICES ASSUME NEW j \in T PROVE j - 1 \in S /\ j \in Int
    OBVIOUS
  <2>1. j \in a + 1 .. b + 1 /\ Does(q[j], k, p)
    BY DEF Going
  <2>2. j - 1 \in a .. b /\ (j - 1) + 1 = j
    BY <2>1
  <2>3. r[j - 1] = q[j]
    BY <2>2
  <2> QED
    BY <2>1, <2>2, <2>3 DEF Going
<1>4. f \in [S -> T]
  BY <1>2
<1>5. \A i, j \in S : f[i] = f[j] => i = j
  BY <1>2
<1>6. \A t \in T : \E s \in S : f[s] = t
  <2> SUFFICES ASSUME NEW t \in T PROVE \E s \in S : f[s] = t
    OBVIOUS
  <2>1. t - 1 \in S /\ t \in Int
    BY <1>3
  <2>2. f[t - 1] = t
    BY <2>1
  <2> QED
    BY <2>1, <2>2
<1>7. f \in Bijection(S, T)
  BY <1>4, <1>5, <1>6 DEF Bijection, Injection, Surjection, IsInjective
<1>8. ExistsBijection(S, T)
  BY <1>7 DEF ExistsBijection
<1>9. Cardinality(T) = Cardinality(S)
  <2> HIDE DEF S, T
  <2> QED
    BY <1>1, <1>8, FS_Bijection
<1> QED
  BY <1>9 DEF N

--------------------------------------------------------------------------------
(* The queue and the presses, apart from the state: q is the queue, dn the   *)
(* presses processed and not ended, op the presses physically open.          *)

Records == Seq(Edges)
After(q, dn, k, n) == dn[k] + N(q, k, 1, 1, n) - N(q, k, 0, 1, n)
Paired(op, dn, q) ==
    \A k \in Keys :
        /\ After(q, dn, k, Len(q)) = op[k]
        /\ \A n \in 0 .. Len(q) : After(q, dn, k, n) \in 0 .. MostOpen(k)

(* What a record does to a count of presses.                                 *)
Counted(f, r) == [f EXCEPT ![r.key] = IF r.down THEN @ + 1 ELSE @ - 1]
Counts == [Keys -> Int]

(* Every count has its type.                                                 *)
LEMMA AfterType ==
  ASSUME NEW q, NEW dn \in Counts, NEW k \in Keys, NEW n \in Nat
  PROVE  After(q, dn, k, n) \in Int
<1>1. N(q, k, 1, 1, n) \in Nat /\ N(q, k, 0, 1, n) \in Nat
  BY CountType
<1> QED
  BY <1>1 DEF After, Counts

(* A record put at the end: the prefixes before it stay, and it is what the  *)
(* whole queue does more.                                                    *)
LEMMA AfterAppend ==
  ASSUME NEW q \in Records, NEW r \in Edges, NEW dn \in Counts, NEW k \in Keys
  PROVE  /\ \A n \in 0 .. Len(q) : After(Append(q, r), dn, k, n) = After(q, dn, k, n)
         /\ After(Append(q, r), dn, k, Len(q) + 1) =
              After(q, dn, k, Len(q)) + IF r.key # k THEN 0 ELSE IF r.down THEN 1 ELSE -1
<1> DEFINE s == Append(q, r)
<1>1. Len(q) \in Nat /\ \A i \in 1 .. Len(q) : s[i] = q[i]
  BY DEF Records
<1>2. s[Len(q) + 1] = r
  BY DEF Records
<1>3. ASSUME NEW n \in 0 .. Len(q), NEW p
      PROVE  N(s, k, p, 1, n) = N(q, k, p, 1, n)
  <2>1. \A i \in 1 .. n : s[i].key = q[i].key /\ s[i].down = q[i].down
    BY <1>1
  <2>2. n \in Int
    BY <1>1
  <2> HIDE DEF s
  <2> QED
    BY <2>1, <2>2, CountSame
<1>4. ASSUME NEW p
      PROVE  N(s, k, p, 1, Len(q) + 1) = N(q, k, p, 1, Len(q)) + IF Does(r, k, p) THEN 1 ELSE 0
  <2>1. N(s, k, p, 1, Len(q) + 1) = N(s, k, p, 1, Len(q)) + IF Does(s[Len(q) + 1], k, p) THEN 1 ELSE 0
    <3>1. Len(q) \in Int /\ 1 <= Len(q) + 1
      BY <1>1
    <3> HIDE DEF s
    <3> QED
      BY <3>1, CountLast
  <2>2. N(s, k, p, 1, Len(q)) = N(q, k, p, 1, Len(q))
    BY <1>1, <1>3
  <2> QED
    BY <2>1, <2>2, <1>2
<1>5. \A n \in 0 .. Len(q) : After(s, dn, k, n) = After(q, dn, k, n)
  BY <1>3 DEF After
<1>6. N(q, k, 1, 1, Len(q)) \in Nat /\ N(q, k, 0, 1, Len(q)) \in Nat /\ dn[k] \in Int
  BY <1>1, CountType DEF Counts
<1>7. r.down \in BOOLEAN
  BY DEF Edges
<1>8. /\ N(s, k, 1, 1, Len(q) + 1) = N(q, k, 1, 1, Len(q)) + IF r.key = k /\ r.down THEN 1 ELSE 0
      /\ N(s, k, 0, 1, Len(q) + 1) = N(q, k, 0, 1, Len(q)) + IF r.key = k /\ ~r.down THEN 1 ELSE 0
  <2>1. (Does(r, k, 1) <=> r.key = k /\ r.down) /\ (Does(r, k, 0) <=> r.key = k /\ ~r.down)
    BY DEF Does
  <2> HIDE DEF s
  <2> QED
    BY <1>4, <2>1
<1>9. After(s, dn, k, Len(q) + 1) =
        After(q, dn, k, Len(q)) + IF r.key # k THEN 0 ELSE IF r.down THEN 1 ELSE -1
  <2> HIDE DEF s
  <2> QED
    BY <1>6, <1>8 DEF After
<1> QED
  BY <1>5, <1>9

(* The first record processed: what is left opens the same presses.          *)
LEMMA AfterTail ==
  ASSUME NEW q \in Records, q # <<>>, NEW dn \in Counts, NEW k \in Keys, NEW n \in 0 .. Len(Tail(q))
  PROVE  After(Tail(q), Counted(dn, Head(q)), k, n) = After(q, dn, k, n + 1)
<1> DEFINE r == q[1]
           t == Tail(q)
<1>1. /\ Len(q) \in Nat \ {0} /\ t \in Records /\ Len(t) = Len(q) - 1
      /\ \A i \in 1 .. Len(t) : t[i] = q[i + 1]
      /\ Head(q) = r /\ r \in Edges /\ Tail(q) = t
  BY DEF Records
<1>2. n \in Nat /\ n <= Len(q) - 1
  BY <1>1
<1>3. r.down \in BOOLEAN /\ dn[k] \in Int /\ r.key \in Keys
  BY <1>1 DEF Edges, Counts
<1>4. ASSUME NEW p
      PROVE  /\ N(q, k, p, 1, n + 1) = N(t, k, p, 1, n) + IF Does(r, k, p) THEN 1 ELSE 0
             /\ N(t, k, p, 1, n) \in Nat
  <2>1. N(q, k, p, 1, n + 1) = N(q, k, p, 1, 1) + N(q, k, p, 2, n + 1)
    <3>1. 1 + 1 = 2
      OBVIOUS
    <3> QED
      BY <1>2, <3>1, CountCut
  <2>2. N(t, k, p, 1, n) = N(q, k, p, 2, n + 1)
    <3>1. \A i \in 1 .. n : t[i] = q[i + 1]
      BY <1>1, <1>2
    <3>2. 1 + 1 = 2 /\ 1 \in Int /\ n \in Int
      BY <1>2
    <3> HIDE DEF t
    <3> QED
      BY <3>1, <3>2, CountMoved
  <2>3. N(q, k, p, 1, 1) = IF Does(r, k, p) THEN 1 ELSE 0
    <3>1. N(q, k, p, 1, 0 + 1) = N(q, k, p, 1, 0) + IF Does(q[0 + 1], k, p) THEN 1 ELSE 0
      BY CountLast
    <3>2. N(q, k, p, 1, 0) = 0
      BY CountNone
    <3> QED
      BY <3>1, <3>2
  <2>4. N(t, k, p, 1, n) \in Nat
    <3> HIDE DEF t
    <3> QED
      BY <1>2, CountType
  <2> QED
    BY <2>1, <2>2, <2>3, <2>4
<1>5. Counted(dn, r)[k] = IF r.key = k THEN IF r.down THEN dn[k] + 1 ELSE dn[k] - 1 ELSE dn[k]
  BY <1>3 DEF Counted, Counts
<1>6. /\ N(q, k, 1, 1, n + 1) = N(t, k, 1, 1, n) + IF r.key = k /\ r.down THEN 1 ELSE 0
      /\ N(q, k, 0, 1, n + 1) = N(t, k, 0, 1, n) + IF r.key = k /\ ~r.down THEN 1 ELSE 0
      /\ N(t, k, 1, 1, n) \in Nat /\ N(t, k, 0, 1, n) \in Nat
  <2>1. (Does(r, k, 1) <=> r.key = k /\ r.down) /\ (Does(r, k, 0) <=> r.key = k /\ ~r.down)
    BY DEF Does
  <2> HIDE DEF t, r
  <2> QED
    BY <1>4, <2>1
<1>7. After(t, Counted(dn, r), k, n) = After(q, dn, k, n + 1)
  <2>1. /\ After(t, Counted(dn, r), k, n) = Counted(dn, r)[k] + N(t, k, 1, 1, n) - N(t, k, 0, 1, n)
        /\ After(q, dn, k, n + 1) = dn[k] + N(q, k, 1, 1, n + 1) - N(q, k, 0, 1, n + 1)
    BY DEF After
  <2> HIDE DEF t, r
  <2>2. CASE r.key # k
    BY <1>3, <1>5, <1>6, <2>1, <2>2
  <2>3. CASE r.key = k /\ r.down
    BY <1>3, <1>5, <1>6, <2>1, <2>3
  <2>4. CASE r.key = k /\ ~r.down
    BY <1>3, <1>5, <1>6, <2>1, <2>4
  <2> QED
    BY <1>3, <2>2, <2>3, <2>4
<1> QED
  BY <1>1, <1>7

(* A release that finds no press of its key held: on any stretch at the end  *)
(* of the queue no more go down than up, so every prefix leaves its press.   *)
LEMMA AfterRelease ==
  ASSUME NEW q \in Records, NEW dn \in Counts, NEW k \in Keys, NEW n \in 0 .. Len(q),
         \A m \in 1 .. Len(q) : N(q, k, 1, m, Len(q)) <= N(q, k, 0, m, Len(q))
  PROVE  After(q, dn, k, n) >= After(q, dn, k, Len(q))
<1>1. Len(q) \in Nat /\ n \in Nat /\ n <= Len(q) /\ dn[k] \in Int
  BY DEF Records, Counts
<1>2. \A p : /\ N(q, k, p, 1, Len(q)) = N(q, k, p, 1, n) + N(q, k, p, n + 1, Len(q))
             /\ N(q, k, p, 1, n) \in Nat /\ N(q, k, p, n + 1, Len(q)) \in Nat
  BY <1>1, CountCut, CountType
<1>3. CASE n = Len(q)
  BY <1>1, <1>3, AfterType
<1>4. CASE n < Len(q)
  <2>1. N(q, k, 1, n + 1, Len(q)) <= N(q, k, 0, n + 1, Len(q))
    BY <1>1, <1>4
  <2> QED
    BY <1>1, <1>2, <2>1 DEF After
<1> QED
  BY <1>1, <1>3, <1>4

(* The three ways a record meets the queue keep the pairing.                 *)

(* What a legal edge makes of the presses that are physically open.          *)
Legal(op, r) == Counted(op, r)[r.key] \in 0 .. MostOpen(r.key)

(* Counted counts.                                                           *)
LEMMA CountedType ==
  ASSUME NEW f \in Counts, NEW r \in Edges
  PROVE  Counted(f, r) \in Counts
BY DEF Counted, Counts, Edges

(* Counted's value, key by key.                                              *)
LEMMA CountedAt ==
  ASSUME NEW f \in Counts, NEW r \in Edges, NEW k \in Keys
  PROVE  /\ Counted(f, r) \in Counts
         /\ Counted(f, r)[k] = f[k] + IF r.key # k THEN 0 ELSE IF r.down THEN 1 ELSE -1
BY DEF Counted, Counts, Edges

(* A record is held back.                                                    *)
LEMMA PairedAppend ==
  ASSUME NEW q \in Records, NEW r \in Edges, NEW dn \in Counts, NEW op \in Counts,
         Paired(op, dn, q), Legal(op, r)
  PROVE  Paired(Counted(op, r), dn, Append(q, r))
<1>1. Len(q) \in Nat /\ Len(Append(q, r)) = Len(q) + 1
  BY DEF Records
<1> SUFFICES ASSUME NEW k \in Keys
             PROVE  /\ After(Append(q, r), dn, k, Len(q) + 1) = Counted(op, r)[k]
                    /\ \A n \in 0 .. Len(q) + 1 : After(Append(q, r), dn, k, n) \in 0 .. MostOpen(k)
  BY <1>1 DEF Paired
<1>2. /\ After(q, dn, k, Len(q)) = op[k]
      /\ \A n \in 0 .. Len(q) : After(q, dn, k, n) \in 0 .. MostOpen(k)
  BY DEF Paired
<1>3. After(Append(q, r), dn, k, Len(q) + 1) = Counted(op, r)[k]
  BY <1>2, AfterAppend, CountedAt
<1>4. Counted(op, r)[k] \in 0 .. MostOpen(k)
  <2>1. CASE r.key = k
    BY <2>1 DEF Legal
  <2>2. CASE r.key # k
    <3>1. Counted(op, r)[k] = op[k]
      BY <2>2, CountedAt DEF Counts
    <3> QED
      BY <1>1, <1>2, <3>1
  <2> QED
    BY <2>1, <2>2
<1>5. ASSUME NEW n \in 0 .. Len(q) + 1 PROVE After(Append(q, r), dn, k, n) \in 0 .. MostOpen(k)
  <2>1. CASE n = Len(q) + 1
    BY <2>1, <1>3, <1>4
  <2>2. CASE n \in 0 .. Len(q)
    BY <2>2, <1>2, AfterAppend
  <2> QED
    BY <1>1, <2>1, <2>2
<1> QED
  BY <1>3, <1>5

(* The oldest held record is processed.                                      *)
LEMMA PairedTail ==
  ASSUME NEW q \in Records, q # <<>>, NEW dn \in Counts, NEW op \in Counts, Paired(op, dn, q)
  PROVE  Paired(op, Counted(dn, Head(q)), Tail(q))
<1>1. Len(q) \in Nat \ {0} /\ Len(Tail(q)) = Len(q) - 1
  BY DEF Records
<1> SUFFICES ASSUME NEW k \in Keys
             PROVE  /\ After(Tail(q), Counted(dn, Head(q)), k, Len(Tail(q))) = op[k]
                    /\ \A n \in 0 .. Len(Tail(q)) :
                         After(Tail(q), Counted(dn, Head(q)), k, n) \in 0 .. MostOpen(k)
  BY DEF Paired
<1>2. /\ After(q, dn, k, Len(q)) = op[k]
      /\ \A n \in 0 .. Len(q) : After(q, dn, k, n) \in 0 .. MostOpen(k)
  BY DEF Paired
<1>3. \A n \in 0 .. Len(Tail(q)) :
         After(Tail(q), Counted(dn, Head(q)), k, n) = After(q, dn, k, n + 1)
  BY AfterTail
<1>4. \A n \in 0 .. Len(Tail(q)) : n + 1 \in 0 .. Len(q)
  BY <1>1
<1>5. Len(Tail(q)) \in 0 .. Len(Tail(q)) /\ Len(Tail(q)) + 1 = Len(q)
  BY <1>1
<1> QED
  BY <1>2, <1>3, <1>4, <1>5

(* A record is processed past the queue: a press only past an empty one, a   *)
(* release only when no press of its key is held.                            *)
LEMMA PairedAtOnce ==
  ASSUME NEW q \in Records, NEW r \in Edges, NEW dn \in Counts, NEW op \in Counts,
         Paired(op, dn, q), Legal(op, r),
         r.down => q = <<>>,
         ~r.down => \A m \in 1 .. Len(q) : N(q, r.key, 1, m, Len(q)) <= N(q, r.key, 0, m, Len(q))
  PROVE  Paired(Counted(op, r), Counted(dn, r), q)
<1>1. Len(q) \in Nat
  BY DEF Records
<1> SUFFICES ASSUME NEW k \in Keys
             PROVE  /\ After(q, Counted(dn, r), k, Len(q)) = Counted(op, r)[k]
                    /\ \A n \in 0 .. Len(q) : After(q, Counted(dn, r), k, n) \in 0 .. MostOpen(k)
  BY DEF Paired
<1> DEFINE d == IF r.key # k THEN 0 ELSE IF r.down THEN 1 ELSE -1
<1>2. /\ After(q, dn, k, Len(q)) = op[k]
      /\ \A n \in 0 .. Len(q) : After(q, dn, k, n) \in 0 .. MostOpen(k)
  BY DEF Paired
<1>3. \A n \in 0 .. Len(q) : After(q, Counted(dn, r), k, n) = After(q, dn, k, n) + d
  <2> SUFFICES ASSUME NEW n \in 0 .. Len(q)
               PROVE  After(q, Counted(dn, r), k, n) = After(q, dn, k, n) + d
    OBVIOUS
  <2>1. N(q, k, 1, 1, n) \in Nat /\ N(q, k, 0, 1, n) \in Nat
    BY <1>1, CountType
  <2>2. Counted(dn, r)[k] = dn[k] + d /\ dn[k] \in Int /\ d \in Int
    BY CountedAt DEF Counts
  <2> HIDE DEF d
  <2> QED
    BY <2>1, <2>2 DEF After
<1>4. Counted(op, r)[k] = op[k] + d
  BY CountedAt
<1>5. MostOpen(k) \in Nat /\ op[k] \in Int
  BY DEF MostOpen, Counts
<1>6. CASE r.key # k
  BY <1>1, <1>2, <1>3, <1>4, <1>5, <1>6
<1>7. CASE r.key = k /\ r.down
  <2>1. Len(q) = 0
    BY <1>7
  <2>2. op[k] + 1 \in 0 .. MostOpen(k)
    BY <1>4, <1>7 DEF Legal
  <2> QED
    BY <1>2, <1>3, <1>4, <1>7, <2>1, <2>2
<1>8. CASE r.key = k /\ ~r.down
  <2>1. op[k] - 1 \in 0 .. MostOpen(k)
    BY <1>4, <1>5, <1>8 DEF Legal
  <2>2. \A n \in 0 .. Len(q) : After(q, dn, k, n) >= op[k]
    BY <1>2, <1>8, AfterRelease
  <2>3. \A n \in 0 .. Len(q) : After(q, dn, k, n) - 1 \in 0 .. MostOpen(k)
    BY <1>2, <1>5, <2>1, <2>2
  <2>4. d = -1
    BY <1>8
  <2> HIDE DEF d
  <2> QED
    BY <1>1, <1>2, <1>3, <1>4, <1>5, <2>3, <2>4
<1> QED
  BY <1>6, <1>7, <1>8

-----------------------------------------------------------------------------
(* The invariant.                                                           *)

Decisions == {"none", "hold", "brief", "tap"}

(* Every variable's values; the queue never exceeds its capacity.           *)
TInv ==
    /\ open \in Counts
    /\ held \in Records /\ Len(held) <= Capacity
    /\ down \in Counts
    /\ undecided \subseteq Dual /\ aged \subseteq Keys /\ holding \subseteq Keys
    /\ decision \in [Dual -> Decisions]
    /\ outOfTurn \in BOOLEAN
    /\ last \in Edges \cup {None}
    /\ pc \in {"scan", "task", "events"}
    /\ first \in BOOLEAN
    /\ edges \in 0 .. EdgesPerPass

IInv == TInv /\ EveryPressEndsOnce

(* The model's count of the held records is the one of the lemmas.          *)
LEMMA CountIs ==
  ASSUME held \in Records, NEW k, NEW a \in Nat \ {0}, NEW b \in Nat, b <= Len(held)
  PROVE  /\ Count(k, TRUE, a, b) = N(held, k, 1, a, b)
         /\ Count(k, FALSE, a, b) = N(held, k, 0, a, b)
<1>1. \A i \in a .. b : held[i] \in Edges
  BY DEF Records
<1>2. \A i \in a .. b : held[i].down \in BOOLEAN
  BY <1>1 DEF Edges
<1>3. {i \in a .. b : held[i].key = k /\ held[i].down = TRUE} = Going(held, k, 1, a, b)
  BY <1>2 DEF Going, Does
<1>4. {i \in a .. b : held[i].key = k /\ held[i].down = FALSE} = Going(held, k, 0, a, b)
  BY <1>2 DEF Going, Does
<1>5. Cardinality({i \in a .. b : held[i].key = k /\ held[i].down = TRUE}) = Count(k, TRUE, a, b)
  BY Zenon DEF Count
<1>6. Cardinality({i \in a .. b : held[i].key = k /\ held[i].down = FALSE}) = Count(k, FALSE, a, b)
  BY Zenon DEF Count
<1> QED
  BY <1>3, <1>4, <1>5, <1>6 DEF N

(* Put differently, the property says that the queue is paired.             *)
LEMMA PairedIs ==
  TInv => (EveryPressEndsOnce <=> Paired(open, down, held))
<1> SUFFICES ASSUME TInv PROVE EveryPressEndsOnce <=> Paired(open, down, held)
  OBVIOUS
<1>1. held \in Records /\ Len(held) \in Nat
  BY DEF TInv, Records
<1>2. ASSUME NEW k \in Keys, NEW n \in 0 .. Len(held)
      PROVE  OpenAfter(k, n) = After(held, down, k, n)
  <2>1. 1 \in Nat \ {0} /\ n \in Nat /\ n <= Len(held)
    BY <1>1
  <2>2. Count(k, TRUE, 1, n) = N(held, k, 1, 1, n) /\ Count(k, FALSE, 1, n) = N(held, k, 0, 1, n)
    BY <1>1, <2>1, CountIs
  <2>3. OpenAfter(k, n) = down[k] + Count(k, TRUE, 1, n) - Count(k, FALSE, 1, n)
    BY Zenon DEF OpenAfter
  <2>4. After(held, down, k, n) = down[k] + N(held, k, 1, 1, n) - N(held, k, 0, 1, n)
    BY DEF After
  <2> QED
    BY <2>2, <2>3, <2>4, Zenon
<1>3. Len(held) \in 0 .. Len(held)
  BY <1>1
<1> QED
  BY <1>2, <1>3 DEF EveryPressEndsOnce, Paired

(* A release that finds no press of its key held.                           *)
LEMMA NoPressHeld ==
  ASSUME held \in Records, NEW k, ~PressIsHeld(k)
  PROVE  \A m \in 1 .. Len(held) : N(held, k, 1, m, Len(held)) <= N(held, k, 0, m, Len(held))
<1> SUFFICES ASSUME NEW m \in 1 .. Len(held)
             PROVE  N(held, k, 1, m, Len(held)) <= N(held, k, 0, m, Len(held))
  OBVIOUS
<1>1. /\ m \in Nat \ {0} /\ Len(held) \in Nat /\ m \in Int /\ Len(held) \in Int
      /\ Len(held) <= Len(held)
  BY DEF Records
<1>2. /\ Count(k, TRUE, m, Len(held)) = N(held, k, 1, m, Len(held))
      /\ Count(k, FALSE, m, Len(held)) = N(held, k, 0, m, Len(held))
  BY <1>1, CountIs
<1>3. ~(Count(k, TRUE, m, Len(held)) > Count(k, FALSE, m, Len(held)))
  BY Zenon DEF PressIsHeld
<1>4. N(held, k, 1, m, Len(held)) \in Nat /\ N(held, k, 0, m, Len(held)) \in Nat
  BY <1>1, CountType
<1>5. ~(N(held, k, 1, m, Len(held)) > N(held, k, 0, m, Len(held)))
  BY <1>2, <1>3, Zenon
<1> QED
  BY <1>4, <1>5

(* The program starts with nothing down and nothing held.                   *)
LEMMA InitInv == Init => IInv
<1> SUFFICES ASSUME Init PROVE IInv
  OBVIOUS
<1>1. TInv
  <2>1. held \in Records /\ Len(held) <= Capacity
    BY AdmissionAssumption DEF Init, Records
  <2>2. edges \in 0 .. EdgesPerPass
    BY AdmissionAssumption DEF Init
  <2>3. open \in Counts /\ down \in Counts
    BY DEF Init, Counts
  <2>4. decision \in [Dual -> Decisions]
    BY DEF Init, Decisions
  <2> QED
    BY <2>1, <2>2, <2>3, <2>4 DEF Init, TInv
<1>2. ASSUME NEW k \in Keys PROVE After(held, down, k, 0) = 0
  BY CountNone DEF Init, After
<1>3. \A k \in Keys : MostOpen(k) \in Nat
  BY DEF MostOpen
<1>4. Paired(open, down, held)
  BY <1>2, <1>3 DEF Init, Paired
<1> QED
  BY <1>1, <1>4, PairedIs DEF IInv

-----------------------------------------------------------------------------
(* What the runtime does with a record.                                     *)

(* It counts its edge, and everything else it keeps stays what it was.      *)
LEMMA Processed ==
  ASSUME TInv, NEW r \in Edges, NEW o \in BOOLEAN, Process(r, o)
  PROVE  /\ down' = Counted(down, r) /\ down' \in Counts
         /\ undecided' \subseteq Dual /\ aged' \subseteq Keys /\ holding' \subseteq Keys
         /\ decision' \in [Dual -> Decisions]
         /\ outOfTurn' \in BOOLEAN
         /\ last' \in Edges \cup {None}
<1> DEFINE m == MissedHolds(r)
<1>1. r.key \in Keys /\ Dual \subseteq Keys
  BY AdmissionAssumption DEF Edges
<1>2. m \subseteq undecided
  BY DEF MissedHolds
<1>3. undecided \subseteq Dual /\ aged \subseteq Keys /\ holding \subseteq Keys
  BY DEF TInv
<1>4. down' = Counted(down, r)
  BY DEF Process, Counted
<1>5. down' \in Counts
  <2>1. Counted(down, r) \in Counts
    BY CountedType DEF TInv
  <2> QED
    BY <1>4, <2>1
<1>6. undecided' \subseteq Dual
  <2>1. \/ undecided' = (undecided \ m) \cup ({r.key} \cap Dual)
        \/ undecided' = undecided \ (m \cup {r.key})
    BY DEF Process
  <2> HIDE DEF m
  <2> QED
    BY <1>3, <2>1
<1>7. aged' \subseteq Keys
  <2>1. aged' = (aged \ m) \cup {r.key} \/ aged' = aged \ (m \cup {r.key})
    BY DEF Process
  <2> HIDE DEF m
  <2> QED
    BY <1>1, <1>3, <2>1
<1>8. holding' \subseteq Keys
  <2>1. holding' = holding \cup m \/ holding' = (holding \cup m) \ {r.key}
    BY DEF Process
  <2> HIDE DEF m
  <2> QED
    BY <1>1, <1>2, <1>3, <2>1
<1>9. decision' \in [Dual -> Decisions]
  <2>1. \A d \in Dual : decision[d] \in Decisions
    BY DEF TInv
  <2>2. PICK t : decision' = [d \in Dual |-> IF d \in m \ {r.key} THEN "hold"
                                             ELSE IF d \in m THEN "brief"
                                             ELSE IF ~r.down /\ d \in t THEN "tap"
                                             ELSE decision[d]]
    BY DEF Process
  <2> HIDE DEF m
  <2> QED
    BY <2>1, <2>2 DEF Decisions
<1>10. outOfTurn' \in BOOLEAN /\ last' \in Edges \cup {None}
  BY DEF Process
<1> QED
  BY <1>4, <1>5, <1>6, <1>7, <1>8, <1>9, <1>10

(* A legal edge is admitted: it waits at the end, it waits while the oldest  *)
(* record goes, or it is processed at once.                                  *)
LEMMA AdmitInv ==
  ASSUME IInv, NEW r \in Edges, Legal(open, r), open' = Counted(open, r), Admit(r),
         UNCHANGED <<pc, first>>, edges' \in 0 .. EdgesPerPass
  PROVE  IInv'
<1>1. /\ held \in Records /\ Len(held) \in Nat /\ Len(held) <= Capacity
      /\ open \in Counts /\ down \in Counts
  BY DEF IInv, TInv, Records
<1>2. Paired(open, down, held)
  BY PairedIs DEF IInv
<1>3. open' \in Counts
  BY <1>1, CountedType
<1>4. Paired(Counted(open, r), down, Append(held, r))
  BY <1>1, <1>2, PairedAppend
<1>5. pc' \in {"scan", "task", "events"} /\ first' \in BOOLEAN
  BY DEF IInv, TInv
<1>6. Append(held, r) \in Records /\ Len(Append(held, r)) = Len(held) + 1
  BY <1>1 DEF Records
<1>7. CASE Len(held) < Capacity /\ held' = Append(held, r) /\ last' = None
           /\ outOfTurn' \in BOOLEAN /\ UNCHANGED runtime
  <2>1. TInv'
    BY <1>1, <1>3, <1>5, <1>6, <1>7, AdmissionAssumption DEF IInv, TInv, runtime
  <2>2. Paired(open', down', held')
    BY <1>4, <1>7 DEF runtime
  <2>3. (TInv => (EveryPressEndsOnce <=> Paired(open, down, held)))'
    BY PairedIs, PTL
  <2> QED
    BY <2>1, <2>2, <2>3 DEF IInv
<1>8. CASE Len(held) >= Capacity /\ held' = Append(Tail(held), r) /\ Process(Head(held), TRUE)
  <2>1. held # <<>> /\ Head(held) \in Edges
    BY <1>1, <1>8, AdmissionAssumption DEF Records
  <2>2. /\ Append(held, r) # <<>> /\ Head(Append(held, r)) = Head(held)
        /\ held' = Tail(Append(held, r))
        /\ held' \in Records /\ Len(held') = Len(held)
    BY <1>1, <1>8, <2>1 DEF Records
  <2>3. /\ down' = Counted(down, Head(held)) /\ down' \in Counts
        /\ undecided' \subseteq Dual /\ aged' \subseteq Keys /\ holding' \subseteq Keys
        /\ decision' \in [Dual -> Decisions]
        /\ outOfTurn' \in BOOLEAN
        /\ last' \in Edges \cup {None}
    BY <1>8, <2>1, Processed DEF IInv
  <2>4. TInv'
    BY <1>1, <1>3, <1>5, <2>2, <2>3 DEF TInv
  <2>5. Paired(open', down', held')
    BY <1>1, <1>3, <1>4, <1>6, <2>2, <2>3, PairedTail
  <2>6. (TInv => (EveryPressEndsOnce <=> Paired(open, down, held)))'
    BY PairedIs, PTL
  <2> QED
    BY <2>4, <2>5, <2>6 DEF IInv
<1>9. CASE ~MustWait(r) /\ held' = held /\ Process(r, held # <<>> /\ undecided = {})
  <2>0. (held # <<>> /\ undecided = {}) \in BOOLEAN
    OBVIOUS
  <2>1. /\ down' = Counted(down, r) /\ down' \in Counts
        /\ undecided' \subseteq Dual /\ aged' \subseteq Keys /\ holding' \subseteq Keys
        /\ decision' \in [Dual -> Decisions]
        /\ outOfTurn' \in BOOLEAN
        /\ last' \in Edges \cup {None}
    BY <1>9, <2>0, Processed DEF IInv
  <2>2. TInv'
    BY <1>1, <1>3, <1>5, <1>9, <2>1 DEF TInv
  <2>3. r.down => held = <<>>
    BY <1>9 DEF MustWait
  <2>4. ~r.down => ~PressIsHeld(r.key)
    BY <1>9 DEF MustWait
  <2>5. ~r.down => \A m \in 1 .. Len(held) :
                     N(held, r.key, 1, m, Len(held)) <= N(held, r.key, 0, m, Len(held))
    BY <1>1, <2>4, NoPressHeld
  <2>6. Paired(open', down', held')
    BY <1>1, <1>2, <1>9, <2>1, <2>3, <2>5, PairedAtOnce
  <2>7. (TInv => (EveryPressEndsOnce <=> Paired(open, down, held)))'
    BY PairedIs, PTL
  <2> QED
    BY <2>2, <2>6, <2>7 DEF IInv
<1> QED
  BY <1>7, <1>8, <1>9 DEF Admit, Capture

-----------------------------------------------------------------------------
(* The edges a pass delivers.                                               *)

(* A press finds its key let go, a combo output at most once down; a        *)
(* release finds it down: both are legal edges, and they arrive in a pass.  *)
LEMMA PressEdge ==
  ASSUME IInv, NEW k \in Keys, Press(k)
  PROVE  /\ Edge(k, TRUE) \in Edges /\ Legal(open, Edge(k, TRUE))
         /\ open' = Counted(open, Edge(k, TRUE)) /\ Admit(Edge(k, TRUE))
         /\ pc = "events" /\ UNCHANGED <<pc, first>> /\ edges' \in 0 .. EdgesPerPass
<1> DEFINE r == Edge(k, TRUE)
<1>1. r \in Edges /\ r.key = k /\ r.down
  <2>1. {m \in Mods \cup Dual : open[m] > 0} \subseteq Mods \cup Dual /\ PastTerm \subseteq Dual
    BY DEF PastTerm
  <2> QED
    BY <2>1 DEF Edge, Edges
<1>2. open \in Counts /\ edges \in 0 .. EdgesPerPass /\ EdgesPerPass \in Nat
  BY AdmissionAssumption DEF IInv, TInv
<1>3. open' = Counted(open, r)
  <2>1. open' = [open EXCEPT ![k] = @ + 1]
    BY DEF Press
  <2> HIDE DEF r
  <2> QED
    BY <1>1, <2>1 DEF Counted
<1>4. open[k] \in 0 .. MostOpen(k)
  <2>1. Paired(open, down, held) /\ Len(held) \in 0 .. Len(held)
    BY PairedIs DEF IInv, TInv, Records
  <2> QED
    BY <2>1 DEF Paired
<1>5. Legal(open, r)
  <2>1. Counted(open, r)[k] = open[k] + 1
    BY <1>1, <1>2, <1>3 DEF Press, Counts
  <2>2. open[k] < MostOpen(k) /\ MostOpen(k) \in Nat
    BY DEF Press, MostOpen
  <2> HIDE DEF r
  <2> QED
    BY <1>1, <1>4, <2>1, <2>2 DEF Legal
<1>6. Admit(r) /\ pc = "events" /\ UNCHANGED <<pc, first>> /\ edges' \in 0 .. EdgesPerPass
  <2>1. Admit(r) /\ Arrive(k)
    BY Zenon DEF Press
  <2> HIDE DEF r
  <2> QED
    BY <1>2, <2>1 DEF Arrive
<1> QED
  BY <1>1, <1>3, <1>5, <1>6

LEMMA PressInv == ASSUME IInv, NEW k \in Keys, Press(k) PROVE IInv'
BY PressEdge, AdmitInv

LEMMA ReleaseEdge ==
  ASSUME IInv, NEW k \in Keys, Release(k)
  PROVE  /\ Edge(k, FALSE) \in Edges /\ Legal(open, Edge(k, FALSE))
         /\ open' = Counted(open, Edge(k, FALSE)) /\ Admit(Edge(k, FALSE))
         /\ pc = "events" /\ UNCHANGED <<pc, first>> /\ edges' \in 0 .. EdgesPerPass
<1> DEFINE r == Edge(k, FALSE)
<1>1. r \in Edges /\ r.key = k /\ ~r.down
  <2>1. PastTerm \subseteq Dual
    BY DEF PastTerm
  <2> QED
    BY <2>1 DEF Edge, Edges
<1>2. open \in Counts /\ edges \in 0 .. EdgesPerPass /\ EdgesPerPass \in Nat
  BY AdmissionAssumption DEF IInv, TInv
<1>3. open' = Counted(open, r)
  <2>1. open' = [open EXCEPT ![k] = @ - 1]
    BY DEF Release
  <2> HIDE DEF r
  <2> QED
    BY <1>1, <2>1 DEF Counted
<1>4. open[k] \in 0 .. MostOpen(k)
  <2>1. Paired(open, down, held) /\ Len(held) \in 0 .. Len(held)
    BY PairedIs DEF IInv, TInv, Records
  <2> QED
    BY <2>1 DEF Paired
<1>5. Legal(open, r)
  <2>1. Counted(open, r)[k] = open[k] - 1
    BY <1>1, <1>2, <1>3 DEF Release, Counts
  <2>2. open[k] > 0 /\ MostOpen(k) \in Nat
    BY DEF Release, MostOpen
  <2> HIDE DEF r
  <2> QED
    BY <1>1, <1>4, <2>1, <2>2 DEF Legal
<1>6. Admit(r) /\ pc = "events" /\ UNCHANGED <<pc, first>> /\ edges' \in 0 .. EdgesPerPass
  <2>1. Admit(r) /\ Arrive(k)
    BY Zenon DEF Release
  <2> HIDE DEF r
  <2> QED
    BY <1>2, <2>1 DEF Arrive
<1> QED
  BY <1>1, <1>3, <1>5, <1>6

LEMMA ReleaseInv == ASSUME IInv, NEW k \in Keys, Release(k) PROVE IInv'
BY ReleaseEdge, AdmitInv

-----------------------------------------------------------------------------
(* The steps of a pass.                                                     *)

(* The records held, what is down and what is open stay: so does the        *)
(* pairing.                                                                 *)
LEMMA SamePairing ==
  ASSUME IInv, TInv', UNCHANGED <<open, held, down>>
  PROVE  IInv'
<1>1. Paired(open, down, held)
  BY PairedIs DEF IInv
<1>2. Paired(open', down', held')
  BY <1>1
<1>3. (TInv => (EveryPressEndsOnce <=> Paired(open, down, held)))'
  BY PairedIs, PTL
<1> QED
  BY <1>2, <1>3 DEF IInv

(* The key runtime's scan touches none of them.                             *)
LEMMA ScanInv == ASSUME IInv, Scan PROVE IInv'
<1>1. HoldsNow \subseteq Dual /\ Dual \subseteq Keys
  BY AdmissionAssumption DEF HoldsNow, IInv, TInv
<1>2. holding' \subseteq Keys /\ undecided' \subseteq Dual /\ aged' \subseteq Keys
  BY <1>1 DEF Scan, IInv, TInv
<1>3. decision' \in [Dual -> Decisions]
  <2>1. decision' = [d \in Dual |-> IF d \in HoldsNow THEN "hold" ELSE decision[d]]
    BY DEF Scan
  <2> QED
    BY <2>1 DEF IInv, TInv, Decisions
<1>4. pc' \in {"scan", "task", "events"} /\ first' \in BOOLEAN
  BY DEF Scan
<1>5. UNCHANGED <<open, held, down, outOfTurn, edges>> /\ last' = None
  BY DEF Scan
<1>6. TInv'
  BY <1>2, <1>3, <1>4, <1>5 DEF IInv, TInv
<1> QED
  BY <1>5, <1>6, SamePairing

(* The task replays the oldest record.                                      *)
LEMMA ReplayInv == ASSUME IInv, Replay PROVE IInv'
<1>1. /\ held \in Records /\ held # <<>> /\ Len(held) \in Nat /\ Len(held) <= Capacity
      /\ open \in Counts /\ down \in Counts /\ Head(held) \in Edges
  BY DEF Replay, IInv, TInv, Records
<1>2. /\ held' = Tail(held) /\ Process(Head(held), FALSE)
      /\ first' \in BOOLEAN /\ UNCHANGED <<open, pc, edges>>
  BY DEF Replay
<1>3. held' \in Records /\ Len(held') = Len(held) - 1
  BY <1>1, <1>2 DEF Records
<1>4. /\ down' = Counted(down, Head(held)) /\ down' \in Counts
      /\ undecided' \subseteq Dual /\ aged' \subseteq Keys /\ holding' \subseteq Keys
      /\ decision' \in [Dual -> Decisions]
      /\ outOfTurn' \in BOOLEAN
      /\ last' \in Edges \cup {None}
  BY <1>1, <1>2, Processed DEF IInv
<1>5. Len(held') <= Capacity
  BY <1>1, <1>3, AdmissionAssumption
<1>6. TInv'
  BY <1>2, <1>3, <1>4, <1>5 DEF IInv, TInv
<1>7. Paired(open, down, held)
  BY PairedIs DEF IInv
<1>8. Paired(open', down', held')
  BY <1>1, <1>2, <1>4, <1>7, PairedTail
<1>9. (TInv => (EveryPressEndsOnce <=> Paired(open, down, held)))'
  BY PairedIs, PTL
<1> QED
  BY <1>6, <1>8, <1>9 DEF IInv

(* The task and the pass end.                                               *)
LEMMA EndsInv == ASSUME IInv, TaskEnds \/ PassEnds PROVE IInv'
<1>1. /\ UNCHANGED <<open, held, down, undecided, aged, holding, decision, outOfTurn, first>>
      /\ last' = None /\ pc' \in {"scan", "task", "events"}
  BY DEF TaskEnds, PassEnds, runtime
<1>2. edges' \in 0 .. EdgesPerPass
  BY AdmissionAssumption DEF TaskEnds, PassEnds, IInv, TInv
<1>3. TInv'
  BY <1>1, <1>2 DEF IInv, TInv
<1> QED
  BY <1>1, <1>3, SamePairing

(* A term runs out: a held press is marked, its key and direction stay.     *)
LEMMA ElapseInv == ASSUME IInv, NEW d \in Dual, Elapse(d) PROVE IInv'
<1>1. /\ UNCHANGED <<open, down, undecided, holding, decision, outOfTurn, pc, first, edges>>
      /\ last' = None
  BY DEF Elapse
<1>2. held \in Records /\ Len(held) \in Nat /\ d \in Keys /\ Dual \subseteq Keys
  BY AdmissionAssumption DEF IInv, TInv, Records
<1>3. CASE aged' = aged \cup {d} /\ held' = held
  <2>1. TInv'
    BY <1>1, <1>2, <1>3 DEF IInv, TInv
  <2> QED
    BY <1>1, <1>3, <2>1, SamePairing
<1>4. CASE /\ aged' = aged
           /\ \E i \in DOMAIN held : held' = [held EXCEPT ![i].aged = TRUE]
  <2>1. PICK i \in 1 .. Len(held) : held' = [held EXCEPT ![i].aged = TRUE]
    <3>1. DOMAIN held = 1 .. Len(held)
      BY <1>2 DEF Records
    <3> QED
      BY <1>4, <3>1, Zenon
  <2>2. held[i] \in Edges
    BY <1>2 DEF Records
  <2>3. PICK v : v = [held[i] EXCEPT !.aged = TRUE]
    OBVIOUS
  <2>4. v \in Edges /\ v.key = held[i].key /\ v.down = held[i].down
    BY <2>2, <2>3 DEF Edges
  <2>5. held' = [held EXCEPT ![i] = v]
    BY <2>1, <2>3
  <2>6. held' \in Records /\ Len(held') = Len(held)
    BY <1>2, <2>4, <2>5 DEF Records
  <2>7. \A j \in 1 .. Len(held) : held'[j].key = held[j].key /\ held'[j].down = held[j].down
    BY <1>2, <2>4, <2>5 DEF Records
  <2>8. TInv'
    BY <1>1, <1>4, <2>6 DEF IInv, TInv
  <2>9. ASSUME NEW k \in Keys, NEW n \in 0 .. Len(held)
        PROVE  After(held', down, k, n) = After(held, down, k, n)
    <3>1. \A j \in 1 .. n : held'[j].key = held[j].key /\ held'[j].down = held[j].down
      BY <1>2, <2>7
    <3>2. n \in Int /\ 1 \in Int
      BY <1>2
    <3>3. \A p : N(held', k, p, 1, n) = N(held, k, p, 1, n)
      BY <3>1, <3>2, CountSame
    <3> QED
      BY <3>3 DEF After
  <2>10. Paired(open, down, held)
    BY PairedIs DEF IInv
  <2>11. Len(held) \in 0 .. Len(held)
    BY <1>2
  <2>12. Paired(open', down', held')
    BY <1>1, <2>6, <2>9, <2>10, <2>11 DEF Paired
  <2>13. (TInv => (EveryPressEndsOnce <=> Paired(open, down, held)))'
    BY PairedIs, PTL
  <2> QED
    BY <2>8, <2>12, <2>13 DEF IInv
<1> QED
  BY <1>3, <1>4 DEF Elapse

LEMMA StutterInv == ASSUME IInv, UNCHANGED vars PROVE IInv'
<1>1. TInv' /\ UNCHANGED <<open, held, down>>
  BY DEF IInv, TInv, vars, runtime
<1> QED
  BY <1>1, SamePairing

-----------------------------------------------------------------------------

(* The invariant holds in every state: the values have their types, the     *)
(* queue its capacity, and presses and releases are paired.                 *)
THEOREM Inductive == Spec => []IInv
<1>1. Init => IInv
  BY InitInv
<1>2. IInv /\ [Next]_vars => IInv'
  BY PressInv, ReleaseInv, ScanInv, ReplayInv, EndsInv, ElapseInv, StutterInv DEF Next, Pass
<1> QED
  BY <1>1, <1>2, PTL DEF Spec

(* In every state of a run the variables have their types, and the queue    *)
(* (record_admission_held) never holds more than its capacity.              *)
THEOREM TypeCorrect == Spec => []TInv
<1>1. IInv => TInv
  BY DEF IInv
<1> QED
  BY <1>1, Inductive, PTL

(* For every set of keys, every capacity of the queue and however many      *)
(* edges a pass delivers, no record is dropped, doubled or let past its own *)
(* press: replayed from any state, the queue never ends a press that is not *)
(* open nor opens one twice, and leaves what is physically open.            *)
THEOREM EveryPress == Spec => []EveryPressEndsOnce
<1>1. IInv => EveryPressEndsOnce
  BY DEF IInv
<1> QED
  BY <1>1, Inductive, PTL

-----------------------------------------------------------------------------
(* What a held press recalls of the keys that were down when it was made,    *)
(* apart from the state: it recalls a modifier exactly when it will be       *)
(* replayed with the modifier down; it recalls a tap/hold key when the key   *)
(* will be down, or when the key was let go since as something other than a  *)
(* hold and stays up until the replay.  dec is how each key was decided.     *)

RecallAt(q, dn, dec, i) ==
    /\ \A m \in Mods : m \in q[i].under <=> After(q, dn, m, i - 1) > 0
    /\ \A d \in Dual :
        /\ After(q, dn, d, i - 1) > 0 => d \in q[i].under
        /\ d \in q[i].under =>
             \/ After(q, dn, d, i - 1) > 0
             \/ dec[d] # "hold" /\ \A n \in 0 .. i - 1 : After(q, dn, d, n) = 0

Recalls(q, dn, dec) == \A i \in 1 .. Len(q) : q[i].down => RecallAt(q, dn, dec, i)

(* A key that is up and was no hold does not become one.                     *)
Steady(dn, dec, dec2) ==
    \A d \in Dual : dn[d] = 0 /\ dec[d] # "hold" => dec2[d] # "hold"

(* Before any record, the count is the presses processed.                    *)
LEMMA AfterNone ==
  ASSUME NEW q, NEW dn \in Counts, NEW k \in Keys
  PROVE  After(q, dn, k, 0) = dn[k]
<1>1. N(q, k, 1, 1, 0) = 0 /\ N(q, k, 0, 1, 0) = 0
  BY CountNone
<1>2. dn[k] \in Int
  BY DEF Counts
<1> QED
  BY <1>1, <1>2 DEF After

(* A record processed past the queue moves its key's count everywhere.       *)
LEMMA AfterCounted ==
  ASSUME NEW q \in Records, NEW dn \in Counts, NEW r \in Edges, NEW k \in Keys, NEW n \in Nat
  PROVE  After(q, Counted(dn, r), k, n) =
           After(q, dn, k, n) + IF r.key # k THEN 0 ELSE IF r.down THEN 1 ELSE -1
<1> DEFINE d == IF r.key # k THEN 0 ELSE IF r.down THEN 1 ELSE -1
<1>1. N(q, k, 1, 1, n) \in Nat /\ N(q, k, 0, 1, n) \in Nat
  BY CountType
<1>2. Counted(dn, r)[k] = dn[k] + d /\ dn[k] \in Int /\ d \in Int
  BY CountedAt DEF Counts
<1>3. After(q, Counted(dn, r), k, n) = After(q, dn, k, n) + d
  <2> HIDE DEF d
  <2> QED
    BY <1>1, <1>2 DEF After
<1> QED
  BY <1>3

(* The empty queue recalls nothing.                                          *)
LEMMA RecallsNone == ASSUME NEW q, q = <<>>, NEW dn, NEW dec PROVE Recalls(q, dn, dec)
BY DEF Recalls

(* What a record recalls depends on the counts before it.                    *)
LEMMA RecallMoved ==
  ASSUME NEW q, NEW dn, NEW dec, NEW i \in Nat \ {0}, RecallAt(q, dn, dec, i),
         NEW q2, NEW dn2, NEW dec2, NEW i2 \in Nat \ {0}, i2 <= i,
         q2[i2].under = q[i].under,
         \A k \in Keys, n \in 0 .. i2 - 1 :
             After(q2, dn2, k, n) = After(q, dn, k, n + (i - i2)),
         \A d \in Dual : (\A n \in 0 .. i - 1 : After(q, dn, d, n) = 0) /\ dec[d] # "hold"
                           => dec2[d] # "hold"
  PROVE  RecallAt(q2, dn2, dec2, i2)
<1>1. Mods \subseteq Keys /\ Dual \subseteq Keys
  BY AdmissionAssumption
<1>2. i2 - 1 \in 0 .. i2 - 1 /\ (i2 - 1) + (i - i2) = i - 1
  OBVIOUS
<1>3. \A k \in Keys : After(q2, dn2, k, i2 - 1) = After(q, dn, k, i - 1)
  BY <1>2
<1>4. ASSUME NEW d \in Dual, \A n \in 0 .. i - 1 : After(q, dn, d, n) = 0
      PROVE  \A n \in 0 .. i2 - 1 : After(q2, dn2, d, n) = 0
  <2> SUFFICES ASSUME NEW n \in 0 .. i2 - 1 PROVE After(q2, dn2, d, n) = 0
    OBVIOUS
  <2>1. n + (i - i2) \in 0 .. i - 1
    OBVIOUS
  <2> QED
    BY <1>1, <1>4, <2>1
<1>5. \A m \in Mods : m \in q2[i2].under <=> After(q2, dn2, m, i2 - 1) > 0
  BY <1>1, <1>3 DEF RecallAt
<1>6. ASSUME NEW d \in Dual
      PROVE  /\ After(q2, dn2, d, i2 - 1) > 0 => d \in q2[i2].under
             /\ d \in q2[i2].under =>
                  \/ After(q2, dn2, d, i2 - 1) > 0
                  \/ dec2[d] # "hold" /\ \A n \in 0 .. i2 - 1 : After(q2, dn2, d, n) = 0
  BY <1>1, <1>3, <1>4 DEF RecallAt
<1> QED
  BY <1>5, <1>6 DEF RecallAt

(* A press is held back that recalls what is physically down, or a release.  *)
LEMMA RecallsAppend ==
  ASSUME NEW q \in Records, NEW r \in Edges, NEW dn \in Counts, NEW op \in Counts, NEW dec,
         Paired(op, dn, q), Recalls(q, dn, dec),
         r.down => r.under = {x \in Mods \cup Dual : op[x] > 0}
  PROVE  Recalls(Append(q, r), dn, dec)
<1> DEFINE s == Append(q, r)
<1>1. Len(q) \in Nat /\ Len(s) = Len(q) + 1 /\ (\A i \in 1 .. Len(q) : s[i] = q[i]) /\ s[Len(q) + 1] = r
  BY DEF Records
<1>2. \A k \in Keys, n \in 0 .. Len(q) : After(s, dn, k, n) = After(q, dn, k, n)
  BY AfterAppend
<1>3. Mods \subseteq Keys /\ Dual \subseteq Keys
  BY AdmissionAssumption
<1> HIDE DEF s
<1> SUFFICES ASSUME NEW i \in 1 .. Len(q) + 1, s[i].down PROVE RecallAt(s, dn, dec, i)
  BY <1>1 DEF Recalls, s
<1>4. CASE i \in 1 .. Len(q)
  <2>1. RecallAt(q, dn, dec, i) /\ s[i].under = q[i].under
    BY <1>1, <1>4 DEF Recalls
  <2>2. i \in Nat \ {0} /\ i <= i
    OBVIOUS
  <2>3. \A k \in Keys, n \in 0 .. i - 1 : After(s, dn, k, n) = After(q, dn, k, n + (i - i))
    <3> SUFFICES ASSUME NEW k \in Keys, NEW n \in 0 .. i - 1
                 PROVE  After(s, dn, k, n) = After(q, dn, k, n + (i - i))
      OBVIOUS
    <3>1. n + (i - i) = n /\ n \in 0 .. Len(q)
      BY <1>1, <1>4
    <3> QED
      BY <1>2, <3>1
  <2> QED
    BY <2>1, <2>2, <2>3, RecallMoved
<1>5. CASE i = Len(q) + 1
  <2>1. i - 1 = Len(q) /\ Len(q) \in 0 .. Len(q)
    BY <1>1, <1>5
  <2>2. \A k \in Keys : After(s, dn, k, i - 1) = op[k]
    BY <1>2, <2>1 DEF Paired
  <2>3. s[i].under = {x \in Mods \cup Dual : op[x] > 0}
    BY <1>1, <1>5
  <2> QED
    BY <1>3, <2>2, <2>3 DEF RecallAt
<1> QED
  BY <1>1, <1>4, <1>5

(* The oldest record is processed.                                           *)
LEMMA RecallsTail ==
  ASSUME NEW q \in Records, q # <<>>, NEW dn \in Counts, NEW dec, NEW dec2,
         Recalls(q, dn, dec), Steady(dn, dec, dec2)
  PROVE  Recalls(Tail(q), Counted(dn, Head(q)), dec2)
<1> DEFINE t == Tail(q)
           dn2 == Counted(dn, Head(q))
<1>1. Len(q) \in Nat \ {0} /\ Len(t) = Len(q) - 1 /\ \A i \in 1 .. Len(t) : t[i] = q[i + 1]
  BY DEF Records
<1>2. \A k \in Keys, n \in 0 .. Len(t) : After(t, dn2, k, n) = After(q, dn, k, n + 1)
  BY AfterTail
<1> HIDE DEF t, dn2
<1> SUFFICES ASSUME NEW i \in 1 .. Len(t), t[i].down PROVE RecallAt(t, dn2, dec2, i)
  BY DEF Recalls, t, dn2
<1>3. i + 1 \in 1 .. Len(q) /\ i \in Nat \ {0} /\ i + 1 \in Nat \ {0} /\ i <= i + 1 /\ (i + 1) - i = 1
  BY <1>1
<1>4. RecallAt(q, dn, dec, i + 1) /\ t[i].under = q[i + 1].under
  BY <1>1, <1>3 DEF Recalls
<1>5. \A k \in Keys, n \in 0 .. i - 1 : After(t, dn2, k, n) = After(q, dn, k, n + ((i + 1) - i))
  <2> SUFFICES ASSUME NEW k \in Keys, NEW n \in 0 .. i - 1
               PROVE  After(t, dn2, k, n) = After(q, dn, k, n + ((i + 1) - i))
    OBVIOUS
  <2>1. n \in 0 .. Len(t)
    BY <1>1
  <2> QED
    BY <1>2, <1>3, <2>1
<1>6. \A d \in Dual : (\A n \in 0 .. (i + 1) - 1 : After(q, dn, d, n) = 0) /\ dec[d] # "hold"
                        => dec2[d] # "hold"
  <2> SUFFICES ASSUME NEW d \in Dual, \A n \in 0 .. (i + 1) - 1 : After(q, dn, d, n) = 0,
                      dec[d] # "hold"
               PROVE  dec2[d] # "hold"
    OBVIOUS
  <2>1. After(q, dn, d, 0) = 0
    BY <1>3
  <2>2. dn[d] = 0
    BY <2>1, AfterNone, AdmissionAssumption
  <2> QED
    BY <2>2 DEF Steady
<1> QED
  BY <1>3, <1>4, <1>5, <1>6, RecallMoved

(* The queue stays, and so do the counts.                                    *)
LEMMA RecallsSame ==
  ASSUME NEW q \in Records, NEW q2 \in Records, NEW dn \in Counts, NEW dec, NEW dec2,
         Recalls(q, dn, dec), Steady(dn, dec, dec2), Len(q2) = Len(q),
         \A i \in 1 .. Len(q) : /\ q2[i].key = q[i].key /\ q2[i].down = q[i].down
                                /\ q2[i].under = q[i].under
  PROVE  Recalls(q2, dn, dec2)
<1>1. Len(q) \in Nat
  BY DEF Records
<1> SUFFICES ASSUME NEW i \in 1 .. Len(q), q2[i].down PROVE RecallAt(q2, dn, dec2, i)
  BY DEF Recalls
<1>2. i \in Nat \ {0} /\ i <= i /\ q2[i].under = q[i].under
  OBVIOUS
<1>3. RecallAt(q, dn, dec, i)
  BY DEF Recalls
<1>4. \A k \in Keys, n \in 0 .. i - 1 : After(q2, dn, k, n) = After(q, dn, k, n + (i - i))
  <2> SUFFICES ASSUME NEW k \in Keys, NEW n \in 0 .. i - 1
               PROVE  After(q2, dn, k, n) = After(q, dn, k, n + (i - i))
    OBVIOUS
  <2>1. n + (i - i) = n /\ n \in Int /\ 1 \in Int /\ \A j \in 1 .. n : j \in 1 .. Len(q)
    BY <1>1
  <2>2. \A j \in 1 .. n : q2[j].key = q[j].key /\ q2[j].down = q[j].down
    BY <2>1
  <2>3. \A p : N(q2, k, p, 1, n) = N(q, k, p, 1, n)
    BY <2>1, <2>2, CountSame
  <2> QED
    BY <2>1, <2>3 DEF After
<1>5. \A d \in Dual : (\A n \in 0 .. i - 1 : After(q, dn, d, n) = 0) /\ dec[d] # "hold"
                        => dec2[d] # "hold"
  <2> SUFFICES ASSUME NEW d \in Dual, \A n \in 0 .. i - 1 : After(q, dn, d, n) = 0, dec[d] # "hold"
               PROVE  dec2[d] # "hold"
    OBVIOUS
  <2>1. dn[d] = 0
    BY AfterNone, AdmissionAssumption
  <2> QED
    BY <2>1 DEF Steady
<1> QED
  BY <1>2, <1>3, <1>4, <1>5, RecallMoved

(* A release goes past the queue, of a key no modifier, and no hold if it is *)
(* a tap/hold key: from here on the key is up until everything is replayed.  *)
LEMMA RecallsRelease ==
  ASSUME NEW q \in Records, NEW r \in Edges, NEW dn \in Counts, NEW op \in Counts, NEW dec, NEW dec2,
         Paired(op, dn, q), Legal(op, r), ~r.down,
         \A m \in 1 .. Len(q) : N(q, r.key, 1, m, Len(q)) <= N(q, r.key, 0, m, Len(q)),
         Recalls(q, dn, dec), Steady(dn, dec, dec2),
         r.key \notin Mods, r.key \in Dual => dec2[r.key] # "hold"
  PROVE  Recalls(q, Counted(dn, r), dec2)
<1> DEFINE dn2 == Counted(dn, r)
<1>1. Len(q) \in Nat /\ Mods \subseteq Keys /\ Dual \subseteq Keys /\ r.key \in Keys
  BY AdmissionAssumption DEF Records, Edges
<1>2. Paired(Counted(op, r), dn2, q)
  BY PairedAtOnce
<1>3. \A k \in Keys, n \in Nat :
         After(q, dn2, k, n) = After(q, dn, k, n) + IF r.key # k THEN 0 ELSE -1
  BY AfterCounted
<1>4. ASSUME NEW k \in Keys, k # r.key, NEW n \in Nat PROVE After(q, dn2, k, n) = After(q, dn, k, n)
  <2>1. After(q, dn, k, n) \in Int
    BY AfterType
  <2> HIDE DEF dn2
  <2> QED
    BY <1>3, <1>4, <2>1
<1>5. ASSUME r.key \in Dual, NEW n \in 0 .. Len(q) PROVE After(q, dn2, r.key, n) = 0
  <2>1. MostOpen(r.key) = 1
    BY <1>5, AdmissionAssumption DEF MostOpen
  <2>2. After(q, dn, r.key, n) \in 0 .. 1
    BY <1>1, <2>1 DEF Paired
  <2>3. After(q, dn2, r.key, n) \in 0 .. 1
    BY <1>1, <1>2, <2>1 DEF Paired
  <2>4. After(q, dn2, r.key, n) = After(q, dn, r.key, n) - 1
    BY <1>1, <1>3, <2>2
  <2> QED
    BY <2>2, <2>3, <2>4
<1> HIDE DEF dn2
<1> SUFFICES ASSUME NEW i \in 1 .. Len(q), q[i].down PROVE RecallAt(q, dn2, dec2, i)
  BY DEF Recalls, dn2
<1>6. RecallAt(q, dn, dec, i)
  BY DEF Recalls
<1>7. i - 1 \in Nat /\ i - 1 \in 0 .. Len(q) /\ \A n \in 0 .. i - 1 : n \in Nat /\ n \in 0 .. Len(q)
  BY <1>1
<1>8. \A m \in Mods : m \in q[i].under <=> After(q, dn2, m, i - 1) > 0
  BY <1>1, <1>4, <1>6, <1>7 DEF RecallAt
<1>9. ASSUME NEW d \in Dual
      PROVE  /\ After(q, dn2, d, i - 1) > 0 => d \in q[i].under
             /\ d \in q[i].under =>
                  \/ After(q, dn2, d, i - 1) > 0
                  \/ dec2[d] # "hold" /\ \A n \in 0 .. i - 1 : After(q, dn2, d, n) = 0
  <2>1. CASE d = r.key
    BY <1>5, <1>7, <2>1
  <2>2. CASE d # r.key
    <3>1. \A n \in 0 .. i - 1 : After(q, dn2, d, n) = After(q, dn, d, n)
      BY <1>1, <1>4, <1>7, <2>2
    <3>2. After(q, dn2, d, i - 1) = After(q, dn, d, i - 1)
      BY <3>1, <1>7
    <3>3. (\A n \in 0 .. i - 1 : After(q, dn, d, n) = 0) => dn[d] = 0
      BY <1>1, <1>7, AfterNone
    <3> QED
      BY <1>6, <3>1, <3>2, <3>3 DEF RecallAt, Steady
  <2> QED
    BY <2>1, <2>2
<1> QED
  BY <1>8, <1>9 DEF RecallAt

-----------------------------------------------------------------------------
(* The second invariant: what is down is undecided or holds; a held press    *)
(* recalls what it will meet; and the task starts with every key decided.    *)

Tokens ==
    /\ \A d \in Dual : down[d] > 0 <=> d \in undecided \cup holding
    /\ undecided \cap holding = {} /\ holding \subseteq Dual

Recalled == ~outOfTurn => Recalls(held, down, decision)

Decided == pc = "task" /\ first => undecided = {}

JInv == IInv /\ Tokens /\ Recalled /\ Decided /\ PressMeetsWhatWasDown

(* What the runtime has processed fits the hands too.                        *)
Fits == \A k \in Keys : down[k] \in 0 .. MostOpen(k)

LEMMA DownFits == IInv => Fits
<1> SUFFICES ASSUME IInv, NEW k \in Keys PROVE down[k] \in 0 .. MostOpen(k)
  BY DEF Fits
<1>1. Paired(open, down, held) /\ 0 \in 0 .. Len(held) /\ down \in Counts
  BY PairedIs DEF IInv, TInv, Records
<1> QED
  BY <1>1, AfterNone DEF Paired

(* What the runtime makes up for before a record is of undecided keys, and   *)
(* before a press of other keys.                                             *)
LEMMA MissedType ==
  ASSUME NEW r \in Edges
  PROVE  MissedHolds(r) \subseteq undecided /\ (r.down => r.key \notin MissedHolds(r))
BY DEF MissedHolds

(* A record processed moves its key in or out of the runtime, and holds      *)
(* from undecided to holding.                                                *)
LEMMA ProcessedTokens ==
  ASSUME IInv, IInv', Tokens, NEW r \in Edges, NEW o, Process(r, o)
  PROVE  Tokens'
<1> DEFINE m == MissedHolds(r)
           k == r.key
<1>1. m \subseteq undecided /\ (r.down => k \notin m)
  BY MissedType
<1>2. \/ r.down /\ undecided' = (undecided \ m) \cup ({k} \cap Dual) /\ holding' = holding \cup m
      \/ ~r.down /\ undecided' = undecided \ (m \cup {k}) /\ holding' = (holding \cup m) \ {k}
  BY DEF Process
<1>3. undecided \subseteq Dual /\ Dual \subseteq Keys /\ k \in Keys /\ down \in Counts /\ r.down \in BOOLEAN
  BY AdmissionAssumption DEF IInv, TInv, Edges
<1>4. down' = Counted(down, r)
  BY DEF Process, Counted
<1>5. \A d \in Dual : down[d] \in 0 .. 1 /\ down'[d] \in 0 .. 1
  <2>1. \A d \in Dual : MostOpen(d) = 1
    BY AdmissionAssumption DEF MostOpen
  <2>2. (IInv => Fits)'
    BY DownFits, PTL
  <2> QED
    BY <1>3, <2>1, <2>2, DownFits DEF Fits
<1>6. \A d \in Dual : down'[d] = down[d] + IF k # d THEN 0 ELSE IF r.down THEN 1 ELSE -1
  BY <1>3, <1>4, CountedAt
<1> HIDE DEF m, k
<1>7. ASSUME NEW d \in Dual PROVE down'[d] > 0 <=> d \in undecided' \cup holding'
  <2>1. CASE d # k
    <3>1. down'[d] = down[d]
      BY <1>5, <1>6, <2>1
    <3>2. d \in undecided' \cup holding' <=> d \in undecided \cup holding
      BY <1>1, <1>2, <2>1
    <3> QED
      BY <3>1, <3>2 DEF Tokens
  <2>2. CASE d = k /\ r.down
    BY <1>2, <1>5, <1>6, <2>2
  <2>3. CASE d = k /\ ~r.down
    BY <1>2, <1>5, <1>6, <2>3
  <2> QED
    BY <2>1, <2>2, <2>3
<1>8. r.down /\ k \in Dual => k \notin holding
  BY <1>5, <1>6 DEF Tokens
<1>9. undecided' \cap holding' = {}
  BY <1>1, <1>2, <1>8 DEF Tokens
<1>10. holding' \subseteq Dual
  BY <1>1, <1>2, <1>3 DEF Tokens
<1> QED
  BY <1>7, <1>9, <1>10 DEF Tokens

(* No key that is up is decided as a hold by a record.                       *)
LEMMA ProcessedSteady ==
  ASSUME TInv, Tokens, NEW r \in Edges, NEW o, Process(r, o)
  PROVE  Steady(down, decision, decision')
<1> DEFINE m == MissedHolds(r)
<1>1. m \subseteq undecided
  BY MissedType
<1>2. PICK t : decision' = [d \in Dual |-> IF d \in m \ {r.key} THEN "hold"
                                           ELSE IF d \in m THEN "brief"
                                           ELSE IF ~r.down /\ d \in t THEN "tap"
                                           ELSE decision[d]]
  BY DEF Process
<1> HIDE DEF m
<1>3. \A d \in m : d \in Dual => down[d] > 0
  BY <1>1 DEF Tokens
<1> QED
  BY <1>2, <1>3 DEF Steady

(* A press processed with no other key undecided meets what is down, and no  *)
(* key changes under it: it meets what it recalls.                           *)
LEMMA Meets ==
  ASSUME TInv, Tokens, NEW r \in Edges, NEW o, Process(r, o), r.down, undecided \subseteq {r.key},
         \A x \in Mods \ {r.key} : x \in r.under <=> down[x] > 0,
         \A d \in Dual \ {r.key} :
            /\ down[d] > 0 => d \in r.under
            /\ d \in r.under => down[d] > 0 \/ decision[d] # "hold"
  PROVE  PressMeetsWhatWasDown'
<1>1. MissedHolds(r) = {}
  BY MissedType
<1>2. holding' = holding /\ last' = r
  BY <1>1 DEF Process
<1>3. decision' = [d \in Dual |-> decision[d]]
  <2>1. PICK t : decision' = [d \in Dual |-> IF d \in {} \ {r.key} THEN "hold"
                                             ELSE IF d \in {} THEN "brief"
                                             ELSE IF ~r.down /\ d \in t THEN "tap"
                                             ELSE decision[d]]
    BY <1>1 DEF Process
  <2> QED
    BY <2>1
<1>4. down' = Counted(down, r) /\ down \in Counts /\ Mods \subseteq Keys /\ Dual \subseteq Keys
  BY AdmissionAssumption DEF Process, Counted, TInv
<1>5. \A x \in Keys \ {r.key} : down'[x] = down[x]
  BY <1>4, CountedAt DEF Counts
<1>6. \A x \in Mods \ {r.key} : x \in r.under <=> down'[x] > 0
  BY <1>4, <1>5
<1>7. \A d \in Dual \ {r.key} : d \in holding <=> down[d] > 0
  BY DEF Tokens
<1>8. \A d \in Dual \ {r.key} :
         /\ d \in holding' => d \in r.under
         /\ d \in r.under /\ decision'[d] = "hold" => d \in holding'
  BY <1>2, <1>3, <1>7
<1> QED
  BY <1>2, <1>6, <1>8 DEF PressMeetsWhatWasDown

(* An edge is admitted.  It waits; or the oldest record goes out of turn; or *)
(* it is a press that finds the queue empty and no other key undecided; or a *)
(* release past the queue, in turn while a key is undecided: then it is not  *)
(* a modifier's, nor a key's that holds.                                     *)
LEMMA AdmitMeets ==
  ASSUME JInv, NEW r \in Edges, Legal(open, r), open' = Counted(open, r), Admit(r),
         pc = "events", UNCHANGED <<pc, first>>, edges' \in 0 .. EdgesPerPass,
         r.down => r.under = {x \in Mods \cup Dual : open[x] > 0}
  PROVE  JInv'
<1>1. IInv /\ Tokens /\ Recalled /\ TInv
  BY DEF JInv, IInv
<1>2. IInv'
  BY <1>1, AdmitInv
<1>3. Decided'
  BY DEF Decided
<1>4. /\ held \in Records /\ Len(held) \in Nat /\ Paired(open, down, held)
      /\ open \in Counts /\ down \in Counts /\ undecided \subseteq Dual
  BY <1>1, PairedIs DEF IInv, TInv, Records
<1>5. ~outOfTurn \/ held = <<>> => Recalls(held, down, decision)
  BY <1>1, RecallsNone DEF Recalled
<1>6. CASE /\ held' = Append(held, r) /\ last' = None
           /\ outOfTurn' = (outOfTurn /\ held # <<>>) /\ UNCHANGED runtime
  <2>1. UNCHANGED <<down, undecided, holding, decision>>
    BY <1>6 DEF runtime
  <2>2. Tokens'
    BY <1>1, <2>1 DEF Tokens
  <2>3. PressMeetsWhatWasDown'
    BY <1>6 DEF PressMeetsWhatWasDown
  <2>4. ASSUME ~outOfTurn' PROVE Recalls(held', down', decision')
    <3>1. Recalls(held, down, decision)
      BY <1>5, <1>6, <2>4
    <3>2. Recalls(Append(held, r), down, decision)
      BY <1>4, <3>1, RecallsAppend
    <3> QED
      BY <1>6, <2>1, <3>2
  <2>5. Recalled'
    BY <2>4 DEF Recalled
  <2> QED
    BY <1>2, <1>3, <2>2, <2>3, <2>5 DEF JInv
<1>7. CASE Len(held) >= Capacity /\ Process(Head(held), TRUE)
  <2>1. Head(held) \in Edges
    BY <1>4, <1>7, AdmissionAssumption DEF Records
  <2>2. Tokens'
    BY <1>1, <1>2, <1>7, <2>1, ProcessedTokens
  <2>3. outOfTurn'
    BY <1>7 DEF Process
  <2>4. Recalled' /\ PressMeetsWhatWasDown'
    BY <2>3 DEF Recalled, PressMeetsWhatWasDown
  <2> QED
    BY <1>2, <1>3, <2>2, <2>4 DEF JInv
<1>8. CASE ~MustWait(r) /\ held' = held /\ Process(r, held # <<>> /\ undecided = {})
  <2>1. Tokens'
    BY <1>1, <1>2, <1>8, ProcessedTokens
  <2>2. /\ last' = r /\ down' = Counted(down, r)
        /\ outOfTurn' <=> (held # <<>> /\ undecided = {}) \/ (outOfTurn /\ held # <<>>)
    BY <1>8 DEF Process, Counted
  <2>3. CASE r.down
    <3>1. held = <<>> /\ undecided \subseteq {r.key}
      BY <1>8, <2>3 DEF MustWait
    <3>2. \A k \in Keys : open[k] = down[k]
      <4>1. Len(held) = 0
        BY <3>1
      <4> QED
        BY <1>4, <4>1, AfterNone DEF Paired
    <3>3. \A x \in Mods \cup Dual : x \in r.under <=> down[x] > 0
      BY <2>3, <3>2, AdmissionAssumption
    <3>4. PressMeetsWhatWasDown'
      BY <1>1, <1>8, <2>3, <3>1, <3>3, Meets
    <3>5. held' = <<>>
      BY <1>8, <3>1
    <3>6. Recalled'
      BY <3>5, RecallsNone DEF Recalled
    <3> QED
      BY <1>2, <1>3, <2>1, <3>4, <3>6 DEF JInv
  <2>4. CASE ~r.down
    <3>1. PressMeetsWhatWasDown'
      BY <2>2, <2>4 DEF PressMeetsWhatWasDown
    <3>2. ASSUME ~outOfTurn', held # <<>> PROVE Recalls(held, Counted(down, r), decision')
      <4>1. undecided # {} /\ Recalls(held, down, decision)
        BY <1>5, <2>2, <3>2
      <4>2. ~PressIsHeld(r.key) /\ \A d \in undecided : r.key = d \/ r.key \notin Mods \cup holding
        BY <1>8, <2>4 DEF MustWait, ReleaseWaits, ModsOrLayer
      <4>3. r.key \notin Mods
        BY <1>4, <4>1, <4>2, AdmissionAssumption
      <4>4. r.key \in Dual => decision'[r.key] # "hold"
        <5> SUFFICES ASSUME r.key \in Dual PROVE decision'[r.key] # "hold"
          OBVIOUS
        <5>1. down[r.key] > 0
          <6>1. MostOpen(r.key) = 1 /\ r.key \in Keys /\ Len(held) \in 0 .. Len(held) /\ 0 \in 0 .. Len(held)
            BY <1>4, AdmissionAssumption DEF MostOpen, Edges
          <6>2. \A m \in 1 .. Len(held) :
                  N(held, r.key, 1, m, Len(held)) <= N(held, r.key, 0, m, Len(held))
            BY <1>4, <4>2, NoPressHeld
          <6>3. After(held, down, r.key, 0) >= After(held, down, r.key, Len(held))
            BY <1>4, <6>1, <6>2, AfterRelease
          <6>4. After(held, down, r.key, Len(held)) = open[r.key] /\ After(held, down, r.key, 0) = down[r.key]
            BY <1>4, <6>1, AfterNone DEF Paired
          <6>5. open[r.key] - 1 >= 0
            <7>1. Counted(open, r)[r.key] = open[r.key] - 1
              BY <1>4, <2>4, <6>1, CountedAt DEF Counts
            <7> QED
              BY <7>1, <6>1 DEF Legal
          <6>6. open[r.key] \in Int /\ down[r.key] \in Int
            BY <1>4, <6>1 DEF Counts
          <6> QED
            BY <6>3, <6>4, <6>5, <6>6
        <5>2. r.key \in undecided
          BY <1>1, <4>1, <4>2, <5>1 DEF Tokens
        <5>3. decision' = [d \in Dual |-> IF d \in MissedHolds(r) \ {r.key} THEN "hold"
                                          ELSE IF d \in MissedHolds(r) THEN "brief"
                                          ELSE IF ~r.down /\ d \in {r.key} \cap (undecided \ MissedHolds(r)) THEN "tap"
                                          ELSE decision[d]]
          BY <1>8 DEF Process
        <5> QED
          BY <2>4, <5>2, <5>3
      <4>5. \A m \in 1 .. Len(held) : N(held, r.key, 1, m, Len(held)) <= N(held, r.key, 0, m, Len(held))
        BY <1>4, <4>2, NoPressHeld
      <4>6. Steady(down, decision, decision')
        BY <1>1, <1>8, ProcessedSteady
      <4> QED
        BY <1>4, <2>4, <4>1, <4>3, <4>4, <4>5, <4>6, RecallsRelease
    <3>3. Recalled'
      <4>1. CASE held = <<>>
        BY <1>8, <4>1, RecallsNone DEF Recalled
      <4>2. CASE held # <<>>
        BY <1>8, <2>2, <3>2, <4>2 DEF Recalled
      <4> QED
        BY <4>1, <4>2
    <3> QED
      BY <1>2, <1>3, <2>1, <3>1, <3>3 DEF JInv
  <2> QED
    BY <2>3, <2>4
<1> QED
  BY <1>6, <1>7, <1>8 DEF Admit, Capture

LEMMA PressMeets == ASSUME JInv, NEW k \in Keys, Press(k) PROVE JInv'
<1> DEFINE r == Edge(k, TRUE)
<1>1. /\ r \in Edges /\ Legal(open, r) /\ open' = Counted(open, r) /\ Admit(r)
      /\ pc = "events" /\ UNCHANGED <<pc, first>> /\ edges' \in 0 .. EdgesPerPass
  BY PressEdge DEF JInv
<1>2. r.under = {x \in Mods \cup Dual : open[x] > 0}
  BY DEF Edge
<1> HIDE DEF r
<1> QED
  BY <1>1, <1>2, AdmitMeets

LEMMA ReleaseMeets == ASSUME JInv, NEW k \in Keys, Release(k) PROVE JInv'
<1> DEFINE r == Edge(k, FALSE)
<1>1. /\ r \in Edges /\ Legal(open, r) /\ open' = Counted(open, r) /\ Admit(r)
      /\ pc = "events" /\ UNCHANGED <<pc, first>> /\ edges' \in 0 .. EdgesPerPass
  BY ReleaseEdge DEF JInv
<1>2. ~r.down
  BY DEF Edge
<1> HIDE DEF r
<1> QED
  BY <1>1, <1>2, AdmitMeets

(* The scan turns holds on: their keys are down.  When the task starts,      *)
(* every key is decided.                                                     *)
LEMMA ScanMeets == ASSUME JInv, Scan PROVE JInv'
<1>1. IInv' /\ TInv /\ Tokens /\ Recalled
  BY ScanInv DEF JInv, IInv
<1>2. /\ holding' = holding \cup HoldsNow /\ undecided' = undecided \ HoldsNow
      /\ UNCHANGED <<held, down, outOfTurn>> /\ last' = None
      /\ decision' = [d \in Dual |-> IF d \in HoldsNow THEN "hold" ELSE decision[d]]
  BY DEF Scan
<1>3. HoldsNow \subseteq undecided /\ undecided \subseteq Dual /\ held \in Records /\ down \in Counts
  BY <1>1 DEF HoldsNow, TInv
<1>4. Tokens'
  BY <1>1, <1>2, <1>3 DEF Tokens
<1>5. Decided'
  BY DEF Scan, Decided
<1>6. PressMeetsWhatWasDown'
  BY <1>2 DEF PressMeetsWhatWasDown
<1>7. \A d \in HoldsNow : down[d] > 0
  BY <1>1, <1>3 DEF Tokens
<1>8. Steady(down, decision, decision')
  BY <1>2, <1>7 DEF Steady
<1>9. Recalls(held, down, decision) => Recalls(held, down, decision')
  BY <1>3, <1>8, RecallsSame
<1>10. Recalled'
  BY <1>1, <1>2, <1>9 DEF Recalled
<1> QED
  BY <1>1, <1>4, <1>5, <1>6, <1>10 DEF JInv

(* The task replays a press only when every key is decided.                  *)
LEMMA ReplayMeets == ASSUME JInv, Replay PROVE JInv'
<1> DEFINE r == Head(held)
<1>1. IInv' /\ IInv /\ TInv /\ Tokens /\ Recalled /\ Decided
  BY ReplayInv DEF JInv, IInv
<1>2. /\ held # <<>> /\ held' = Tail(held) /\ Process(r, FALSE) /\ ~first' /\ pc = "task"
      /\ first \/ ~StopsBefore(r)
  BY DEF Replay
<1>3. held \in Records /\ down \in Counts /\ r \in Edges /\ r = held[1] /\ 1 \in 1 .. Len(held)
  BY <1>1, <1>2 DEF TInv, Records
<1> HIDE DEF r
<1>4. Tokens'
  BY <1>1, <1>2, <1>3, ProcessedTokens
<1>5. Decided'
  BY <1>2 DEF Decided
<1>6. last' = r /\ down' = Counted(down, r) /\ (outOfTurn' <=> outOfTurn)
  BY <1>2 DEF Process, Counted
<1>7. Steady(down, decision, decision')
  BY <1>1, <1>2, <1>3, ProcessedSteady
<1>8. Recalled'
  <2>1. Recalls(held, down, decision) => Recalls(Tail(held), Counted(down, r), decision')
    BY <1>2, <1>3, <1>7, RecallsTail DEF r
  <2> QED
    BY <1>1, <1>2, <1>6, <2>1 DEF Recalled
<1>9. ASSUME r.down, ~outOfTurn PROVE PressMeetsWhatWasDown'
  <2>1. undecided = {}
    BY <1>1, <1>2, <1>9 DEF Decided, StopsBefore
  <2>2. RecallAt(held, down, decision, 1)
    BY <1>1, <1>3, <1>9 DEF Recalled, Recalls
  <2>3. \A k \in Keys : After(held, down, k, 1 - 1) = down[k]
    <3>1. 1 - 1 = 0
      OBVIOUS
    <3> QED
      BY <1>3, <3>1, AfterNone
  <2>4. Mods \subseteq Keys /\ Dual \subseteq Keys
    BY AdmissionAssumption
  <2>5. \A x \in Mods : x \in r.under <=> down[x] > 0
    BY <1>3, <2>2, <2>3, <2>4 DEF RecallAt
  <2>6. \A d \in Dual : /\ down[d] > 0 => d \in r.under
                        /\ d \in r.under => down[d] > 0 \/ decision[d] # "hold"
    BY <1>3, <2>2, <2>3, <2>4 DEF RecallAt
  <2> QED
    BY <1>1, <1>2, <1>3, <1>9, <2>1, <2>5, <2>6, Meets
<1>10. ~r.down \/ outOfTurn => PressMeetsWhatWasDown'
  BY <1>6 DEF PressMeetsWhatWasDown
<1> QED
  BY <1>1, <1>4, <1>5, <1>8, <1>9, <1>10 DEF JInv

(* The rest of a pass changes nothing a press meets.                         *)
LEMMA EndsMeets == ASSUME JInv, TaskEnds \/ PassEnds PROVE JInv'
<1>1. IInv'
  BY EndsInv DEF JInv
<1>2. /\ UNCHANGED <<held, down, undecided, holding, decision, outOfTurn>>
      /\ last' = None /\ pc' # "task"
  BY DEF TaskEnds, PassEnds, runtime
<1> QED
  BY <1>1, <1>2 DEF JInv, Tokens, Recalled, Decided, PressMeetsWhatWasDown

LEMMA ElapseMeets == ASSUME JInv, NEW d \in Dual, Elapse(d) PROVE JInv'
<1>1. IInv' /\ TInv /\ TInv'
  BY ElapseInv DEF JInv, IInv
<1>2. UNCHANGED <<down, undecided, holding, decision, outOfTurn, pc, first>> /\ last' = None
  BY DEF Elapse
<1>3. held \in Records /\ held' \in Records /\ down \in Counts
  BY <1>1 DEF TInv
<1>4. /\ Len(held') = Len(held)
      /\ \A i \in 1 .. Len(held) : /\ held'[i].key = held[i].key /\ held'[i].down = held[i].down
                                   /\ held'[i].under = held[i].under
  <2>1. CASE held' = held
    BY <2>1
  <2>2. CASE \E i \in DOMAIN held : held' = [held EXCEPT ![i].aged = TRUE]
    <3>1. PICK i \in 1 .. Len(held) : held' = [held EXCEPT ![i].aged = TRUE]
      <4>1. DOMAIN held = 1 .. Len(held)
        BY <1>3 DEF Records
      <4> QED
        BY <2>2, <4>1, Zenon
    <3>2. held[i] \in Edges
      BY <1>3 DEF Records
    <3>3. PICK v : v = [held[i] EXCEPT !.aged = TRUE]
      OBVIOUS
    <3>4. v.key = held[i].key /\ v.down = held[i].down /\ v.under = held[i].under
      BY <3>2, <3>3 DEF Edges
    <3>5. held' = [held EXCEPT ![i] = v]
      BY <3>1, <3>3
    <3> QED
      BY <1>3, <3>4, <3>5 DEF Records
  <2> QED
    BY <2>1, <2>2 DEF Elapse
<1>5. Steady(down, decision, decision)
  BY DEF Steady
<1>6. Recalls(held, down, decision) => Recalls(held', down, decision)
  BY <1>3, <1>4, <1>5, RecallsSame
<1>7. Recalled'
  BY <1>2, <1>6 DEF JInv, Recalled
<1> QED
  BY <1>1, <1>2, <1>7 DEF JInv, Tokens, Decided, PressMeetsWhatWasDown

LEMMA StutterMeets == ASSUME JInv, UNCHANGED vars PROVE JInv'
<1>1. IInv'
  BY StutterInv DEF JInv
<1> QED
  BY <1>1 DEF JInv, Tokens, Recalled, Decided, PressMeetsWhatWasDown, vars, runtime

LEMMA InitMeets == Init => JInv
<1> SUFFICES ASSUME Init PROVE JInv
  OBVIOUS
<1>1. Dual \subseteq Keys /\ held = <<>>
  BY AdmissionAssumption DEF Init
<1>2. Tokens
  BY <1>1 DEF Init, Tokens
<1>3. Recalled
  BY <1>1, RecallsNone DEF Recalled
<1> QED
  BY <1>2, <1>3, InitInv DEF JInv, Init, Decided, PressMeetsWhatWasDown

(* For every set of keys, every capacity and however many edges a pass       *)
(* delivers, a press that goes in its turn meets exactly the modifiers and   *)
(* layer keys that were down when it was made, however long it and their     *)
(* releases waited, and of the tap/hold keys those that were decided as      *)
(* holds.                                                                    *)
THEOREM PressMeetsHands == Spec => []PressMeetsWhatWasDown
<1>1. Init => JInv
  BY InitMeets
<1>2. JInv /\ [Next]_vars => JInv'
  BY PressMeets, ReleaseMeets, ScanMeets, ReplayMeets, EndsMeets, ElapseMeets, StutterMeets
     DEF Next, Pass
<1>3. JInv => PressMeetsWhatWasDown
  BY DEF JInv
<1> QED
  BY <1>1, <1>2, <1>3, PTL DEF Spec

-----------------------------------------------------------------------------
(* How a record gets out of turn.  While edges are still to come and records *)
(* wait, a key is undecided; only a pass's first edge can decide it.         *)

OneEdge ==
    /\ pc = "events" /\ edges = 0 /\ held # <<>> => undecided # {}
    /\ pc # "events" => edges = 0

LEMMA OneEdgeKept ==
  ASSUME EdgesPerPass = 1, IInv, OneEdge, [Next]_vars PROVE OneEdge'
<1>1. edges \in Nat
  BY DEF IInv, TInv
<1>2. ASSUME NEW k \in Keys, Press(k) \/ Release(k) PROVE OneEdge'
  <2>1. pc' = "events" /\ edges' = edges + 1
    BY <1>2 DEF Press, Release, Arrive
  <2> QED
    BY <1>1, <2>1 DEF OneEdge
<1>3. CASE Scan
  <2>1. /\ pc' = IF held = <<>> \/ undecided' # {} THEN "events" ELSE "task"
        /\ pc = "scan" /\ edges' = edges /\ held' = held
    BY <1>3 DEF Scan
  <2> QED
    BY <2>1 DEF OneEdge
<1>4. CASE Replay
  BY <1>4 DEF Replay, OneEdge
<1>5. CASE TaskEnds
  <2>1. /\ pc = "task" /\ pc' = "events" /\ UNCHANGED <<held, undecided, edges>>
        /\ IF held = <<>> THEN TRUE ELSE ~first /\ StopsBefore(Head(held))
    BY <1>5 DEF TaskEnds, runtime
  <2>2. held # <<>> => undecided # {}
    BY <2>1 DEF StopsBefore
  <2> QED
    BY <2>1, <2>2 DEF OneEdge
<1>6. CASE PassEnds
  BY <1>6 DEF PassEnds, OneEdge
<1>7. ASSUME NEW d \in Dual, Elapse(d) PROVE OneEdge'
  <2>1. pc = "scan" /\ UNCHANGED <<pc, edges>>
    BY <1>7 DEF Elapse
  <2> QED
    BY <2>1 DEF OneEdge
<1>8. CASE UNCHANGED vars
  BY <1>8 DEF OneEdge, vars, runtime
<1> QED
  BY <1>2, <1>3, <1>4, <1>5, <1>6, <1>7, <1>8 DEF Next, Pass

LEMMA OneEdgeStep ==
  ASSUME EdgesPerPass = 1, IInv, OneEdge, Next, outOfTurn', ~outOfTurn
  PROVE  Len(held) = Capacity
<1>1. edges \in Nat /\ Len(held) \in Nat /\ Len(held) <= Capacity /\ Capacity \in Nat
  BY AdmissionAssumption DEF IInv, TInv, Records
<1>2. ASSUME NEW k \in Keys, NEW r, Arrive(k), Admit(r) PROVE Len(held) = Capacity
  <2>1. held # <<>> => undecided # {}
    BY <1>1, <1>2 DEF Arrive, OneEdge
  <2>2. Len(held) >= Capacity
    BY <1>2, <2>1 DEF Admit, Capture, Process
  <2> QED
    BY <1>1, <2>2
<1>3. ASSUME NEW k \in Keys, Press(k) PROVE Len(held) = Capacity
  <2>1. Arrive(k) /\ Admit(Edge(k, TRUE))
    BY <1>3, Zenon DEF Press
  <2> QED
    BY <1>2, <2>1
<1>4. ASSUME NEW k \in Keys, Release(k) PROVE Len(held) = Capacity
  <2>1. Arrive(k) /\ Admit(Edge(k, FALSE))
    BY <1>4, Zenon DEF Release
  <2> QED
    BY <1>2, <2>1
<1>5. CASE Replay
  BY <1>5 DEF Replay, Process
<1>6. ASSUME NEW d \in Dual, Elapse(d) PROVE FALSE
  BY <1>6 DEF Elapse
<1>7. ~(Scan \/ TaskEnds \/ PassEnds)
  BY DEF Scan, TaskEnds, PassEnds
<1> QED
  BY <1>3, <1>4, <1>5, <1>6, <1>7 DEF Next, Pass

(* When a pass delivers one edge only, a record goes out of turn only when   *)
(* the queue is full: the release that overtakes held presses needs a second *)
(* edge in the pass whose first decides the key they wait for.               *)
THEOREM OnlyAFullQueue ==
  ASSUME EdgesPerPass = 1
  PROVE  Spec => [][outOfTurn' /\ ~outOfTurn => Len(held) = Capacity]_vars
<1>1. Init => OneEdge
  BY DEF Init, OneEdge
<1>2. IInv /\ OneEdge /\ [Next]_vars => OneEdge'
  BY OneEdgeKept
<1>3. IInv /\ OneEdge /\ [Next]_vars => [outOfTurn' /\ ~outOfTurn => Len(held) = Capacity]_vars
  BY OneEdgeStep
<1> QED
  BY <1>1, <1>2, <1>3, Inductive, PTL DEF Spec

------------------------------------------------------------------------------
(***************************************************************************)
(* Where a combo's output comes from: ComboOrigin.                          *)
(***************************************************************************)

(* Least and greatest.                                                       *)

LEMMA LeastOf ==
  ASSUME NEW T, T \subseteq Nat, T # {}
  PROVE  \E i \in T : \A j \in T : i <= j
<1>1. PICK i \in T : \A j \in T : <<j, i>> \notin OpToRel(<, Nat)
  BY NatLessThanWellFounded, WFMin
<1>2. \A j \in T : ~(j < i)
  BY <1>1 DEF OpToRel
<1> QED
  BY <1>2

LEMMA GreatestOf ==
  ASSUME NEW n \in Nat, NEW T, T \subseteq 0 .. n, T # {}
  PROVE  \E i \in T : \A j \in T : j <= i
<1> DEFINE U == {u \in Nat : n - u \in T}
<1>0. PICK i \in T : TRUE
  OBVIOUS
<1>1. n - i \in Nat /\ n - (n - i) = i
  BY <1>0
<1>2. U \subseteq Nat /\ n - i \in U
  BY <1>0, <1>1
<1>3. PICK u \in U : \A v \in U : u <= v
  BY <1>2, LeastOf
<1>4. ASSUME NEW j \in T PROVE j <= n - u
  <2>1. j \in 0 .. n /\ n - j \in Nat /\ n - (n - j) = j
    OBVIOUS
  <2>2. n - j \in U
    BY <2>1
  <2> QED
    BY <1>3, <2>1, <2>2
<1> QED
  BY <1>3, <1>4

LEMMA MinIs == ASSUME NEW T, T \subseteq Nat, T # {} PROVE Min(T) \in T /\ \A j \in T : Min(T) <= j
<1>1. PICK i \in T : \A j \in T : i <= j
  BY LeastOf
<1> QED
  BY <1>1 DEF Min

LEMMA MaxIs ==
  ASSUME NEW n \in Nat, NEW T, T \subseteq 0 .. n, T # {}
  PROVE  Max(T) \in T /\ \A j \in T : j <= Max(T)
<1>1. PICK i \in T : \A j \in T : j <= i
  BY GreatestOf
<1> QED
  BY <1>1 DEF Max

(* The chords.                                                               *)

LEMMA Chords ==
  /\ \A c \in Combos : /\ Members(c) \subseteq MemberKeys /\ Members(c) # {}
                       /\ Owner(c) \in Members(c) /\ Owner(c) \in MemberKeys
  /\ \A k \in MemberKeys : /\ ComboOf(k) \in Combos /\ k \in Members(ComboOf(k))
                           /\ \A c \in Combos : k \in Members(c) => c = ComboOf(k)
<1>1. ASSUME NEW c \in Combos
      PROVE  /\ Members(c) \subseteq MemberKeys /\ Members(c) # {} /\ Owner(c) \in Members(c)
  <2> DEFINE q == Chord[c]
  <2>1. q \in Seq(MemberKeys) /\ q # <<>>
    BY ComboOriginAssumption
  <2> HIDE DEF q
  <2>2. Len(q) \in DOMAIN q /\ \A i \in DOMAIN q : q[i] \in MemberKeys
    BY <2>1
  <2>3. ToSet(q) \subseteq MemberKeys /\ q[Len(q)] \in ToSet(q)
    BY <2>2 DEF ToSet
  <2> QED
    BY <2>3 DEF q, Members, Owner, Last
<1>2. ASSUME NEW k \in MemberKeys
      PROVE  /\ ComboOf(k) \in Combos /\ k \in Members(ComboOf(k))
             /\ \A c \in Combos : k \in Members(c) => c = ComboOf(k)
  <2>1. \E c \in Combos : k \in Members(c)
    BY ComboOriginAssumption DEF Members
  <2>2. ComboOf(k) \in Combos /\ k \in Members(ComboOf(k))
    BY <2>1 DEF ComboOf
  <2>3. \A c, d \in Combos : c # d => Members(c) \cap Members(d) = {}
    BY ComboOriginAssumption DEF Members
  <2> QED
    BY <2>2, <2>3
<1> QED
  BY <1>1, <1>2

LEMMA NothingElse ==
  /\ Nothing \notin MemberKeys /\ Nothing \notin Combos /\ Nothing \notin Nat /\ Nothing \notin NowType
  /\ Nothing \notin EntryType /\ Nothing \notin CacheType
BY ComboOriginAssumption

LEMMA CombosAre == Combos \subseteq Nat /\ IsFiniteSet(Combos)
<1>1. Cardinality(Combos) \in Nat /\ IsFiniteSet(Combos) /\ Combos = 1 .. Cardinality(Combos)
  BY ComboOriginAssumption, FS_CardinalityType
<1> QED
  BY <1>1

------------------------------------------------------------------------------
(* Types.                                                                    *)

KeysTyped ==
  /\ seq \in [MemberKeys -> Nat] /\ presses \in Nat /\ sincePress \in Nat
  /\ lastPress \in MemberKeys \cup {Nothing}
  /\ \A k \in MemberKeys : seq[k] <= presses
EngineTyped ==
  /\ flag \in [Combos -> {"idle", "prepared", "active", "spent"}]
  /\ counted \in [Combos -> SUBSET MemberKeys]
  /\ \A c \in Combos : \A k \in counted[c] : k \in Members(c) /\ seq[k] > 0
  /\ dumping \in BOOLEAN /\ replaced \in BOOLEAN
QueuesTyped ==
  /\ prepared \in Seq(OutputType) /\ tapQueue \in Seq(OutputType) /\ parked \in Seq(OutputType)
  /\ now \in NowType \cup {Nothing} /\ tapping \in Nat \cup {Nothing}
  /\ pass \in {"events", "replay"}
TablesTyped ==
  /\ pending \in [Combos -> EntryType \cup {Nothing}]
  /\ cache \in [Slots -> CacheType \cup {Nothing}]
  /\ deliveries \in Nat
Typed == KeysTyped /\ EngineTyped /\ QueuesTyped /\ TablesTyped

(* What every entry says of its combo.                                       *)
Has(c) == pending[c] # Nothing
Fired(c) == pending[c].applied \/ Active(c)
Entries ==
  /\ \A c \in Combos : Has(c) => /\ pending[c].owner = Owner(c) /\ pending[c].keys = Members(c)
                                 /\ pending[c].gen <= presses
                                 /\ ~pending[c].applied => pending[c].age = 0
  /\ \A s \in Slots : cache[s] # Nothing => cache[s].gen <= presses

(* The presses on their way: in dispatch or parked, out of QMK or in its     *)
(* tapping queue, in its combo buffer.                                       *)
Downs(q) == {q[i] : i \in {j \in DOMAIN q : q[j].down}}
Passing(at) == IF now # Nothing /\ now.at = at /\ now.rec.down THEN {now.rec} ELSE {}
Ahead == Passing("in") \cup Downs(parked)
Behind == Passing("out") \cup Downs(tapQueue)

InLine(q) == \A i, j \in DOMAIN q : i < j /\ q[i].down /\ q[j].down => q[i].gen < q[j].gen
Before(S, T) == \A r \in S, p \in T : r.gen < p.gen
Recent(S) == \A r \in S : r.gen <= presses

(* They are in line by the press that completed their chords.                *)
Lined ==
  /\ InLine(parked) /\ InLine(tapQueue) /\ InLine(prepared)
  /\ Before(Passing("in"), Downs(parked)) /\ Before(Passing("out"), Downs(tapQueue))
  /\ Before(Ahead, Behind) /\ Before(Ahead \cup Behind, Downs(prepared))
  /\ Recent(Ahead) /\ Recent(Behind) /\ Recent(Downs(prepared))

(* An entry that fired and has not met its press has the press behind.       *)
Its(r, c) == r.combo = c /\ r.gen = pending[c].gen
Candidates ==
  \A c \in Combos : Has(c) /\ ~pending[c].pressed /\ Fired(c) => \E r \in Behind : Its(r, c)

(* No more entries have met a press than presses are ahead.                  *)
Met == {c \in Combos : Has(c) /\ pending[c].pressed}
Tallied == Cardinality(Met) <= Cardinality(Ahead)

(* Unless one took another's place, each press on its way has its entry.     *)
MeetsEntry(r) == Has(r.combo) /\ Its(r, r.combo) /\ Fired(r.combo)
Known ==
  ~replaced =>
    /\ \A r \in Behind : MeetsEntry(r) /\ ~pending[r.combo].pressed
    /\ \A r \in Ahead : MeetsEntry(r) /\ pending[r.combo].pressed
    /\ \A r \in Downs(tapQueue) : tapping # Nothing => pending[r.combo].age <= tapping
    /\ \A c \in Met : \E r \in Ahead : Its(r, c)

(* What QMK is about to fire has an entry that waits for it.                 *)
Whole(c, g) == (\A k \in Members(c) : 0 < seq[k] /\ seq[k] <= g) /\ \E k \in Members(c) : seq[k] = g
Waiting(r) ==
  /\ r.down /\ Has(r.combo) /\ Its(r, r.combo)
  /\ ~pending[r.combo].pressed /\ ~pending[r.combo].applied
  /\ flag[r.combo] \in {"idle", "prepared"}
  /\ ~dumping => flag[r.combo] = "prepared" /\ Whole(r.combo, r.gen)
Ready ==
  /\ \A i \in DOMAIN prepared : Waiting(prepared[i])
  /\ \A i, j \in DOMAIN prepared : prepared[i].combo = prepared[j].combo => i = j

Kept ==
  /\ dumping => prepared # <<>>
  /\ tapping = Nothing /\ dumping => tapQueue = <<>>
  /\ pass = "replay" => parked # <<>>

ComboInv == Typed /\ Entries /\ Lined /\ Candidates /\ Tallied /\ Known /\ Ready /\ Kept

------------------------------------------------------------------------------
(* Queues.                                                                   *)

LEMMA DownsIn ==
  ASSUME NEW q \in Seq(OutputType), NEW r
  PROVE  r \in Downs(q) <=> \E i \in 1 .. Len(q) : q[i] = r /\ r.down
<1>1. DOMAIN q = 1 .. Len(q)
  OBVIOUS
<1> QED
  BY <1>1 DEF Downs

LEMMA DownsType == ASSUME NEW q \in Seq(OutputType) PROVE \A r \in Downs(q) : r \in OutputType /\ r.down
BY DownsIn

LEMMA Appended ==
  ASSUME NEW q \in Seq(OutputType), NEW r \in OutputType, NEW p, p = Append(q, r)
  PROVE  /\ p \in Seq(OutputType) /\ p # <<>>
         /\ r.down => Downs(p) = Downs(q) \cup {r}
         /\ ~r.down => Downs(p) = Downs(q)
         /\ InLine(q) /\ (r.down => Before(Downs(q), {r})) => InLine(p)
<1>1. /\ p \in Seq(OutputType) /\ Len(p) = Len(q) + 1 /\ p[Len(q) + 1] = r /\ Len(q) \in Nat
      /\ \A i \in 1 .. Len(q) : p[i] = q[i]
  OBVIOUS
<1>2. DOMAIN p = 1 .. Len(p) /\ DOMAIN q = 1 .. Len(q) /\ p # <<>>
  BY <1>1
<1>3. ASSUME NEW x PROVE x \in Downs(p) <=> x \in Downs(q) \/ (x = r /\ r.down)
  <2>1. x \in Downs(p) <=> \E i \in 1 .. Len(p) : p[i] = x /\ x.down
    BY <1>1, DownsIn
  <2>2. x \in Downs(q) <=> \E i \in 1 .. Len(q) : q[i] = x /\ x.down
    BY DownsIn
  <2> QED
    BY <1>1, <2>1, <2>2
<1>4. ASSUME InLine(q), r.down => Before(Downs(q), {r}) PROVE InLine(p)
  <2> SUFFICES ASSUME NEW i \in 1 .. Len(p), NEW j \in 1 .. Len(p), i < j, p[i].down, p[j].down
               PROVE  p[i].gen < p[j].gen
    BY <1>2 DEF InLine
  <2>1. CASE j <= Len(q)
    BY <1>1, <1>2, <1>4, <2>1 DEF InLine
  <2>2. CASE j = Len(q) + 1
    <3>1. i \in 1 .. Len(q) /\ p[i] = q[i] /\ p[j] = r
      BY <1>1, <2>2
    <3>2. p[i] \in Downs(q)
      BY <3>1, DownsIn
    <3> QED
      BY <1>4, <3>1, <3>2 DEF Before
  <2> QED
    BY <1>1, <2>1, <2>2
<1> QED
  BY <1>1, <1>2, <1>3, <1>4

LEMMA Headed ==
  ASSUME NEW q \in Seq(OutputType), q # <<>>, NEW p, p = Tail(q), NEW r, r = Head(q)
  PROVE  /\ p \in Seq(OutputType) /\ r \in OutputType /\ (p = <<>> <=> Len(q) <= 1)
         /\ r.down => Downs(q) = Downs(p) \cup {r}
         /\ ~r.down => Downs(q) = Downs(p)
         /\ InLine(q) => InLine(p) /\ (r.down => Before({r}, Downs(p)))
<1>1. /\ p \in Seq(OutputType) /\ r \in OutputType /\ Len(q) \in Nat \ {0} /\ Len(p) = Len(q) - 1 /\ q[1] = r
      /\ \A i \in 1 .. Len(p) : p[i] = q[i + 1]
  OBVIOUS
<1>2. DOMAIN p = 1 .. Len(p) /\ DOMAIN q = 1 .. Len(q) /\ (p = <<>> <=> Len(q) <= 1)
  <2>1. DOMAIN p = 1 .. Len(p) /\ DOMAIN q = 1 .. Len(q)
    BY <1>1
  <2>2. p = <<>> <=> Len(p) = 0
    BY <1>1, EmptySeq
  <2> QED
    BY <1>1, <2>1, <2>2
<1>3. ASSUME NEW x PROVE x \in Downs(q) <=> x \in Downs(p) \/ (x = r /\ r.down)
  <2>1. x \in Downs(p) <=> \E i \in 1 .. Len(p) : p[i] = x /\ x.down
    BY <1>1, DownsIn
  <2>2. x \in Downs(q) <=> \E i \in 1 .. Len(q) : q[i] = x /\ x.down
    BY DownsIn
  <2>3. ASSUME NEW i \in 1 .. Len(q), q[i] = x, x.down PROVE x \in Downs(p) \/ (x = r /\ r.down)
    <3>1. CASE i = 1
      BY <1>1, <2>3, <3>1
    <3>2. CASE i # 1
      <4>1. i - 1 \in 1 .. Len(p) /\ p[i - 1] = q[i]
        BY <1>1, <3>2
      <4> QED
        BY <2>1, <2>3, <4>1
    <3> QED
      BY <3>1, <3>2
  <2>4. ASSUME NEW i \in 1 .. Len(p), p[i] = x, x.down PROVE x \in Downs(q)
    <3>1. i + 1 \in 1 .. Len(q) /\ q[i + 1] = x
      BY <1>1, <2>4
    <3> QED
      BY <2>2, <2>4, <3>1
  <2> QED
    BY <1>1, <2>1, <2>2, <2>3, <2>4
<1>4. ASSUME InLine(q) PROVE InLine(p) /\ (r.down => Before({r}, Downs(p)))
  <2>1. ASSUME NEW i \in 1 .. Len(p), NEW j \in 1 .. Len(p), i < j, p[i].down, p[j].down
        PROVE  p[i].gen < p[j].gen
    <3>1. /\ i + 1 \in 1 .. Len(q) /\ j + 1 \in 1 .. Len(q) /\ i + 1 < j + 1
          /\ p[i] = q[i + 1] /\ p[j] = q[j + 1]
      BY <1>1, <2>1
    <3> QED
      BY <1>2, <1>4, <2>1, <3>1 DEF InLine
  <2>2. ASSUME r.down, NEW x \in Downs(p) PROVE r.gen < x.gen
    <3>1. PICK i \in 1 .. Len(p) : p[i] = x /\ x.down
      BY <1>1, DownsIn
    <3>2. /\ i + 1 \in 1 .. Len(q) /\ 1 \in 1 .. Len(q) /\ 1 < i + 1 /\ x = q[i + 1]
      BY <1>1, <3>1
    <3> QED
      BY <1>1, <1>2, <1>4, <2>2, <3>1, <3>2 DEF InLine
  <2> QED
    BY <1>2, <2>1, <2>2 DEF InLine, Before
<1> QED
  BY <1>1, <1>2, <1>3, <1>4

(* A queue without one of its places.                                        *)
LEMMA Removed ==
  ASSUME NEW q \in Seq(OutputType), NEW k \in 1 .. Len(q), NEW p, p = RemoveAt(q, k)
  PROVE  /\ p \in Seq(OutputType) /\ Len(p) = Len(q) - 1
         /\ \A i \in 1 .. Len(p) : p[i] = q[IF i < k THEN i ELSE i + 1]
<1> DEFINE a == SubSeq(q, 1, k - 1)
           b == SubSeq(q, k + 1, Len(q))
<1>1. p = a \o b
  BY DEF RemoveAt
<1>2. /\ a \in Seq(OutputType) /\ Len(a) = k - 1 /\ \A i \in 1 .. (k - 1) : a[i] = q[i]
      /\ b \in Seq(OutputType) /\ Len(b) = Len(q) - k /\ \A i \in 1 .. (Len(q) - k) : b[i] = q[i + k]
  BY SubSeqProperties
<1> HIDE DEF a, b
<1>6. /\ a \o b \in Seq(OutputType) /\ Len(a \o b) = Len(a) + Len(b)
      /\ \A i \in 1 .. Len(a) + Len(b) : (a \o b)[i] = IF i <= Len(a) THEN a[i] ELSE b[i - Len(a)]
  BY <1>2, ConcatProperties
<1>3. /\ p \in Seq(OutputType) /\ Len(p) = Len(a) + Len(b)
      /\ \A i \in 1 .. Len(a) + Len(b) : p[i] = IF i <= Len(a) THEN a[i] ELSE b[i - Len(a)]
  BY <1>1, <1>6
<1>5. Len(q) \in Nat /\ Len(p) = Len(q) - 1
  BY <1>2, <1>3
<1>4. ASSUME NEW i \in 1 .. Len(p) PROVE p[i] = q[IF i < k THEN i ELSE i + 1]
  <2>1. CASE i < k
    <3>1. p[i] = a[i] /\ i \in 1 .. (k - 1)
      BY <1>2, <1>3, <2>1
    <3> QED
      BY <1>2, <2>1, <3>1
  <2>2. CASE k <= i
    <3>1. p[i] = b[i - Len(a)] /\ i - Len(a) \in 1 .. (Len(q) - k)
      BY <1>2, <1>3, <1>5, <2>2
    <3>2. b[i - Len(a)] = q[(i - Len(a)) + k] /\ (i - Len(a)) + k = i + 1
      BY <1>2, <3>1
    <3> QED
      BY <2>2, <3>1, <3>2
  <2> QED
    BY <2>1, <2>2
<1> QED
  BY <1>3, <1>4, <1>5

LEMMA RemovedLines ==
  ASSUME NEW q \in Seq(OutputType), NEW k \in 1 .. Len(q), NEW p, p = RemoveAt(q, k)
  PROVE  /\ p \in Seq(OutputType) /\ Downs(p) \subseteq Downs(q)
         /\ \A x \in Downs(q) : x \in Downs(p) \/ x = q[k]
         /\ InLine(q) => InLine(p)
         /\ \A i \in DOMAIN p : \E j \in DOMAIN q : j # k /\ p[i] = q[j]
         /\ (\A i, j \in DOMAIN q : q[i].combo = q[j].combo => i = j)
              => \A i, j \in DOMAIN p : p[i].combo = p[j].combo => i = j
<1> DEFINE at(i) == IF i < k THEN i ELSE i + 1
<1>1. /\ p \in Seq(OutputType) /\ Len(p) = Len(q) - 1 /\ Len(q) \in Nat
      /\ \A i \in 1 .. Len(p) : p[i] = q[at(i)]
  BY Removed
<1>2. DOMAIN p = 1 .. Len(p) /\ DOMAIN q = 1 .. Len(q)
  BY <1>1
<1>3. \A i \in 1 .. Len(p) : at(i) \in 1 .. Len(q) /\ at(i) # k
  BY <1>1
<1>4. \A i, j \in 1 .. Len(p) : (i < j => at(i) < at(j)) /\ (at(i) = at(j) => i = j)
  BY <1>1
<1>5. \A j \in 1 .. Len(q) : j # k => \E i \in 1 .. Len(p) : at(i) = j
  <2> SUFFICES ASSUME NEW j \in 1 .. Len(q), j # k PROVE \E i \in 1 .. Len(p) : at(i) = j
    OBVIOUS
  <2>1. CASE j < k
    BY <1>1, <2>1
  <2>2. CASE k < j
    <3>1. j - 1 \in 1 .. Len(p) /\ at(j - 1) = j
      BY <1>1, <2>2
    <3> QED
      BY <3>1
  <2> QED
    BY <2>1, <2>2
<1> HIDE DEF at
<1>6. Downs(p) \subseteq Downs(q)
  BY <1>1, <1>3, DownsIn
<1>7. ASSUME NEW x \in Downs(q), x # q[k] PROVE x \in Downs(p)
  <2>1. PICK j \in 1 .. Len(q) : q[j] = x /\ x.down
    BY DownsIn
  <2>2. PICK i \in 1 .. Len(p) : at(i) = j
    BY <1>5, <1>7, <2>1
  <2>3. p[i] = x
    BY <1>1, <2>1, <2>2
  <2> QED
    BY <1>1, <2>1, <2>3, DownsIn
<1>8. InLine(q) => InLine(p)
  BY <1>1, <1>2, <1>3, <1>4 DEF InLine
<1>9. \A i \in DOMAIN p : \E j \in DOMAIN q : j # k /\ p[i] = q[j]
  BY <1>1, <1>2, <1>3
<1>10. (\A i, j \in DOMAIN q : q[i].combo = q[j].combo => i = j)
          => \A i, j \in DOMAIN p : p[i].combo = p[j].combo => i = j
  BY <1>1, <1>2, <1>3, <1>4
<1> QED
  BY <1>1, <1>6, <1>7, <1>8, <1>9, <1>10


LEMMA OnTheWay ==
  ASSUME Typed
  PROVE  /\ \A r \in Ahead \cup Behind \cup Downs(prepared) :
              r \in OutputType /\ r.down /\ r.combo \in Combos /\ r.gen \in Nat
         /\ Downs(tapQueue) \subseteq Behind /\ Downs(parked) \subseteq Ahead
<1>1. ASSUME NEW q \in Seq(OutputType), NEW r \in Downs(q)
      PROVE  r \in OutputType /\ r.down
  BY DownsType
<1>2. prepared \in Seq(OutputType) /\ tapQueue \in Seq(OutputType) /\ parked \in Seq(OutputType)
  BY DEF Typed, QueuesTyped
<1>3. now # Nothing => now.rec \in OutputType
  BY DEF Typed, QueuesTyped, NowType
<1>4. \A at : \A r \in Passing(at) : r \in OutputType /\ r.down
  BY <1>3 DEF Passing
<1>5. \A r \in Ahead \cup Behind \cup Downs(prepared) : r \in OutputType /\ r.down
  BY <1>1, <1>2, <1>4 DEF Ahead, Behind
<1>6. \A r \in OutputType : r.combo \in Combos /\ r.gen \in Nat
  BY DEF OutputType
<1> QED
  BY <1>5, <1>6 DEF Ahead, Behind
------------------------------------------------------------------------------
(* Choosing an entry.                                                        *)

Unmet == {c \in Combos : Has(c) /\ ~pending[c].pressed /\ Fired(c)}

LEMMA OldestIs ==
  ASSUME NEW cs, cs \subseteq Combos, cs # {}, \A c \in cs : pending[c].gen \in Nat
  PROVE  Oldest(cs) \in cs /\ \A d \in cs : pending[Oldest(cs)].gen <= pending[d].gen
<1> DEFINE T == {pending[c].gen : c \in cs}
<1>1. T \subseteq Nat /\ T # {}
  OBVIOUS
<1>2. PICK t \in T : \A u \in T : t <= u
  BY <1>1, LeastOf
<1>3. PICK c \in cs : pending[c].gen = t
  OBVIOUS
<1>4. \A d \in cs : pending[c].gen <= pending[d].gen
  BY <1>2, <1>3
<1> QED
  BY <1>3, <1>4 DEF Oldest

LEMMA HasEntry == ASSUME TablesTyped, NEW c \in Combos, Has(c) PROVE pending[c] \in EntryType
BY DEF TablesTyped, Has

LEMMA DeliveryIs ==
  ASSUME TablesTyped
  PROVE  /\ Unmet = {} => ForDelivery = Nothing
         /\ Unmet # {} => /\ ForDelivery \in Unmet
                          /\ \A d \in Unmet : pending[ForDelivery].gen <= pending[d].gen
<1>1. ForDelivery = Oldest(Unmet)
  BY DEF ForDelivery, Unmet, Has, Fired
<1>2. Unmet \subseteq Combos /\ \A c \in Unmet : pending[c].gen \in Nat
  BY HasEntry DEF Unmet, EntryType
<1>3. Unmet = {} => Oldest(Unmet) = Nothing
  BY DEF Oldest
<1> QED
  BY <1>1, <1>2, <1>3, OldestIs

LEMMA DispatchIs ==
  ASSUME TablesTyped
  PROVE  /\ Met = {} => ForDispatch = ForDelivery
         /\ Met # {} => /\ ForDispatch \in Met
                        /\ \A d \in Met : pending[ForDispatch].gen <= pending[d].gen
<1>1. ForDispatch = IF Oldest(Met) # Nothing THEN Oldest(Met) ELSE ForDelivery
  BY DEF ForDispatch, Met, Has
<1>2. Met \subseteq Combos /\ \A c \in Met : pending[c].gen \in Nat
  BY HasEntry DEF Met, EntryType
<1>3. Met = {} => Oldest(Met) = Nothing
  BY DEF Oldest
<1>4. Met # {} => Oldest(Met) # Nothing
  BY <1>2, OldestIs, NothingElse
<1> QED
  BY <1>1, <1>2, <1>3, <1>4, OldestIs

LEMMA ReleaseIs == ASSUME TablesTyped PROVE ForRelease = Nothing \/ (ForRelease \in Combos /\ Has(ForRelease))
<1> DEFINE waits == {c \in Combos : pending[c] # Nothing /\ pending[c].pressed /\ pending[c].release = 0}
           its == {c \in waits : HasReleased(pending[c])}
<1>1. ForRelease = IF its # {} THEN Min(its) ELSE Oldest(waits)
  BY DEF ForRelease
<1>2. waits \subseteq Combos /\ (\A c \in waits : Has(c) /\ pending[c].gen \in Nat) /\ its \subseteq waits
  BY HasEntry DEF Has, EntryType
<1> HIDE DEF waits, its
<1>3. its # {} => Min(its) \in its
  BY <1>2, CombosAre, MinIs
<1>4. waits = {} => Oldest(waits) = Nothing
  BY DEF Oldest
<1>5. waits # {} => Oldest(waits) \in waits
  BY <1>2, OldestIs
<1> QED
  BY <1>1, <1>2, <1>3, <1>4, <1>5

LEMMA CacheReleaseIs ==
  CacheForRelease = Nothing \/ (CacheForRelease \in Slots /\ cache[CacheForRelease] # Nothing)
<1> DEFINE waits == {s \in Slots : cache[s] # Nothing /\ cache[s].release = 0}
           its == {s \in waits : HasReleased(cache[s])}
<1>1. CacheForRelease = IF its # {} THEN Min(its) ELSE IF waits # {} THEN Min(waits) ELSE Nothing
  BY DEF CacheForRelease
<1>2. waits \subseteq Slots /\ (\A s \in waits : cache[s] # Nothing) /\ its \subseteq waits /\ waits \subseteq Nat
  BY DEF Slots
<1> HIDE DEF waits, its
<1>3. (its # {} => Min(its) \in its) /\ (waits # {} => Min(waits) \in waits)
  BY <1>2, MinIs
<1> QED
  BY <1>1, <1>2, <1>3

LEMMA UntrackedIs ==
  Untracked = Nothing \/ (Untracked \in Combos /\ \A k \in Members(Untracked) : seq[k] > 0)
<1> DEFINE cs == {c \in Combos : /\ Active(c)
                                 /\ \A s \in Slots : cache[s] = Nothing \/ cache[s].combo # c
                                 /\ \A k \in Members(c) : seq[k] > 0}
<1>1. Untracked = IF cs = {} THEN Nothing ELSE Min(cs)
  BY DEF Untracked
<1>2. cs \subseteq Combos /\ cs \subseteq Nat /\ \A c \in cs : \A k \in Members(c) : seq[k] > 0
  BY CombosAre
<1> HIDE DEF cs
<1>3. cs # {} => Min(cs) \in cs
  BY <1>2, MinIs
<1> QED
  BY <1>1, <1>2, <1>3

(* The latest press among some keys.                                         *)
LEMMA LatestIs ==
  ASSUME NEW f \in [MemberKeys -> Nat], NEW n \in Nat, \A k \in MemberKeys : f[k] <= n,
         NEW K, K \subseteq MemberKeys, K # {}
  PROVE  /\ Max({f[k] : k \in K}) \in 0 .. n /\ \A k \in K : f[k] <= Max({f[j] : j \in K})
         /\ \E k \in K : f[k] = Max({f[j] : j \in K})
<1> DEFINE T == {f[k] : k \in K}
<1>1. T \subseteq 0 .. n /\ T # {}
  OBVIOUS
<1>2. Max(T) \in T /\ \A j \in T : j <= Max(T)
  BY <1>1, MaxIs
<1> QED
  BY <1>1, <1>2

LEMMA FallbackIs == ASSUME KeysTyped PROVE FallbackOwner \in MemberKeys \cup {Nothing}
<1>1. CASE \E k \in MemberKeys : seq[k] > 0
  <2>1. PICK k \in MemberKeys : \A j \in MemberKeys : seq[j] <= seq[k]
    <3>1. MemberKeys \subseteq MemberKeys /\ MemberKeys # {}
      BY <1>1
    <3>2. seq \in [MemberKeys -> Nat] /\ presses \in Nat /\ \A k \in MemberKeys : seq[k] <= presses
      BY DEF KeysTyped
    <3> DEFINE m == Max({seq[j] : j \in MemberKeys})
    <3>3. (\A k \in MemberKeys : seq[k] <= m) /\ \E k \in MemberKeys : seq[k] = m
      BY <3>1, <3>2, LatestIs
    <3> HIDE DEF m
    <3> QED
      BY <3>3
  <2> QED
    BY <1>1, <2>1 DEF FallbackOwner
<1>2. CASE ~(\E k \in MemberKeys : seq[k] > 0)
  BY <1>2 DEF FallbackOwner, KeysTyped
<1> QED
  BY <1>1, <1>2

(* What a reconciliation leaves of an entry.                                 *)
Same(e, r) ==
  /\ r.gen = e.gen /\ r.keys = e.keys /\ r.owner = e.owner /\ r.age = e.age /\ r.pressed = e.pressed

LEMMA ReconciledIs ==
  ASSUME NEW c \in Combos, NEW e \in EntryType, NEW since \in Nat, NEW observe \in BOOLEAN,
         NEW r, r = Reconciled(c, e, since, observe)
  PROVE  /\ r \in EntryType \cup {Nothing}
         /\ r # Nothing => Same(e, r) /\ (r.applied <=> e.applied \/ Active(c))
         /\ /\ e.applied \/ Active(c) \/ ~Disabled(c)
            /\ observe => \/ Active(c) \/ e.pressed
                          \/ IF e.applied THEN e.age <= Term ELSE since <= Wait
            => r # Nothing
<1> DEFINE f == [e EXCEPT !.applied = @ \/ Active(c), !.crossed = @ /\ (e.applied \/ ~Active(c))]
           g == [f EXCEPT !.crossed = TRUE]
<1>1. f \in EntryType /\ Same(e, f) /\ (f.applied <=> e.applied \/ Active(c))
  BY DEF EntryType, Same
<1>2. g \in EntryType /\ Same(e, g) /\ (g.applied <=> e.applied \/ Active(c))
  BY <1>1 DEF EntryType, Same
<1>3. r = IF ~f.applied /\ Disabled(c) THEN Nothing
          ELSE IF observe /\ ~Active(c) /\ ~f.pressed /\ Overdue(f, since)
               THEN IF f.crossed THEN Nothing ELSE g
               ELSE f
  BY DEF Reconciled
<1>4. f # Nothing /\ g # Nothing
  BY <1>1, <1>2, NothingElse
<1>5. f.pressed = e.pressed /\ f.age = e.age
  BY <1>1 DEF Same
<1> HIDE DEF f, g
<1>6. r \in EntryType \cup {Nothing} /\ (r # Nothing => Same(e, r) /\ (r.applied <=> e.applied \/ Active(c)))
  BY <1>1, <1>2, <1>3
<1>7. ASSUME e.applied \/ Active(c) \/ ~Disabled(c),
             observe => \/ Active(c) \/ e.pressed
                        \/ IF e.applied THEN e.age <= Term ELSE since <= Wait
      PROVE  r # Nothing
  <2>1. f.applied \/ ~Disabled(c)
    BY <1>1, <1>7
  <2>2. e.age \in Nat /\ Term \in Nat /\ Wait \in Nat
    BY ComboOriginAssumption DEF EntryType
  <2>3. observe /\ ~Active(c) /\ ~f.pressed => ~Overdue(f, since)
    BY <1>1, <1>5, <1>7, <2>2 DEF Overdue
  <2> QED
    BY <1>3, <1>4, <2>1, <2>3
<1> QED
  BY <1>6, <1>7

------------------------------------------------------------------------------
(* Steps that leave the tables alone.                                        *)

LEMMA TablesRest ==
  ASSUME Entries, Candidates, Tallied, Known, UNCHANGED <<tables, flag, presses, replaced>>,
         Ahead' = Ahead, Behind' = Behind,
         tapping' # Nothing => \A r \in Downs(tapQueue)' : /\ r \in Downs(tapQueue) /\ tapping # Nothing
                                                          /\ tapping <= tapping' /\ tapping \in Nat
                                                          /\ tapping' \in Nat /\ r.combo \in Combos,
         \A c \in Combos : Has(c) => pending[c].age \in Nat
  PROVE  Entries' /\ Candidates' /\ Tallied' /\ Known'
<1>1. /\ pending' = pending /\ cache' = cache /\ flag' = flag /\ presses' = presses
      /\ replaced' = replaced
  BY DEF tables
<1>2. \A c : (Has(c)' <=> Has(c)) /\ (Active(c)' <=> Active(c)) /\ (Fired(c)' <=> Fired(c))
  BY <1>1 DEF Has, Active, Fired
<1>3. Entries'
  BY <1>1, <1>2 DEF Entries
<1>4. Candidates'
  BY <1>1, <1>2 DEF Candidates, Its
<1>5. Met' = Met
  BY <1>1, <1>2 DEF Met
<1>6. Tallied'
  BY <1>5 DEF Tallied
<1>7. \A r : (MeetsEntry(r)' <=> MeetsEntry(r)) /\ \A c : (Its(r, c)' <=> Its(r, c))
  BY <1>1, <1>2 DEF MeetsEntry, Its
<1>8. ASSUME ~replaced' PROVE Known'
  <2>1. ~replaced
    BY <1>1, <1>8
  <2>2. /\ \A r \in Behind' : MeetsEntry(r)' /\ ~pending'[r.combo].pressed
        /\ \A r \in Ahead' : MeetsEntry(r)' /\ pending'[r.combo].pressed
    BY <1>1, <1>7, <2>1 DEF Known
  <2>3. \A c \in Met' : \E r \in Ahead' : Its(r, c)'
    BY <1>5, <1>7, <2>1 DEF Known
  <2>4. ASSUME NEW r \in Downs(tapQueue)', tapping' # Nothing PROVE pending'[r.combo].age <= tapping'
    <3>1. r \in Behind /\ r \in Downs(tapQueue) /\ tapping # Nothing
      BY <2>4 DEF Behind
    <3>2. Has(r.combo) /\ pending[r.combo].age <= tapping
      BY <2>1, <3>1 DEF Known, MeetsEntry
    <3> QED
      BY <1>1, <2>4, <3>2
  <2> QED
    BY <2>2, <2>3, <2>4 DEF Known
<1>9. ASSUME replaced' PROVE Known'
  BY <1>9 DEF Known
<1> QED
  BY <1>3, <1>4, <1>6, <1>8, <1>9

LEMMA ReadyRests ==
  ASSUME Ready, UNCHANGED <<tables, flag, prepared, seq>>, dumping' \/ (dumping' <=> dumping)
  PROVE  Ready'
<1>1. pending' = pending /\ flag' = flag /\ prepared' = prepared /\ seq' = seq
  BY DEF tables
<1>2. \A r : Waiting(r) => Waiting(r)'
  BY <1>1 DEF Waiting, Has, Its, Whole
<1> QED
  BY <1>1, <1>2 DEF Ready

LEMMA AgesAre == ASSUME TablesTyped PROVE \A c \in Combos : Has(c) => pending[c].age \in Nat
BY HasEntry DEF EntryType

LEMMA PassingIs ==
  /\ now = Nothing => Passing("in") = {} /\ Passing("out") = {}
  /\ now # Nothing /\ now.at = "out"
       => Passing("in") = {} /\ Passing("out") = IF now.rec.down THEN {now.rec} ELSE {}
  /\ now # Nothing /\ now.at = "in"
       => Passing("out") = {} /\ Passing("in") = IF now.rec.down THEN {now.rec} ELSE {}
BY DEF Passing

(* A record on its way, from either place.                                   *)
LEMMA PassingNext ==
  ASSUME NEW r \in OutputType, NEW place \in {"in", "out"}, now' = [at |-> place, rec |-> r]
  PROVE  /\ now' \in NowType /\ now' # Nothing /\ now'.at = place /\ now'.rec = r
         /\ Passing(place)' = IF r.down THEN {r} ELSE {}
         /\ \A other : other # place => Passing(other)' = {}
<1>1. now' \in NowType /\ now' # Nothing /\ now'.at = place /\ now'.rec = r
  BY NothingElse DEF NowType
<1> QED
  BY <1>1 DEF Passing

(* Nobody sends anything: QMK starts to fire, or a key that others wait for  *)
(* goes down or is decided.                                                  *)
QueuesRest == UNCHANGED <<parked, tapQueue, prepared, now>>

LEMMA LinedRests == ASSUME Lined, QueuesRest, presses' = presses PROVE Lined' /\ Ahead' = Ahead /\ Behind' = Behind
<1>1. parked' = parked /\ tapQueue' = tapQueue /\ prepared' = prepared /\ now' = now
  BY DEF QueuesRest
<1>2. Passing("in")' = Passing("in") /\ Passing("out")' = Passing("out")
  BY <1>1 DEF Passing
<1>3. Ahead' = Ahead /\ Behind' = Behind
  BY <1>1, <1>2 DEF Ahead, Behind
<1>4. (\A S : Recent(S)' <=> Recent(S)) /\ Downs(prepared)' = Downs(prepared)
  BY <1>1 DEF Recent
<1> QED
  BY <1>1, <1>2, <1>3, <1>4 DEF Lined, Recent

LEMMA StartDumpInv == ASSUME ComboInv, StartDump PROVE ComboInv'
<1>1. /\ QueuesRest /\ UNCHANGED <<physical, tables, flag, counted, tapping, pass, replaced>>
      /\ dumping' = TRUE /\ prepared # <<>> /\ Idle
  BY DEF StartDump, QueuesRest, waiting, physical
<1>2. /\ seq' = seq /\ presses' = presses /\ sincePress' = sincePress /\ lastPress' = lastPress
      /\ tapping' = tapping /\ pass' = pass /\ flag' = flag /\ replaced' = replaced
  BY <1>1 DEF physical
<1>3. Typed'
  BY <1>1 DEF ComboInv, Typed, KeysTyped, EngineTyped, QueuesTyped, TablesTyped, physical, tables, QueuesRest, Slots
<1>4. Lined' /\ Ahead' = Ahead /\ Behind' = Behind
  BY <1>1, <1>2, LinedRests DEF ComboInv
<1>5. Entries' /\ Candidates' /\ Tallied' /\ Known'
  <2>1. \A r \in Downs(tapQueue)' : r \in Downs(tapQueue) /\ r.combo \in Combos
    BY <1>1, DownsType DEF QueuesRest, ComboInv, Typed, QueuesTyped, OutputType
  <2>2. tapping' # Nothing => tapping \in Nat /\ tapping' \in Nat /\ tapping <= tapping' /\ tapping # Nothing
    BY <1>2 DEF ComboInv, Typed, QueuesTyped
  <2>3. UNCHANGED <<tables, flag, presses, replaced>>
    BY <1>1, <1>2
  <2> QED
    BY <1>4, <2>1, <2>2, <2>3, AgesAre, TablesRest DEF ComboInv, Typed
<1>6. Ready'
  BY <1>1, <1>2, ReadyRests DEF ComboInv, QueuesRest
<1>7. Kept'
  BY <1>1, <1>2 DEF ComboInv, Kept, Idle, QueuesRest
<1> QED
  BY <1>3, <1>4, <1>5, <1>6, <1>7 DEF ComboInv

LEMMA TapHoldInv == ASSUME ComboInv, UndecidedDown \/ Decide PROVE ComboInv'
<1>1. QueuesRest /\ UNCHANGED <<physical, tables, engine, tapping, pass, replaced>>
  BY DEF UndecidedDown, Decide, QueuesRest, engine
<1>2. /\ seq' = seq /\ presses' = presses /\ sincePress' = sincePress /\ lastPress' = lastPress
      /\ tapping' = tapping /\ pass' = pass /\ flag' = flag /\ replaced' = replaced /\ dumping' = dumping
      /\ counted' = counted
  BY <1>1 DEF physical, engine
<1>3. Typed'
  BY <1>1, <1>2 DEF ComboInv, Typed, KeysTyped, EngineTyped, QueuesTyped, TablesTyped, tables, QueuesRest, Slots
<1>4. Lined' /\ Ahead' = Ahead /\ Behind' = Behind
  BY <1>1, <1>2, LinedRests DEF ComboInv
<1>5. Entries' /\ Candidates' /\ Tallied' /\ Known'
  <2>1. \A r \in Downs(tapQueue)' : r \in Downs(tapQueue) /\ r.combo \in Combos
    BY <1>1, DownsType DEF QueuesRest, ComboInv, Typed, QueuesTyped, OutputType
  <2>2. tapping' # Nothing => tapping \in Nat /\ tapping' \in Nat /\ tapping <= tapping' /\ tapping # Nothing
    BY <1>2 DEF ComboInv, Typed, QueuesTyped
  <2>3. UNCHANGED <<tables, flag, presses, replaced>>
    BY <1>1, <1>2
  <2> QED
    BY <1>4, <2>1, <2>2, <2>3, AgesAre, TablesRest DEF ComboInv, Typed
<1>6. Ready'
  BY <1>1, <1>2, ReadyRests DEF ComboInv, QueuesRest
<1>7. Kept'
  BY <1>1, <1>2 DEF ComboInv, Kept, QueuesRest
<1> QED
  BY <1>3, <1>4, <1>5, <1>6, <1>7 DEF ComboInv

LEMMA TapKeyInv == ASSUME ComboInv, TapKeyDown \/ TapKeyDecided PROVE ComboInv'
<1>1. /\ QueuesRest /\ UNCHANGED <<physical, tables, engine, pass, replaced>> /\ Idle
      /\ tapping' = Nothing \/ (tapping = Nothing /\ tapping' = 0)
  BY DEF TapKeyDown, TapKeyDecided, QueuesRest, engine
<1>2. /\ seq' = seq /\ presses' = presses /\ sincePress' = sincePress /\ lastPress' = lastPress
      /\ pass' = pass /\ flag' = flag /\ replaced' = replaced /\ dumping' = dumping
      /\ counted' = counted /\ ~dumping
  BY <1>1 DEF physical, engine, Idle
<1>3. Typed'
  BY <1>1, <1>2 DEF ComboInv, Typed, KeysTyped, EngineTyped, QueuesTyped, TablesTyped, tables, QueuesRest, Slots
<1>4. Lined' /\ Ahead' = Ahead /\ Behind' = Behind
  BY <1>1, <1>2, LinedRests DEF ComboInv
<1>5. Entries' /\ Candidates' /\ Tallied' /\ Known'
  <2>1. tapping' # Nothing => Downs(tapQueue)' = {}
    BY <1>1 DEF QueuesRest, Idle, Downs
  <2>2. UNCHANGED <<tables, flag, presses, replaced>>
    BY <1>1, <1>2
  <2> QED
    BY <1>4, <2>1, <2>2, AgesAre, TablesRest DEF ComboInv, Typed
<1>6. Ready'
  BY <1>1, <1>2, ReadyRests DEF ComboInv, QueuesRest
<1>7. Kept'
  BY <1>1, <1>2 DEF ComboInv, Kept, QueuesRest
<1> QED
  BY <1>3, <1>4, <1>5, <1>6, <1>7 DEF ComboInv

(* A record leaves QMK's tapping queue, once the key is decided.             *)
LEMMA TapQueueLeavesInv == ASSUME ComboInv, TapQueueLeaves PROVE ComboInv'
<1> DEFINE r == Head(tapQueue)
<1>1. /\ tapping = Nothing /\ tapQueue # <<>> /\ now = Nothing
      /\ now' = [at |-> "out", rec |-> r] /\ tapQueue' = Tail(tapQueue)
      /\ UNCHANGED <<physical, tables, engine, tapping, parked, pass, replaced>>
  BY DEF TapQueueLeaves
<1>2. /\ seq' = seq /\ presses' = presses /\ sincePress' = sincePress /\ lastPress' = lastPress
      /\ tapping' = tapping /\ pass' = pass /\ flag' = flag /\ replaced' = replaced /\ dumping' = dumping
      /\ counted' = counted /\ prepared' = prepared /\ parked' = parked
  BY <1>1 DEF physical, engine
<1>3. tapQueue \in Seq(OutputType) /\ r = Head(tapQueue)
  BY DEF ComboInv, Typed, QueuesTyped
<1> HIDE DEF r
<1>4. /\ tapQueue' \in Seq(OutputType) /\ r \in OutputType
      /\ r.down => Downs(tapQueue) = Downs(tapQueue)' \cup {r}
      /\ ~r.down => Downs(tapQueue) = Downs(tapQueue)'
      /\ InLine(tapQueue) => InLine(tapQueue)' /\ (r.down => Before({r}, Downs(tapQueue)'))
  BY <1>1, <1>3, Headed
<1>5. /\ now' \in NowType /\ Passing("out")' = (IF r.down THEN {r} ELSE {}) /\ Passing("in")' = {}
      /\ Passing("in") = {} /\ Passing("out") = {}
  BY <1>1, <1>4, PassingIs, PassingNext
<1>6. Typed'
  BY <1>1, <1>2, <1>4, <1>5
     DEF ComboInv, Typed, KeysTyped, EngineTyped, QueuesTyped, TablesTyped, tables, Slots
<1>7. Downs(parked)' = Downs(parked) /\ Downs(prepared)' = Downs(prepared)
  BY <1>2
<1>8. Ahead' = Ahead /\ Behind' = Behind
  BY <1>4, <1>5, <1>7 DEF Ahead, Behind
<1>9. Lined'
  <2>1. InLine(parked)' /\ InLine(tapQueue)' /\ InLine(prepared)'
    BY <1>2, <1>4 DEF ComboInv, Lined
  <2>2. Before(Passing("in")', Downs(parked)') /\ Before(Passing("out")', Downs(tapQueue)')
    BY <1>4, <1>5 DEF ComboInv, Lined, Before
  <2>3. Recent(Ahead)' /\ Recent(Behind)' /\ Recent(Downs(prepared))'
    BY <1>2, <1>7, <1>8 DEF ComboInv, Lined, Recent
  <2> QED
    BY <1>7, <1>8, <2>1, <2>2, <2>3 DEF ComboInv, Lined
<1>10. Entries' /\ Candidates' /\ Tallied' /\ Known'
  <2>1. UNCHANGED <<tables, flag, presses, replaced>> /\ tapping' = Nothing
    BY <1>1, <1>2
  <2> QED
    BY <1>8, <2>1, AgesAre, TablesRest DEF ComboInv, Typed
<1>11. Ready'
  BY <1>1, <1>2, ReadyRests DEF ComboInv
<1>12. Kept'
  BY <1>1, <1>2 DEF ComboInv, Kept
<1> QED
  BY <1>6, <1>9, <1>10, <1>11, <1>12 DEF ComboInv

(* Record admission replays its oldest record.                               *)
LEMMA ReplayOutputInv == ASSUME ComboInv, ReplayOutput PROVE ComboInv'
<1> DEFINE r == Head(parked)
<1>1. /\ parked # <<>> /\ now = Nothing /\ pass = "replay"
      /\ now' = [at |-> "in", rec |-> r] /\ parked' = Tail(parked)
      /\ pass' = (IF Len(parked) > 1 THEN pass ELSE "events")
      /\ UNCHANGED <<physical, tables, engine, tapping, tapQueue, replaced>>
  BY DEF ReplayOutput, ComboInv, Kept
<1>2. /\ seq' = seq /\ presses' = presses /\ sincePress' = sincePress /\ lastPress' = lastPress
      /\ tapping' = tapping /\ flag' = flag /\ replaced' = replaced /\ dumping' = dumping
      /\ counted' = counted /\ prepared' = prepared /\ tapQueue' = tapQueue
  BY <1>1 DEF physical, engine
<1>3. parked \in Seq(OutputType) /\ r = Head(parked)
  BY DEF ComboInv, Typed, QueuesTyped
<1> HIDE DEF r
<1>4. /\ parked' \in Seq(OutputType) /\ r \in OutputType /\ (parked' = <<>> <=> Len(parked) <= 1)
      /\ r.down => Downs(parked) = Downs(parked)' \cup {r}
      /\ ~r.down => Downs(parked) = Downs(parked)'
      /\ InLine(parked) => InLine(parked)' /\ (r.down => Before({r}, Downs(parked)'))
  BY <1>1, <1>3, Headed
<1>5. /\ now' \in NowType /\ Passing("in")' = (IF r.down THEN {r} ELSE {}) /\ Passing("out")' = {}
      /\ Passing("in") = {} /\ Passing("out") = {}
  BY <1>1, <1>4, PassingIs, PassingNext
<1>6. pass' \in {"events", "replay"} /\ Len(parked) \in Nat
  BY <1>1, <1>3
<1>7. Typed'
  BY <1>1, <1>2, <1>4, <1>5, <1>6
     DEF ComboInv, Typed, KeysTyped, EngineTyped, QueuesTyped, TablesTyped, tables, Slots
<1>8. Downs(tapQueue)' = Downs(tapQueue) /\ Downs(prepared)' = Downs(prepared)
  BY <1>2
<1>9. Ahead' = Ahead /\ Behind' = Behind
  BY <1>4, <1>5, <1>8 DEF Ahead, Behind
<1>10. Lined'
  <2>1. InLine(parked)' /\ InLine(tapQueue)' /\ InLine(prepared)'
    BY <1>2, <1>4 DEF ComboInv, Lined
  <2>2. Before(Passing("in")', Downs(parked)') /\ Before(Passing("out")', Downs(tapQueue)')
    BY <1>4, <1>5 DEF ComboInv, Lined, Before
  <2>3. Recent(Ahead)' /\ Recent(Behind)' /\ Recent(Downs(prepared))'
    BY <1>2, <1>8, <1>9 DEF ComboInv, Lined, Recent
  <2> QED
    BY <1>8, <1>9, <2>1, <2>2, <2>3 DEF ComboInv, Lined
<1>11. Entries' /\ Candidates' /\ Tallied' /\ Known'
  <2>1. \A x \in Downs(tapQueue)' : x \in Downs(tapQueue) /\ x.combo \in Combos
    BY <1>8, OnTheWay DEF ComboInv
  <2>2. tapping' # Nothing => tapping \in Nat /\ tapping' \in Nat /\ tapping <= tapping' /\ tapping # Nothing
    BY <1>2 DEF ComboInv, Typed, QueuesTyped
  <2>3. UNCHANGED <<tables, flag, presses, replaced>>
    BY <1>1, <1>2
  <2> QED
    BY <1>9, <2>1, <2>2, <2>3, AgesAre, TablesRest DEF ComboInv, Typed
<1>12. Ready'
  BY <1>1, <1>2, ReadyRests DEF ComboInv
<1>13. Kept'
  BY <1>1, <1>2, <1>4, <1>6 DEF ComboInv, Kept
<1> QED
  BY <1>7, <1>10, <1>11, <1>12, <1>13 DEF ComboInv

(* A record leaves QMK and is parked or dispatched.                          *)

(* A release is told to the entry or the output it ends, and to no other.    *)
Alike(c) == /\ pending'[c] = Nothing <=> pending[c] = Nothing
            /\ pending[c] # Nothing => Same(pending[c], pending'[c]) /\ pending'[c].applied = pending[c].applied

LEMMA CaptureReleaseIs ==
  ASSUME TablesTyped, Entries, CaptureRelease, presses' = presses
  PROVE  /\ TablesTyped' /\ \A c \in Combos : Alike(c)
         /\ \A s \in Slots : cache'[s] # Nothing => cache'[s].gen <= presses'
<1> DEFINE s == CacheForRelease
           c == ForRelease
           n == deliveries + 1
<1>1. /\ pending' = (IF IsForWaiting(s, c) THEN [pending EXCEPT ![c].release = n] ELSE pending)
      /\ cache' = (IF s # Nothing /\ ~IsForWaiting(s, c) THEN [cache EXCEPT ![s].release = n] ELSE cache)
      /\ deliveries' = (IF s # Nothing \/ c # Nothing THEN n ELSE deliveries)
  BY DEF CaptureRelease
<1>2. /\ s = Nothing \/ (s \in Slots /\ cache[s] # Nothing)
      /\ c = Nothing \/ (c \in Combos /\ Has(c))
      /\ IsForWaiting(s, c) => c # Nothing
      /\ n \in Nat
  BY CacheReleaseIs, ReleaseIs DEF IsForWaiting, TablesTyped
<1> HIDE DEF s, c, n
<1>3. pending \in [Combos -> EntryType \cup {Nothing}] /\ cache \in [Slots -> CacheType \cup {Nothing}]
  BY DEF TablesTyped
<1>4. CASE IsForWaiting(s, c)
  <2>1. c \in Combos /\ pending[c] \in EntryType /\ pending[c] # Nothing
    BY <1>2, <1>4, HasEntry DEF Has
  <2> DEFINE e == [pending[c] EXCEPT !.release = n]
  <2>2. e \in EntryType /\ Same(pending[c], e) /\ e.applied = pending[c].applied
    BY <1>2, <2>1 DEF EntryType, Same
  <2>3. pending' = [pending EXCEPT ![c] = e] /\ cache' = cache
    BY <1>1, <1>4
  <2> HIDE DEF e
  <2>4. e # Nothing
    BY <2>2, NothingElse
  <2>5. \A d \in Combos : pending'[d] = IF d = c THEN e ELSE pending[d]
    BY <1>3, <2>3
  <2>6. \A d \in Combos : Alike(d)
    BY <2>1, <2>2, <2>4, <2>5 DEF Alike, Same
  <2>7. TablesTyped'
    BY <1>1, <1>2, <1>3, <2>2, <2>3 DEF TablesTyped, Slots
  <2> QED
    BY <2>3, <2>6, <2>7 DEF Entries
<1>5. CASE ~IsForWaiting(s, c) /\ s # Nothing
  <2>1. s \in Slots /\ cache[s] \in CacheType /\ cache[s] # Nothing
    BY <1>2, <1>3, <1>5
  <2> DEFINE e == [cache[s] EXCEPT !.release = n]
  <2>2. e \in CacheType /\ e.gen = cache[s].gen
    BY <1>2, <2>1 DEF CacheType
  <2>3. cache' = [cache EXCEPT ![s] = e] /\ pending' = pending
    BY <1>1, <1>5
  <2> HIDE DEF e
  <2>4. \A t \in Slots : cache'[t] = IF t = s THEN e ELSE cache[t]
    BY <1>3, <2>3
  <2>5. \A t \in Slots : cache'[t] # Nothing => cache'[t].gen <= presses'
    BY <2>1, <2>2, <2>4 DEF Entries
  <2>6. TablesTyped'
    BY <1>1, <1>2, <1>3, <2>2, <2>3 DEF TablesTyped, Slots
  <2>7. \A d \in Combos : Alike(d)
    BY <2>3 DEF Alike, Same
  <2> QED
    BY <2>5, <2>6, <2>7
<1>6. CASE ~IsForWaiting(s, c) /\ s = Nothing
  <2>1. pending' = pending /\ cache' = cache
    BY <1>1, <1>6
  <2>2. TablesTyped'
    BY <1>1, <1>2, <1>3, <2>1 DEF TablesTyped, Slots
  <2>3. \A d \in Combos : Alike(d)
    BY <2>1 DEF Alike, Same
  <2> QED
    BY <2>1, <2>2, <2>3 DEF Entries
<1> QED
  BY <1>4, <1>5, <1>6

(* Tables alike, and the same presses on their way.                          *)
LEMMA TablesAlike ==
  ASSUME Entries, Candidates, Tallied, Known, TablesTyped, Ready, \A c \in Combos : Alike(c),
         UNCHANGED <<flag, presses, replaced, tapping, prepared, seq, dumping>>,
         \A s \in Slots : cache'[s] # Nothing => cache'[s].gen <= presses',
         Ahead' = Ahead, Behind' = Behind, Downs(tapQueue)' = Downs(tapQueue),
         \A r \in Ahead \cup Behind : r.combo \in Combos,
         \A i \in DOMAIN prepared : prepared[i].combo \in Combos
  PROVE  Entries' /\ Candidates' /\ Tallied' /\ Known' /\ Ready'
<1>1. ASSUME NEW c \in Combos
      PROVE  /\ (Has(c)' <=> Has(c)) /\ (Has(c) => Same(pending[c], pending'[c]))
             /\ (Has(c) => (pending'[c].applied <=> pending[c].applied)) /\ (Active(c)' <=> Active(c))
  BY DEF Has, Alike, Active
<1>2. Entries'
  BY <1>1 DEF Entries, Same
<1>3. Candidates'
  BY <1>1 DEF Candidates, Its, Same, Fired
<1>4. Met' = Met
  BY <1>1 DEF Met, Same
<1>5. Tallied'
  BY <1>4 DEF Tallied
<1>6. ASSUME NEW r, r.combo \in Combos
      PROVE  /\ MeetsEntry(r) => MeetsEntry(r)'
             /\ MeetsEntry(r) => /\ pending'[r.combo].pressed = pending[r.combo].pressed
                            /\ pending'[r.combo].age = pending[r.combo].age
  BY <1>1, <1>6 DEF MeetsEntry, Its, Fired, Same
<1>7. ASSUME ~replaced' PROVE Known'
  <2>1. ~replaced
    BY <1>7
  <2>2. /\ \A r \in Behind' : MeetsEntry(r)' /\ ~pending'[r.combo].pressed
        /\ \A r \in Ahead' : MeetsEntry(r)' /\ pending'[r.combo].pressed
    BY <1>6, <2>1 DEF Known
  <2>3. \A c \in Met' : \E r \in Ahead' : Its(r, c)'
    BY <1>1, <1>4, <2>1 DEF Known, Its, Met, Same
  <2>4. Downs(tapQueue) \subseteq Behind
    BY DEF Behind
  <2>5. \A r \in Downs(tapQueue)' : tapping' # Nothing => pending'[r.combo].age <= tapping'
    BY <1>6, <2>1, <2>4 DEF Known
  <2> QED
    BY <2>2, <2>3, <2>5 DEF Known
<1>8. Known'
  BY <1>7 DEF Known
<1>9. Ready'
  <2>1. \A i \in DOMAIN prepared : Waiting(prepared[i])'
    BY <1>1 DEF Ready, Waiting, Its, Same, Whole
  <2> QED
    BY <2>1 DEF Ready
<1> QED
  BY <1>2, <1>3, <1>5, <1>8, <1>9

------------------------------------------------------------------------------
(* How many presses are ahead.                                               *)

LEMMA DownsFinite == ASSUME NEW q \in Seq(OutputType) PROVE IsFiniteSet(Downs(q))
<1> DEFINE D == {j \in 1 .. Len(q) : q[j].down}
           f == [j \in D |-> q[j]]
<1>1. IsFiniteSet(1 .. Len(q))
  BY FS_Interval
<1>2. IsFiniteSet(D)
  BY <1>1, FS_Subset
<1>3. Downs(q) = {q[i] : i \in D}
  BY DEF Downs
<1>4. f \in Surjection(D, Downs(q))
  BY <1>3 DEF Surjection
<1> QED
  BY <1>2, <1>4, FS_Surjection

LEMMA AheadFinite == ASSUME Typed PROVE IsFiniteSet(Ahead) /\ Cardinality(Ahead) \in Nat
<1>1. IsFiniteSet(Downs(parked))
  BY DownsFinite DEF Typed, QueuesTyped
<1>2. IsFiniteSet(Passing("in"))
  BY FS_EmptySet, FS_Singleton DEF Passing
<1>3. IsFiniteSet(Ahead)
  BY <1>1, <1>2, FS_Union DEF Ahead
<1> QED
  BY <1>3, FS_CardinalityType

LEMMA MetFinite == IsFiniteSet(Met) /\ Cardinality(Met) \in Nat
<1>1. Met \subseteq Combos
  BY DEF Met
<1>2. IsFiniteSet(Met)
  BY <1>1, CombosAre, FS_Subset
<1> QED
  BY <1>2, FS_CardinalityType

(* A press leaves QMK: the first of those behind joins those ahead.          *)

LEMMA FirstBehind ==
  ASSUME TablesTyped, Candidates, Lined, NEW r, Passing("out") = {r}, r.gen \in Nat,
         \A p \in Behind : p.gen \in Nat, NEW c \in Unmet, Its(r, c)
  PROVE  ForDelivery = c
<1>1. ForDelivery \in Unmet /\ pending[ForDelivery].gen <= pending[c].gen
  BY DeliveryIs
<1> DEFINE x == ForDelivery
<1>2. PICK p \in Behind : Its(p, x)
  BY <1>1 DEF Candidates, Unmet
<1>3. p.gen <= r.gen
  BY <1>1, <1>2 DEF Its
<1>4. p = r \/ r.gen < p.gen
  BY DEF Behind, Lined, Before
<1>5. p = r
  BY <1>3, <1>4
<1> QED
  BY <1>2, <1>5 DEF Its

Marked(c, x) ==
  /\ Has(c)' <=> Has(c)
  /\ Has(c) => /\ pending'[c].gen = pending[c].gen /\ pending'[c].owner = pending[c].owner
               /\ pending'[c].keys = pending[c].keys /\ pending'[c].age = pending[c].age
               /\ pending'[c].applied = pending[c].applied
               /\ (pending'[c].pressed <=> pending[c].pressed \/ c = x)
               /\ (pending'[c].pressed => c = x \/ pending[c].pressed)

LEMMA CapturePressIs ==
  ASSUME TablesTyped, CapturePress
  PROVE  /\ TablesTyped' /\ cache' = cache /\ \A c \in Combos : Marked(c, ForDelivery)
         /\ ForDelivery = Nothing \/ ForDelivery \in Unmet
<1> DEFINE x == ForDelivery
<1>1. x = Nothing \/ x \in Unmet
  BY DeliveryIs
<1>2. /\ pending' = [c \in Combos |-> IF c = x THEN [pending[c] EXCEPT !.pressed = TRUE] ELSE pending[c]]
      /\ cache' = cache /\ deliveries' = deliveries
  BY DEF CapturePress
<1> HIDE DEF x
<1>3. ASSUME NEW c \in Combos PROVE pending'[c] \in EntryType \cup {Nothing} /\ Marked(c, x)
  <2>1. CASE c = x
    <3>1. Has(c) /\ pending[c] \in EntryType
      BY <1>1, <2>1, NothingElse, HasEntry DEF Unmet
    <3> DEFINE e == [pending[c] EXCEPT !.pressed = TRUE]
    <3>2. /\ e \in EntryType /\ e.gen = pending[c].gen /\ e.owner = pending[c].owner
          /\ e.keys = pending[c].keys /\ e.age = pending[c].age /\ e.applied = pending[c].applied
          /\ e.pressed
      BY <3>1 DEF EntryType
    <3>3. pending'[c] = e
      BY <1>2, <2>1
    <3> HIDE DEF e
    <3> QED
      BY <2>1, <3>1, <3>2, <3>3, NothingElse DEF Marked, Has
  <2>2. CASE c # x
    <3>1. pending'[c] = pending[c]
      BY <1>2, <2>2
    <3> QED
      BY <2>2, <3>1 DEF Marked, Has, TablesTyped
  <2> QED
    BY <2>1, <2>2
<1>4. pending' \in [Combos -> EntryType \cup {Nothing}]
  BY <1>2, <1>3
<1>5. TablesTyped'
  BY <1>2, <1>4 DEF TablesTyped, Slots
<1> QED
  BY <1>1, <1>2, <1>3, <1>5 DEF x

LEMMA PreparedIs ==
  ASSUME Typed
  PROVE  \A i \in DOMAIN prepared :
            prepared[i] \in OutputType /\ prepared[i].combo \in Combos /\ prepared[i].gen \in Nat
<1>1. \A i \in DOMAIN prepared : prepared[i] \in OutputType
  BY DEF Typed, QueuesTyped
<1> QED
  BY <1>1 DEF OutputType

(* What a delivery does with the record it takes out of QMK.                 *)
Takes(r) ==
  /\ now # Nothing /\ now.at = "out" /\ r = now.rec
  /\ \/ parked' = Append(parked, r) /\ now' = Nothing
     \/ parked' = parked /\ now' = [at |-> "in", rec |-> r] /\ (r.down => parked = <<>>)
  /\ UNCHANGED <<seq, presses, sincePress, lastPress, flag, counted, prepared, dumping, tapping,
                 tapQueue, pass, replaced>>

LEMMA DeliverTakes ==
  ASSUME Deliver, now \in NowType
  PROVE  Takes(now.rec) /\ (IF now.rec.down THEN CapturePress ELSE CaptureRelease)
<1> DEFINE r == now.rec
<1>1. /\ now # Nothing /\ now.at = "out"
      /\ IF r.down THEN CapturePress ELSE CaptureRelease
      /\ IF Waits(r) THEN parked' = Append(parked, r) /\ now' = Nothing
                     ELSE parked' = parked /\ now' = [now EXCEPT !.at = "in"]
      /\ UNCHANGED <<physical, engine, tapping, tapQueue, pass, replaced>>
  BY DEF Deliver
<1>2. [now EXCEPT !.at = "in"] = [at |-> "in", rec |-> r]
  BY DEF NowType
<1>3. r.down /\ ~Waits(r) => parked = <<>>
  BY DEF Waits
<1> QED
  BY <1>1, <1>2, <1>3 DEF Takes, physical, engine

LEMMA TakesIs ==
  ASSUME Typed, Lined, NEW r, Takes(r)
  PROVE  /\ r \in OutputType /\ parked' \in Seq(OutputType) /\ now' \in NowType \cup {Nothing}
         /\ Passing("in") = {} /\ Passing("out") = (IF r.down THEN {r} ELSE {})
         /\ Passing("out")' = {} /\ Before(Passing("in")', Downs(parked)')
         /\ Downs(tapQueue)' = Downs(tapQueue) /\ Downs(prepared)' = Downs(prepared)
         /\ Ahead' = (IF r.down THEN Ahead \cup {r} ELSE Ahead)
         /\ InLine(parked)' /\ (parked # <<>> => parked' # <<>>)
<1>0. /\ r \in OutputType /\ parked \in Seq(OutputType) /\ tapQueue' = tapQueue /\ prepared' = prepared
      /\ now # Nothing /\ now.at = "out" /\ r = now.rec
  BY DEF Takes, Typed, QueuesTyped, NowType
<1>1. Passing("in") = {} /\ Passing("out") = (IF r.down THEN {r} ELSE {})
  BY <1>0, PassingIs
<1>2. Downs(tapQueue)' = Downs(tapQueue) /\ Downs(prepared)' = Downs(prepared)
  BY <1>0
<1>3. r.down => Before(Downs(parked), {r})
  BY <1>1 DEF Lined, Before, Ahead, Behind
<1>4. CASE parked' = Append(parked, r) /\ now' = Nothing
  <2>1. /\ parked' \in Seq(OutputType) /\ parked' # <<>>
        /\ r.down => Downs(parked)' = Downs(parked) \cup {r}
        /\ ~r.down => Downs(parked)' = Downs(parked)
        /\ InLine(parked)'
    BY <1>0, <1>3, <1>4, Appended DEF Lined
  <2>2. Passing("out")' = {} /\ Passing("in")' = {} /\ now' \in NowType \cup {Nothing}
    BY <1>4 DEF Passing
  <2> QED
    BY <1>0, <1>1, <1>2, <2>1, <2>2 DEF Ahead, Before
<1>5. CASE parked' = parked /\ now' = [at |-> "in", rec |-> r] /\ (r.down => parked = <<>>)
  <2>1. now' \in NowType /\ Passing("in")' = (IF r.down THEN {r} ELSE {}) /\ Passing("out")' = {}
    BY <1>0, <1>5, PassingNext
  <2>2. Downs(parked)' = Downs(parked) /\ (r.down => Downs(parked) = {}) /\ InLine(parked)'
    BY <1>5 DEF Downs, Lined
  <2> QED
    BY <1>0, <1>1, <1>2, <1>5, <2>1, <2>2 DEF Ahead, Before
<1> QED
  BY <1>4, <1>5 DEF Takes

LEMMA TakesTyped == ASSUME Typed, Lined, TablesTyped', NEW r, Takes(r) PROVE Typed'
<1>1. parked' \in Seq(OutputType) /\ now' \in NowType \cup {Nothing}
  BY TakesIs
<1>2. KeysTyped' /\ EngineTyped'
  BY DEF Takes, Typed, KeysTyped, EngineTyped
<1>3. QueuesTyped'
  BY <1>1 DEF Takes, Typed, QueuesTyped
<1> QED
  BY <1>2, <1>3 DEF Typed

LEMMA TakesLined ==
  ASSUME Typed, Lined, NEW r, Takes(r)
  PROVE  /\ Lined' /\ Behind' = Downs(tapQueue)
         /\ Behind = (IF r.down THEN Behind' \cup {r} ELSE Behind')
         /\ r.down => r \notin Ahead /\ r \in Behind /\ Before({r}, Behind')
<1>1. /\ r \in OutputType
      /\ Passing("in") = {} /\ Passing("out") = (IF r.down THEN {r} ELSE {})
      /\ Passing("out")' = {} /\ Before(Passing("in")', Downs(parked)')
      /\ Downs(tapQueue)' = Downs(tapQueue) /\ Downs(prepared)' = Downs(prepared)
      /\ Ahead' = (IF r.down THEN Ahead \cup {r} ELSE Ahead)
      /\ InLine(parked)'
  BY TakesIs
<1>2. Behind' = Downs(tapQueue) /\ Behind = (IF r.down THEN Behind' \cup {r} ELSE Behind')
  BY <1>1 DEF Behind
<1>3. r.down => Before({r}, Behind')
  BY <1>1, <1>2 DEF Lined
<1>4. r.gen \in Nat
  BY <1>1 DEF OutputType
<1>5. r.down => r \notin Ahead /\ r \in Behind
  BY <1>2, <1>4 DEF Lined, Before
<1>6. InLine(parked)' /\ InLine(tapQueue)' /\ InLine(prepared)'
  BY <1>1 DEF Lined, Takes
<1>7. Before(Passing("in")', Downs(parked)') /\ Before(Passing("out")', Downs(tapQueue)')
  BY <1>1 DEF Before
<1>8. Before(Ahead', Behind')
  BY <1>1, <1>2, <1>3 DEF Lined, Before
<1>9. Ahead' \cup Behind' = Ahead \cup Behind
  BY <1>1, <1>2
<1>10. Before(Ahead' \cup Behind', Downs(prepared)')
  BY <1>1, <1>9 DEF Lined
<1>11. Recent(Ahead)' /\ Recent(Behind)' /\ Recent(Downs(prepared))'
  BY <1>1, <1>9 DEF Lined, Recent, Takes
<1> QED
  BY <1>2, <1>3, <1>5, <1>6, <1>7, <1>8, <1>10, <1>11 DEF Lined

LEMMA DeliverReleaseInv ==
  ASSUME ComboInv, NEW r, Takes(r), ~r.down, CaptureRelease PROVE ComboInv'
<1>1. UNCHANGED <<flag, presses, replaced, tapping, prepared, seq, dumping, pass, tapQueue>>
  BY DEF Takes
<1>2. /\ TablesTyped' /\ \A c \in Combos : Alike(c)
      /\ \A s \in Slots : cache'[s] # Nothing => cache'[s].gen <= presses'
  BY <1>1, CaptureReleaseIs DEF ComboInv, Typed
<1>3. Typed'
  BY <1>2, TakesTyped DEF ComboInv
<1>4. Lined' /\ Behind' = Behind
  BY TakesLined DEF ComboInv
<1>5. Ahead' = Ahead /\ Downs(tapQueue)' = Downs(tapQueue) /\ (parked # <<>> => parked' # <<>>)
  BY TakesIs DEF ComboInv
<1>6. \A p \in Ahead \cup Behind : p.combo \in Combos
  BY OnTheWay DEF ComboInv
<1>7. \A i \in DOMAIN prepared : prepared[i].combo \in Combos
  BY PreparedIs DEF ComboInv
<1>8. Entries' /\ Candidates' /\ Tallied' /\ Known' /\ Ready'
  BY <1>1, <1>2, <1>4, <1>5, <1>6, <1>7, TablesAlike DEF ComboInv, Typed
<1>9. Kept'
  BY <1>1, <1>5 DEF ComboInv, Kept
<1> QED
  BY <1>3, <1>4, <1>8, <1>9 DEF ComboInv

LEMMA DeliverPressInv ==
  ASSUME ComboInv, NEW r, Takes(r), r.down, CapturePress PROVE ComboInv'
<1> DEFINE x == ForDelivery
<1>1. UNCHANGED <<flag, presses, replaced, tapping, prepared, seq, dumping, pass, tapQueue>>
  BY DEF Takes
<1>2. /\ TablesTyped' /\ cache' = cache /\ \A c \in Combos : Marked(c, x)
      /\ x = Nothing \/ x \in Unmet
  BY CapturePressIs DEF ComboInv, Typed
<1>3. Typed'
  BY <1>2, TakesTyped DEF ComboInv
<1>4. /\ Lined' /\ Behind' = Downs(tapQueue) /\ Behind = Behind' \cup {r}
      /\ r \notin Ahead /\ r \in Behind /\ Before({r}, Behind')
  BY TakesLined DEF ComboInv
<1>5. /\ Ahead' = Ahead \cup {r} /\ Downs(tapQueue)' = Downs(tapQueue) /\ (parked # <<>> => parked' # <<>>)
      /\ Passing("out") = {r} /\ r \in OutputType
  BY TakesIs DEF ComboInv
<1>6. \A p \in Ahead \cup Behind : p.combo \in Combos /\ p.gen \in Nat
  BY OnTheWay DEF ComboInv
<1>7. \A i \in DOMAIN prepared : prepared[i].combo \in Combos
  BY PreparedIs DEF ComboInv
<1>8. \A c \in Unmet : Its(r, c) => x = c
  <2>1. r.gen \in Nat /\ (\A p \in Behind : p.gen \in Nat) /\ TablesTyped /\ Candidates /\ Lined
    BY <1>4, <1>6 DEF ComboInv, Typed
  <2> QED
    BY <1>5, <2>1, FirstBehind
<1> HIDE DEF x
<1>9. ASSUME NEW c \in Combos
      PROVE  /\ (Has(c)' <=> Has(c)) /\ (Active(c)' <=> Active(c)) /\ (Has(c) => (Fired(c)' <=> Fired(c)))
             /\ (Has(c) => pending'[c].gen = pending[c].gen)
  BY <1>1, <1>2 DEF Marked, Active, Fired
<1>10. Entries'
  BY <1>1, <1>2, <1>9 DEF Entries, ComboInv, Marked
<1>11. Candidates'
  <2> SUFFICES ASSUME NEW c \in Combos, Has(c)', ~pending'[c].pressed, Fired(c)'
               PROVE  \E p \in Behind' : Its(p, c)'
    BY DEF Candidates
  <2>1. Has(c) /\ ~pending[c].pressed /\ Fired(c) /\ c # x
    BY <1>2, <1>9 DEF Marked
  <2>2. PICK p \in Behind : Its(p, c)
    BY <2>1 DEF ComboInv, Candidates
  <2>3. p # r
    BY <1>8, <2>1, <2>2 DEF Unmet
  <2>4. p \in Behind' /\ Its(p, c)'
    BY <1>4, <1>9, <2>1, <2>2, <2>3 DEF Its
  <2> QED
    BY <2>4
<1>12. Met' \subseteq Met \cup {x}
  BY <1>2, <1>9 DEF Met, Marked
<1>13. Tallied'
  <2>1. IsFiniteSet(Met \cup {x}) /\ Cardinality(Met \cup {x}) <= Cardinality(Met) + 1
    BY MetFinite, FS_AddElement
  <2>2. IsFiniteSet(Met') /\ Cardinality(Met') <= Cardinality(Met \cup {x})
    BY <1>12, <2>1, FS_Subset
  <2>3. Cardinality(Ahead') = Cardinality(Ahead) + 1
    BY <1>4, <1>5, AheadFinite, FS_AddElement DEF ComboInv
  <2>4. Cardinality(Met') \in Nat /\ Cardinality(Met \cup {x}) \in Nat
    BY <2>1, <2>2, FS_CardinalityType
  <2> QED
    BY <2>1, <2>2, <2>3, <2>4, MetFinite, AheadFinite DEF ComboInv, Tallied
<1>14. ASSUME ~replaced' PROVE Known'
  <2>0. ~replaced
    BY <1>1, <1>14
  <2>1. /\ \A p \in Behind : MeetsEntry(p) /\ ~pending[p.combo].pressed
        /\ \A p \in Ahead : MeetsEntry(p) /\ pending[p.combo].pressed
        /\ \A p \in Downs(tapQueue) : tapping # Nothing => pending[p.combo].age <= tapping
        /\ \A c \in Met : \E p \in Ahead : Its(p, c)
    BY <2>0 DEF ComboInv, Known
  <2>2. x = r.combo /\ Has(x) /\ pending[x].gen = r.gen /\ x \in Combos
    BY <1>4, <1>6, <1>8, <2>1 DEF MeetsEntry, Unmet, Its
  <2>3. \A p : p.combo \in Combos /\ MeetsEntry(p) => MeetsEntry(p)'
    BY <1>9 DEF MeetsEntry, Its
  <2>4. ASSUME NEW p \in Behind' PROVE MeetsEntry(p)' /\ ~pending'[p.combo].pressed
    <3>1. p \in Behind /\ r.gen < p.gen
      BY <1>4, <2>4 DEF Before
    <3>2. p.combo # x
      BY <1>6, <2>1, <2>2, <3>1 DEF MeetsEntry, Its
    <3> QED
      BY <1>2, <1>6, <2>1, <2>3, <3>1, <3>2 DEF Marked, MeetsEntry
  <2>5. ASSUME NEW p \in Ahead' PROVE MeetsEntry(p)' /\ pending'[p.combo].pressed
    <3>1. CASE p \in Ahead
      BY <1>2, <1>6, <2>1, <2>3, <3>1 DEF Marked, MeetsEntry
    <3>2. CASE p = r
      BY <1>2, <1>4, <1>6, <2>1, <2>2, <2>3, <3>2 DEF Marked, MeetsEntry
    <3> QED
      BY <1>5, <3>1, <3>2
  <2>6. ASSUME NEW p \in Downs(tapQueue)', tapping' # Nothing PROVE pending'[p.combo].age <= tapping'
    <3>1. p \in Behind /\ p \in Downs(tapQueue) /\ tapping' = tapping
      BY <1>1, <1>4, <1>5, <2>6
    <3>2. pending'[p.combo].age = pending[p.combo].age
      BY <1>2, <1>6, <2>1, <3>1 DEF Marked, MeetsEntry
    <3> QED
      BY <2>1, <2>6, <3>1, <3>2
  <2>7. ASSUME NEW c \in Met' PROVE \E p \in Ahead' : Its(p, c)'
    <3>1. CASE c \in Met
      <4>1. PICK p \in Ahead : Its(p, c)
        BY <2>1, <3>1
      <4>2. Its(p, c)' /\ p \in Ahead'
        BY <1>5, <1>9, <3>1, <4>1 DEF Its, Met
      <4> QED
        BY <4>2
    <3>2. CASE c = x
      <4>1. Its(r, c)' /\ r \in Ahead'
        BY <1>5, <1>9, <2>2, <3>2 DEF Its
      <4> QED
        BY <4>1
    <3> QED
      BY <1>12, <3>1, <3>2
  <2> QED
    BY <2>4, <2>5, <2>6, <2>7 DEF Known
<1>15. Known'
  BY <1>14 DEF Known
<1>16. Ready'
  <2>1. ASSUME NEW i \in DOMAIN prepared PROVE Waiting(prepared[i])'
    <3>0. PICK p : p = prepared[i]
      OBVIOUS
    <3>1. Waiting(p) /\ p.combo \in Combos
      BY <1>7, <3>0 DEF ComboInv, Ready
    <3>2. p.combo # x
      <4>1. ~Fired(p.combo)
        BY <3>1 DEF Waiting, Fired, Active
      <4>2. x # Nothing => Fired(x)
        BY <1>2 DEF Unmet
      <4> QED
        BY <3>1, <4>1, <4>2, NothingElse
    <3>3. Has(p.combo)' /\ Its(p, p.combo)' /\ ~pending'[p.combo].pressed /\ ~pending'[p.combo].applied
      BY <1>2, <3>1, <3>2 DEF Waiting, Marked, Its
    <3>4. Whole(p.combo, p.gen)' <=> Whole(p.combo, p.gen)
      BY <1>1 DEF Whole
    <3>5. Waiting(p)'
      BY <1>1, <3>1, <3>3, <3>4 DEF Waiting
    <3> QED
      BY <1>1, <3>0, <3>5
  <2> QED
    BY <1>1, <2>1 DEF ComboInv, Ready
<1>17. Kept'
  BY <1>1, <1>5 DEF ComboInv, Kept
<1> QED
  BY <1>3, <1>4, <1>10, <1>11, <1>13, <1>15, <1>16, <1>17 DEF ComboInv

LEMMA DeliverInv == ASSUME ComboInv, Deliver PROVE ComboInv'
<1>1. now \in NowType
  BY DEF Deliver, ComboInv, Typed, QueuesTyped
<1> QED
  BY <1>1, DeliverTakes, DeliverReleaseInv, DeliverPressInv

(* A record is dispatched.                                                   *)

LEMMA FirstAhead ==
  ASSUME Typed, Lined, Known, ~replaced, NEW r, Passing("in") = {r}
  PROVE  ForDispatch = r.combo /\ r.combo \in Met /\ Its(r, r.combo) /\ Its(r, ForDispatch)
<1>1. r \in Ahead /\ \A p \in Ahead : p = r \/ r.gen < p.gen
  BY DEF Ahead, Lined, Before
<1>2. \A p \in Ahead : p.combo \in Combos /\ p.gen \in Nat
  BY OnTheWay
<1>3. MeetsEntry(r) /\ pending[r.combo].pressed
  BY <1>1 DEF Known
<1>4. r.combo \in Met /\ Its(r, r.combo)
  BY <1>1, <1>2, <1>3 DEF MeetsEntry, Met
<1>5. TablesTyped
  BY DEF Typed
<1>6. ForDispatch \in Met /\ pending[ForDispatch].gen <= r.gen
  BY <1>4, <1>5, DispatchIs DEF Its
<1>7. PICK p \in Ahead : Its(p, ForDispatch)
  BY <1>6 DEF Known
<1>8. p = r
  BY <1>1, <1>2, <1>6, <1>7 DEF Its
<1> QED
  BY <1>4, <1>7, <1>8 DEF Its

(* What the dispatch of r leaves alone.                                      *)
Lets(r) ==
  /\ now # Nothing /\ now.at = "in" /\ r = now.rec /\ now' = Nothing
  /\ UNCHANGED <<seq, presses, sincePress, lastPress, deliveries, flag, counted, prepared, dumping,
                 tapping, tapQueue, parked, pass, replaced>>

LEMMA LetsIs ==
  ASSUME Typed, Lined, NEW r, Lets(r), TablesTyped'
  PROVE  /\ Typed' /\ Lined' /\ r \in OutputType /\ Behind' = Behind
         /\ Downs(tapQueue)' = Downs(tapQueue)
         /\ Passing("in") = (IF r.down THEN {r} ELSE {})
         /\ Ahead' = (IF r.down THEN Ahead \ {r} ELSE Ahead) /\ (r.down => r \in Ahead)
<1>1. /\ r \in OutputType
      /\ UNCHANGED <<seq, presses, sincePress, lastPress, deliveries, flag, counted, prepared,
                     dumping, tapping, tapQueue, parked, pass, replaced>>
  BY DEF Lets, Typed, QueuesTyped, NowType
<1>2. KeysTyped' /\ EngineTyped' /\ QueuesTyped'
  BY <1>1 DEF Lets, Typed, KeysTyped, EngineTyped, QueuesTyped
<1>3. /\ Passing("in") = (IF r.down THEN {r} ELSE {}) /\ Passing("out") = {}
      /\ Passing("in")' = {} /\ Passing("out")' = {}
  BY DEF Lets, Passing
<1>4. /\ Downs(tapQueue)' = Downs(tapQueue) /\ Downs(prepared)' = Downs(prepared)
      /\ Downs(parked)' = Downs(parked)
  BY <1>1
<1>5. r.gen \in Nat
  BY <1>1 DEF OutputType
<1>6. Behind' = Behind /\ Ahead' = Downs(parked) /\ Ahead = Passing("in") \cup Downs(parked)
  BY <1>3, <1>4 DEF Ahead, Behind
<1>7. r.down => r \notin Downs(parked)
  BY <1>3, <1>5 DEF Lined, Before
<1>8. Ahead' = (IF r.down THEN Ahead \ {r} ELSE Ahead) /\ (r.down => r \in Ahead)
  BY <1>3, <1>6, <1>7
<1>9. Lined'
  <2>1. InLine(parked)' /\ InLine(tapQueue)' /\ InLine(prepared)'
    BY <1>1 DEF Lined
  <2>2. Before(Passing("in")', Downs(parked)') /\ Before(Passing("out")', Downs(tapQueue)')
    BY <1>3 DEF Before
  <2>3. Before(Ahead', Behind') /\ Before(Ahead' \cup Behind', Downs(prepared)')
    BY <1>4, <1>6 DEF Lined, Before
  <2>4. Recent(Ahead)' /\ Recent(Behind)' /\ Recent(Downs(prepared))'
    BY <1>1, <1>4, <1>6 DEF Lined, Recent
  <2> QED
    BY <2>1, <2>2, <2>3, <2>4 DEF Lined
<1> QED
  BY <1>1, <1>2, <1>3, <1>4, <1>6, <1>8, <1>9 DEF Typed

LEMMA DispatchReleaseInv ==
  ASSUME ComboInv, NEW r, Lets(r), ~r.down, DispatchRelease(r) PROVE ComboInv'
<1>1. UNCHANGED <<flag, presses, replaced, tapping, prepared, seq, dumping, pass, tapQueue, parked>>
  BY DEF Lets
<1>2. pending' = pending /\ (cache' = cache \/ \E s : cache' = [cache EXCEPT ![s] = Nothing])
  BY DEF DispatchRelease
<1>3. cache \in [Slots -> CacheType \cup {Nothing}]
  BY DEF ComboInv, Typed, TablesTyped
<1>4. /\ cache' \in [Slots -> CacheType \cup {Nothing}]
      /\ \A t \in Slots : cache'[t] = cache[t] \/ cache'[t] = Nothing
  BY <1>2, <1>3
<1>5. TablesTyped'
  BY <1>2, <1>4 DEF ComboInv, Typed, TablesTyped, Lets, Slots
<1>6. /\ Typed' /\ Lined' /\ Behind' = Behind /\ Ahead' = Ahead /\ Downs(tapQueue)' = Downs(tapQueue)
  BY <1>5, LetsIs DEF ComboInv
<1>7. \A c \in Combos : Alike(c)
  BY <1>2 DEF Alike, Same
<1>8. \A s \in Slots : cache'[s] # Nothing => cache'[s].gen <= presses'
  BY <1>1, <1>4 DEF ComboInv, Entries
<1>9. \A p \in Ahead \cup Behind : p.combo \in Combos
  BY OnTheWay DEF ComboInv
<1>10. \A i \in DOMAIN prepared : prepared[i].combo \in Combos
  BY PreparedIs DEF ComboInv
<1>11. Entries' /\ Candidates' /\ Tallied' /\ Known' /\ Ready'
  BY <1>1, <1>6, <1>7, <1>8, <1>9, <1>10, TablesAlike DEF ComboInv, Typed
<1>12. Kept'
  BY <1>1 DEF ComboInv, Kept
<1> QED
  BY <1>6, <1>11, <1>12 DEF ComboInv

(* The slot a dispatched output takes.                                       *)
LEMMA PlaceIs ==
  ASSUME cache \in [Slots -> CacheType \cup {Nothing}], NEW e \in CacheType, NEW p, p = Place(e)
  PROVE  /\ p \in [Slots -> CacheType \cup {Nothing}]
         /\ \A s \in Slots : p[s] = cache[s] \/ p[s] = e
<1>1. p = cache \/ \E s : p = [cache EXCEPT ![s] = e]
  BY DEF Place
<1> QED
  BY <1>1

DispatchedEntry ==
  LET c == ForDispatch
      u == Untracked
  IN  IF c # Nothing
      THEN Cached(c, pending[c].gen, pending[c].owner, pending[c].keys, pending[c].release)
      ELSE IF u # Nothing
      THEN Cached(u, Max({seq[k] : k \in Members(u)}), Owner(u), Members(u), 0)
      ELSE Cached(Nothing, 0, FallbackOwner, MemberKeys, 0)

LEMMA DispatchedIs ==
  ASSUME Typed, Entries PROVE DispatchedEntry \in CacheType /\ DispatchedEntry.gen <= presses
<1>1. \A c \in Combos \cup {Nothing}, g \in Nat, o \in MemberKeys \cup {Nothing},
         ks \in SUBSET MemberKeys, n \in Nat :
        Cached(c, g, o, ks, n) \in CacheType /\ Cached(c, g, o, ks, n).gen = g
  BY DEF Cached, CacheType
<1>2. CASE ForDispatch # Nothing
  <2> DEFINE c == ForDispatch
  <2>1. c \in Combos /\ Has(c)
    BY <1>2, DispatchIs, DeliveryIs DEF Typed, Met, Unmet
  <2>2. pending[c] \in EntryType
    BY <2>1, HasEntry DEF Typed
  <2>3. DispatchedEntry = Cached(c, pending[c].gen, pending[c].owner, pending[c].keys, pending[c].release)
    BY <1>2 DEF DispatchedEntry
  <2> HIDE DEF c
  <2>4. /\ pending[c].gen \in Nat /\ pending[c].owner \in MemberKeys
        /\ pending[c].keys \in SUBSET MemberKeys /\ pending[c].release \in Nat
    BY <2>2 DEF EntryType
  <2>5. pending[c].gen <= presses
    BY <2>1 DEF Entries
  <2> QED
    BY <1>1, <2>1, <2>3, <2>4, <2>5
<1>3. CASE ForDispatch = Nothing /\ Untracked # Nothing
  <2> DEFINE u == Untracked
             g == Max({seq[k] : k \in Members(u)})
  <2>1. u \in Combos /\ Owner(u) \in MemberKeys /\ Members(u) \subseteq MemberKeys /\ Members(u) # {}
    BY <1>3, UntrackedIs, Chords
  <2>2. DispatchedEntry = Cached(u, g, Owner(u), Members(u), 0)
    BY <1>3 DEF DispatchedEntry
  <2>3. seq \in [MemberKeys -> Nat] /\ presses \in Nat /\ \A k \in MemberKeys : seq[k] <= presses
    BY DEF Typed, KeysTyped
  <2> HIDE DEF u
  <2>4. g \in 0 .. presses
    BY <2>1, <2>3, LatestIs
  <2> HIDE DEF g
  <2> QED
    BY <1>1, <2>1, <2>2, <2>3, <2>4
<1>4. CASE ForDispatch = Nothing /\ Untracked = Nothing
  <2>1. DispatchedEntry = Cached(Nothing, 0, FallbackOwner, MemberKeys, 0)
    BY <1>4 DEF DispatchedEntry
  <2>2. FallbackOwner \in MemberKeys \cup {Nothing} /\ presses \in Nat
    BY FallbackIs DEF Typed, KeysTyped
  <2> QED
    BY <1>1, <2>1, <2>2
<1> QED
  BY <1>2, <1>3, <1>4

LEMMA DispatchPressIs ==
  ASSUME NEW r, DispatchPress(r)
  PROVE  /\ cache' = Place(DispatchedEntry) /\ pending' = Taken(ForDispatch)
         /\ sent' = [rec |-> r, owner |-> DispatchedEntry.owner, keys |-> DispatchedEntry.keys]
BY DEF DispatchPress, DispatchedEntry

LEMMA DispatchPressInv ==
  ASSUME ComboInv, NEW r, Lets(r), r.down, DispatchPress(r) PROVE ComboInv'
<1> DEFINE c == ForDispatch
<1>1. UNCHANGED <<flag, presses, replaced, tapping, prepared, seq, dumping, pass, tapQueue, parked>>
  BY DEF Lets
<1>2. cache' = Place(DispatchedEntry) /\ pending' = [d \in Combos |-> IF d = c THEN Nothing ELSE pending[d]]
  BY DispatchPressIs DEF Taken
<1>3. DispatchedEntry \in CacheType /\ DispatchedEntry.gen <= presses
  BY DispatchedIs DEF ComboInv
<1>4. /\ Met = {} => c = Nothing \/ c \in Unmet
      /\ Met # {} => c \in Met
  BY DispatchIs, DeliveryIs DEF ComboInv, Typed
<1>4a. ~replaced /\ Passing("in") = {r} => c = r.combo /\ c \in Met /\ Its(r, c)
  BY FirstAhead DEF ComboInv
<1>5. /\ cache' \in [Slots -> CacheType \cup {Nothing}]
      /\ \A s \in Slots : cache'[s] = cache[s] \/ cache'[s] = DispatchedEntry
  BY <1>2, <1>3, PlaceIs DEF ComboInv, Typed, TablesTyped
<1>6. TablesTyped'
  BY <1>2, <1>5 DEF ComboInv, Typed, TablesTyped, Lets, Slots
<1> HIDE DEF c
<1>7. /\ Typed' /\ Lined' /\ Behind' = Behind /\ r \in OutputType /\ Passing("in") = {r}
      /\ Ahead' = Ahead \ {r} /\ r \in Ahead /\ Downs(tapQueue)' = Downs(tapQueue)
  BY <1>6, LetsIs DEF ComboInv
<1>8. \A d \in Combos : /\ Has(d)' <=> Has(d) /\ d # c
                        /\ d # c => pending'[d] = pending[d]
  BY <1>2 DEF Has
<1>9. \A d \in Combos : Active(d)' <=> Active(d)
  BY <1>1 DEF Active
<1>10. Entries'
  BY <1>1, <1>3, <1>5, <1>8, <1>9 DEF ComboInv, Entries
<1>11. Candidates'
  <2> SUFFICES ASSUME NEW d \in Combos, Has(d)', ~pending'[d].pressed, Fired(d)'
               PROVE  \E p \in Behind' : Its(p, d)'
    BY DEF Candidates
  <2>1. Has(d) /\ ~pending[d].pressed /\ Fired(d) /\ pending'[d] = pending[d]
    BY <1>8, <1>9 DEF Fired
  <2>2. PICK p \in Behind : Its(p, d)
    BY <2>1 DEF ComboInv, Candidates
  <2> QED
    BY <1>7, <2>1, <2>2 DEF Its
<1>12. Met' = Met \ {c}
  BY <1>8 DEF Met
<1>13. Tallied'
  <2>1. Cardinality(Ahead') = Cardinality(Ahead) - 1
    BY <1>7, AheadFinite, FS_RemoveElement DEF ComboInv
  <2>2. Cardinality(Met) \in Nat /\ IsFiniteSet(Met) /\ Cardinality(Ahead) \in Nat
    BY MetFinite, AheadFinite DEF ComboInv
  <2>3. CASE Met = {}
    <3>1. Met' = {}
      BY <1>12, <2>3
    <3>2. Cardinality(Met') = 0
      BY <3>1, FS_EmptySet
    <3>3. IsFiniteSet(Ahead') /\ Cardinality(Ahead') \in Nat
      BY <1>7, AheadFinite, FS_RemoveElement, FS_CardinalityType DEF ComboInv
    <3> QED
      BY <3>2, <3>3 DEF Tallied
  <2>4. CASE Met # {}
    <3>1. Cardinality(Met') = Cardinality(Met) - 1
      BY <1>4, <1>12, <2>2, <2>4, FS_RemoveElement
    <3> QED
      BY <2>1, <2>2, <3>1 DEF Tallied, ComboInv
  <2> QED
    BY <2>3, <2>4
<1>14. ASSUME ~replaced' PROVE Known'
  <2>0. ~replaced
    BY <1>1, <1>14
  <2>1. /\ \A p \in Behind : MeetsEntry(p) /\ ~pending[p.combo].pressed
        /\ \A p \in Ahead : MeetsEntry(p) /\ pending[p.combo].pressed
        /\ \A p \in Downs(tapQueue) : tapping # Nothing => pending[p.combo].age <= tapping
        /\ \A d \in Met : \E p \in Ahead : Its(p, d)
    BY <2>0 DEF ComboInv, Known
  <2>2. c = r.combo /\ c \in Met /\ Its(r, c)
    BY <1>4a, <1>7, <2>0
  <2>3. \A p \in Ahead \cup Behind : p.combo \in Combos /\ p.gen \in Nat
    BY OnTheWay DEF ComboInv
  <2>4. \A p : p.combo \in Combos /\ p.combo # c /\ MeetsEntry(p) => MeetsEntry(p)'
    BY <1>8, <1>9 DEF MeetsEntry, Its, Fired
  <2>5. ASSUME NEW p \in Behind' PROVE MeetsEntry(p)' /\ ~pending'[p.combo].pressed
    <3>1. p \in Behind /\ p.combo # c
      BY <1>7, <2>1, <2>2, <2>5 DEF Met
    <3> QED
      BY <1>8, <2>1, <2>3, <2>4, <3>1
  <2>6. ASSUME NEW p \in Ahead' PROVE MeetsEntry(p)' /\ pending'[p.combo].pressed
    <3>1. p \in Ahead /\ p # r
      BY <1>7, <2>6
    <3>2. r.gen < p.gen
      BY <1>7, <3>1 DEF ComboInv, Lined, Before, Ahead
    <3>3. p.combo # c
      BY <2>1, <2>2, <2>3, <3>1, <3>2, <1>7 DEF MeetsEntry, Its
    <3> QED
      BY <1>8, <2>1, <2>3, <2>4, <3>1, <3>3
  <2>7. ASSUME NEW p \in Downs(tapQueue)', tapping' # Nothing PROVE pending'[p.combo].age <= tapping'
    <3>1. p \in Behind /\ p \in Downs(tapQueue)
      BY <1>7, <2>7 DEF Behind
    <3>2. p.combo # c
      BY <2>1, <2>2, <3>1 DEF Met
    <3> QED
      BY <1>1, <1>8, <2>1, <2>3, <2>7, <3>1, <3>2
  <2>8. ASSUME NEW d \in Met' PROVE \E p \in Ahead' : Its(p, d)'
    <3>1. d \in Met /\ d # c /\ d \in Combos
      BY <1>12 DEF Met
    <3>2. PICK p \in Ahead : Its(p, d)
      BY <2>1, <3>1
    <3>3. p # r
      BY <2>2, <3>1, <3>2 DEF Its
    <3> QED
      BY <1>7, <1>8, <3>1, <3>2, <3>3 DEF Its
  <2> QED
    BY <2>5, <2>6, <2>7, <2>8 DEF Known
<1>15. Known'
  BY <1>14 DEF Known
<1>16. Ready'
  <2>1. ASSUME NEW i \in DOMAIN prepared PROVE Waiting(prepared[i])'
    <3>0. PICK p : p = prepared[i]
      OBVIOUS
    <3>1. Waiting(p) /\ p.combo \in Combos
      BY <3>0, PreparedIs DEF ComboInv, Ready
    <3>2. p.combo # c
      <4>1. ~Fired(p.combo) /\ ~pending[p.combo].pressed
        BY <3>1 DEF Waiting, Fired, Active
      <4>2. c # Nothing => Fired(c) \/ pending[c].pressed
        BY <1>4 DEF Met, Unmet
      <4> QED
        BY <3>1, <4>1, <4>2, NothingElse
    <3>3. Has(p.combo)' /\ pending'[p.combo] = pending[p.combo]
      BY <1>8, <3>1, <3>2 DEF Waiting
    <3>4. Whole(p.combo, p.gen)' <=> Whole(p.combo, p.gen)
      BY <1>1 DEF Whole
    <3>5. Waiting(p)'
      BY <1>1, <3>1, <3>3, <3>4 DEF Waiting, Its
    <3> QED
      BY <1>1, <3>0, <3>5
  <2> QED
    BY <1>1, <2>1 DEF ComboInv, Ready
<1>17. Kept'
  BY <1>1 DEF ComboInv, Kept
<1> QED
  BY <1>7, <1>10, <1>11, <1>13, <1>15, <1>16, <1>17 DEF ComboInv

LEMMA DispatchLets ==
  ASSUME Dispatch PROVE Lets(now.rec) /\ (IF now.rec.down THEN DispatchPress(now.rec) ELSE DispatchRelease(now.rec))
BY DEF Dispatch, Lets, physical, engine, waiting

LEMMA DispatchInv == ASSUME ComboInv, Dispatch PROVE ComboInv'
BY DispatchLets, DispatchPressInv, DispatchReleaseInv

(* The property itself: what is dispatched for a press, unless one took      *)
(* another's place.                                                          *)
LEMMA DispatchMeets ==
  ASSUME ComboInv, Dispatch, now.rec.down, ~replaced'
  PROVE  sent'.owner = Owner(sent'.rec.combo) /\ sent'.keys = Members(sent'.rec.combo)
<1> DEFINE r == now.rec
<1>1. Lets(r) /\ DispatchPress(r)
  BY DispatchLets
<1>2. Passing("in") = {r} /\ ~replaced
  BY <1>1 DEF Lets, Passing
<1>3. ForDispatch = r.combo /\ r.combo \in Met
  BY <1>2, FirstAhead DEF ComboInv
<1>4. sent' = [rec |-> r, owner |-> DispatchedEntry.owner, keys |-> DispatchedEntry.keys]
  BY <1>1, DispatchPressIs
<1>5. r.combo \in Combos /\ Has(r.combo)
  BY <1>3 DEF Met
<1>6. DispatchedEntry.owner = pending[r.combo].owner /\ DispatchedEntry.keys = pending[r.combo].keys
  BY <1>3, <1>5, NothingElse DEF DispatchedEntry, Cached
<1> QED
  BY <1>4, <1>5, <1>6 DEF ComboInv, Entries

(* QMK fires what it prepared.                                               *)

LEMMA Rest ==
  ASSUME NEW q \in Seq(OutputType), q # <<>>, NEW p, p = Tail(q)
  PROVE  /\ \A i \in DOMAIN p : i + 1 \in DOMAIN q /\ p[i] = q[i + 1]
         /\ 1 \in DOMAIN q /\ q[1] = Head(q) /\ (\A i \in DOMAIN p : i \in Nat \ {0} /\ Len(q) > 1)
OBVIOUS

LEMMA EmitIs ==
  ASSUME NEW r \in OutputType, tapQueue \in Seq(OutputType), now = Nothing, parked' = parked,
         r.down /\ tapping = Nothing => tapQueue = <<>>,
         InLine(tapQueue), r.down => Before(Downs(tapQueue), {r}), Emit(r)
  PROVE  /\ tapQueue' \in Seq(OutputType) /\ now' \in NowType \cup {Nothing} /\ InLine(tapQueue)'
         /\ Passing("in")' = {} /\ Before(Passing("out")', Downs(tapQueue)')
         /\ Ahead' = Ahead /\ Behind' = (IF r.down THEN Behind \cup {r} ELSE Behind)
         /\ Downs(tapQueue)' \subseteq Downs(tapQueue) \cup (IF r.down THEN {r} ELSE {})
         /\ tapping = Nothing => tapQueue' = tapQueue
<1>1. \/ tapping # Nothing /\ tapQueue' = Append(tapQueue, r) /\ now' = Nothing
      \/ tapQueue' = tapQueue /\ now' = [at |-> "out", rec |-> r] /\ (r.down => tapping = Nothing)
  BY DEF Emit
<1>2. Passing("in") = {} /\ Passing("out") = {} /\ Downs(parked)' = Downs(parked)
  BY PassingIs
<1>3. CASE tapping # Nothing /\ tapQueue' = Append(tapQueue, r) /\ now' = Nothing
  <2>1. /\ tapQueue' \in Seq(OutputType) /\ InLine(tapQueue)'
        /\ r.down => Downs(tapQueue)' = Downs(tapQueue) \cup {r}
        /\ ~r.down => Downs(tapQueue)' = Downs(tapQueue)
    BY <1>3, Appended
  <2>2. Passing("out")' = {} /\ Passing("in")' = {}
    BY <1>3 DEF Passing
  <2> QED
    BY <1>2, <1>3, <2>1, <2>2 DEF Ahead, Behind, Before
<1>4. CASE tapQueue' = tapQueue /\ now' = [at |-> "out", rec |-> r] /\ (r.down => tapping = Nothing)
  <2>1. /\ now' \in NowType /\ Passing("out")' = (IF r.down THEN {r} ELSE {}) /\ Passing("in")' = {}
    BY <1>4, PassingNext
  <2>2. Downs(tapQueue)' = Downs(tapQueue) /\ (r.down => Downs(tapQueue) = {}) /\ InLine(tapQueue)'
    BY <1>4 DEF Downs
  <2> QED
    BY <1>2, <1>4, <2>1, <2>2 DEF Ahead, Behind, Before
<1> QED
  BY <1>1, <1>3, <1>4

LEMMA FireInv == ASSUME ComboInv, Fire PROVE ComboInv'
<1>1. /\ dumping /\ now = Nothing /\ prepared # <<>> /\ Emit(Head(prepared))
      /\ flag' = [flag EXCEPT ![Head(prepared).combo] = "active"]
      /\ prepared' = Tail(prepared) /\ dumping' = (Len(prepared) > 1)
      /\ UNCHANGED <<seq, presses, sincePress, lastPress, tables, counted, tapping, parked, pass, replaced>>
  BY DEF Fire, physical, ComboInv, Kept
<1>2. PICK r : r = Head(prepared)
  OBVIOUS
<1>3. /\ prepared' \in Seq(OutputType) /\ r \in OutputType /\ (prepared' = <<>> <=> Len(prepared) <= 1)
      /\ r.down => Downs(prepared) = Downs(prepared)' \cup {r}
      /\ InLine(prepared) => InLine(prepared)' /\ (r.down => Before({r}, Downs(prepared)'))
  <2>1. prepared \in Seq(OutputType)
    BY DEF ComboInv, Typed, QueuesTyped
  <2>2. prepared # <<>> /\ prepared' = Tail(prepared)
    BY <1>1
  <2> QED
    BY <1>2, <2>1, <2>2, Headed
<1>4. /\ \A i \in DOMAIN prepared' : /\ i + 1 \in DOMAIN prepared /\ prepared'[i] = prepared[i + 1]
                                     /\ i \in Nat \ {0} /\ Len(prepared) > 1
      /\ 1 \in DOMAIN prepared /\ prepared[1] = r
  BY <1>1, <1>2, Rest DEF ComboInv, Typed, QueuesTyped
<1>5. /\ r.down /\ Has(r.combo) /\ Its(r, r.combo) /\ r.combo \in Combos
      /\ ~pending[r.combo].pressed /\ ~pending[r.combo].applied
  BY <1>3, <1>4 DEF ComboInv, Ready, Waiting, OutputType
<1>6. tapQueue \in Seq(OutputType) /\ InLine(tapQueue) /\ (tapping = Nothing => tapQueue = <<>>)
  BY <1>1 DEF ComboInv, Typed, QueuesTyped, Lined, Kept
<1>7. Before(Ahead \cup Behind, {r}) /\ Before(Downs(tapQueue), {r}) /\ r \in Downs(prepared)
  <2>1. r \in Downs(prepared)
    BY <1>3, <1>5
  <2>2. Downs(tapQueue) \subseteq Behind
    BY DEF Behind
  <2> QED
    BY <2>1, <2>2 DEF ComboInv, Lined, Before
<1>8. /\ tapQueue' \in Seq(OutputType) /\ now' \in NowType \cup {Nothing} /\ InLine(tapQueue)'
      /\ Passing("in")' = {} /\ Before(Passing("out")', Downs(tapQueue)')
      /\ Ahead' = Ahead /\ Behind' = Behind \cup {r}
      /\ Downs(tapQueue)' \subseteq Downs(tapQueue) \cup {r}
      /\ tapping = Nothing => tapQueue' = tapQueue
  BY <1>1, <1>2, <1>3, <1>5, <1>6, <1>7, EmitIs
<1>9. flag \in [Combos -> {"idle", "prepared", "active", "spent"}]
  BY DEF ComboInv, Typed, EngineTyped
<1>10. /\ flag' \in [Combos -> {"idle", "prepared", "active", "spent"}] /\ Active(r.combo)'
       /\ \A c \in Combos : c # r.combo => flag'[c] = flag[c]
  BY <1>1, <1>2, <1>5, <1>9 DEF Active
<1>11. Typed'
  <2>1. KeysTyped'
    BY <1>1 DEF ComboInv, Typed, KeysTyped
  <2>2. EngineTyped'
    BY <1>1, <1>10 DEF ComboInv, Typed, EngineTyped
  <2>3. QueuesTyped'
    BY <1>1, <1>3, <1>8 DEF ComboInv, Typed, QueuesTyped
  <2>4. TablesTyped'
    BY <1>1 DEF ComboInv, Typed, TablesTyped, tables, Slots
  <2> QED
    BY <2>1, <2>2, <2>3, <2>4 DEF Typed
<1>12. \A c \in Combos : /\ (Has(c)' <=> Has(c)) /\ pending'[c] = pending[c]
                         /\ Fired(c) => Fired(c)'
                         /\ c # r.combo => (Fired(c)' <=> Fired(c))
  BY <1>1, <1>10 DEF Has, Fired, Active, tables
<1>13. Entries'
  BY <1>1, <1>12 DEF ComboInv, Entries, tables
<1>14. Lined'
  <2>1. InLine(parked)' /\ InLine(tapQueue)' /\ InLine(prepared)'
    BY <1>1, <1>3, <1>8 DEF ComboInv, Lined
  <2>2. Before(Passing("in")', Downs(parked)') /\ Before(Passing("out")', Downs(tapQueue)')
    BY <1>8 DEF Before
  <2>3. Before(Ahead', Behind')
    BY <1>7, <1>8 DEF ComboInv, Lined, Before
  <2>4. Before(Ahead' \cup Behind', Downs(prepared)')
    BY <1>3, <1>5, <1>8 DEF ComboInv, Lined, Before
  <2>5. Recent(Ahead)' /\ Recent(Behind)' /\ Recent(Downs(prepared))'
    BY <1>1, <1>3, <1>5, <1>7, <1>8 DEF ComboInv, Lined, Recent
  <2> QED
    BY <2>1, <2>2, <2>3, <2>4, <2>5 DEF Lined
<1>15. Candidates'
  <2> SUFFICES ASSUME NEW c \in Combos, Has(c)', ~pending'[c].pressed, Fired(c)'
               PROVE  \E p \in Behind' : Its(p, c)'
    BY DEF Candidates
  <2>1. CASE c = r.combo
    BY <1>5, <1>8, <1>12, <2>1 DEF Its
  <2>2. CASE c # r.combo
    <3>1. PICK p \in Behind : Its(p, c)
      BY <1>12, <2>2 DEF ComboInv, Candidates
    <3> QED
      BY <1>8, <1>12, <3>1 DEF Its
  <2> QED
    BY <2>1, <2>2
<1>16. Met' = Met
  BY <1>12 DEF Met
<1>17. Tallied'
  BY <1>8, <1>16 DEF ComboInv, Tallied
<1>18. ASSUME ~replaced' PROVE Known'
  <2>0. ~replaced
    BY <1>1, <1>18
  <2>1. /\ \A p \in Behind : MeetsEntry(p) /\ ~pending[p.combo].pressed
        /\ \A p \in Ahead : MeetsEntry(p) /\ pending[p.combo].pressed
        /\ \A p \in Downs(tapQueue) : tapping # Nothing => pending[p.combo].age <= tapping
        /\ \A d \in Met : \E p \in Ahead : Its(p, d)
    BY <2>0 DEF ComboInv, Known
  <2>2. \A p \in Ahead \cup Behind : p.combo \in Combos /\ p.gen \in Nat
    BY OnTheWay DEF ComboInv
  <2>3. \A p : p.combo \in Combos /\ MeetsEntry(p) => MeetsEntry(p)'
    BY <1>12 DEF MeetsEntry, Its
  <2>4. MeetsEntry(r)'
    BY <1>5, <1>10, <1>12 DEF MeetsEntry, Its, Fired
  <2>5. \A p \in Behind' : MeetsEntry(p)' /\ ~pending'[p.combo].pressed
    BY <1>5, <1>8, <1>12, <2>1, <2>2, <2>3, <2>4
  <2>6. \A p \in Ahead' : MeetsEntry(p)' /\ pending'[p.combo].pressed
    BY <1>8, <1>12, <2>1, <2>2, <2>3
  <2>7. ASSUME NEW p \in Downs(tapQueue)', tapping' # Nothing PROVE pending'[p.combo].age <= tapping'
    <3>1. CASE p = r
      <4>1. pending[r.combo].age = 0
        BY <1>5 DEF ComboInv, Entries
      <4>2. tapping' \in Nat
        BY <1>1, <2>7 DEF ComboInv, Typed, QueuesTyped
      <4> QED
        BY <1>5, <1>12, <3>1, <4>1, <4>2
    <3>2. CASE p # r
      <4>1. p \in Downs(tapQueue) /\ p \in Behind /\ tapping' = tapping
        BY <1>1, <1>8, <2>7, <3>2 DEF Behind
      <4> QED
        BY <1>12, <2>1, <2>2, <2>7, <4>1
    <3> QED
      BY <3>1, <3>2
  <2>8. ASSUME NEW d \in Met' PROVE \E p \in Ahead' : Its(p, d)'
    BY <1>8, <1>12, <1>16, <2>1 DEF Its, Met
  <2> QED
    BY <2>5, <2>6, <2>7, <2>8 DEF Known
<1>19. Known'
  BY <1>18 DEF Known
<1>20. Ready'
  <2>1. ASSUME NEW i \in DOMAIN prepared' PROVE Waiting(prepared[i])'
    <3>1. PICK p : p = prepared[i + 1]
      OBVIOUS
    <3>2. i + 1 \in DOMAIN prepared /\ prepared'[i] = p /\ i + 1 # 1 /\ dumping'
      <4>1. i + 1 \in DOMAIN prepared /\ i \in Nat \ {0} /\ Len(prepared) > 1 /\ prepared'[i] = p
        BY <1>4, <3>1
      <4>2. i + 1 # 1
        BY <4>1
      <4> QED
        BY <1>1, <4>1, <4>2
    <3>3. Waiting(p) /\ p.combo \in Combos
      BY <3>1, <3>2, PreparedIs DEF ComboInv, Ready
    <3>4. p.combo # r.combo
      BY <1>4, <3>1, <3>2 DEF ComboInv, Ready
    <3>5. flag'[p.combo] = flag[p.combo] /\ pending'[p.combo] = pending[p.combo]
      BY <1>10, <1>12, <3>3, <3>4
    <3>6. Waiting(p)'
      BY <3>2, <3>3, <3>5 DEF Waiting, Has, Its
    <3> QED
      BY <3>2, <3>6
  <2>2. ASSUME NEW i \in DOMAIN prepared', NEW j \in DOMAIN prepared', prepared'[i].combo = prepared'[j].combo
        PROVE  i = j
    <3>1. i + 1 = j + 1
      BY <1>4, <2>2 DEF ComboInv, Ready
    <3> QED
      BY <1>4, <3>1
  <2> QED
    BY <2>1, <2>2 DEF Ready
<1>21. Kept'
  <2>1. Len(prepared) \in Nat
    BY DEF ComboInv, Typed, QueuesTyped
  <2>2. dumping' => prepared' # <<>>
    <3>1. (prepared' = <<>> <=> Len(prepared) <= 1) /\ (dumping' => Len(prepared) > 1)
      BY <1>1, <1>3
    <3>2. Len(prepared) > 1 => ~(Len(prepared) <= 1)
      BY <2>1
    <3> QED
      BY <3>1, <3>2
  <2>3. tapping' = Nothing => tapQueue' = <<>>
    BY <1>1, <1>6, <1>8
  <2>4. pass' = "replay" => parked' # <<>>
    BY <1>1 DEF ComboInv, Kept
  <2> QED
    BY <2>2, <2>3, <2>4 DEF Kept
<1> QED
  BY <1>11, <1>13, <1>14, <1>15, <1>17, <1>19, <1>20, <1>21 DEF ComboInv

(* A pass ends, t ticks later.                                               *)

LEMMA MinOfTwo == ASSUME NEW a \in Nat, NEW b \in Nat PROVE Min({a, b}) \in Nat /\ Min({a, b}) <= a /\ Min({a, b}) <= b
<1>1. {a, b} \subseteq Nat /\ {a, b} # {}
  OBVIOUS
<1>2. Min({a, b}) \in {a, b} /\ \A j \in {a, b} : Min({a, b}) <= j
  BY <1>1, MinIs
<1> QED
  BY <1>2

LEMMA LaterIs ==
  ASSUME NEW e \in EntryType, NEW t \in 0 .. 1, NEW l, l = Later(e, t), ~e.applied => e.age = 0
  PROVE  /\ l \in EntryType /\ l.gen = e.gen /\ l.keys = e.keys /\ l.owner = e.owner
         /\ l.pressed = e.pressed /\ l.applied = e.applied
         /\ l.age <= e.age + t /\ (~l.applied => l.age = 0)
<1>1. Term \in Nat /\ e.age \in Nat /\ e # Nothing
  BY ComboOriginAssumption, NothingElse DEF EntryType
<1>2. CASE t = 0 \/ ~e.applied
  <2>1. l = e
    BY <1>1, <1>2 DEF Later
  <2> QED
    BY <1>1, <2>1
<1>3. CASE t = 1 /\ e.applied
  <2> DEFINE m == Min({e.age + 1, Term + 1})
  <2>1. m \in Nat /\ m <= e.age + 1
    BY <1>1, MinOfTwo
  <2>2. l = [e EXCEPT !.age = m]
    BY <1>1, <1>3 DEF Later
  <2> HIDE DEF m
  <2> QED
    BY <1>3, <2>1, <2>2 DEF EntryType
<1> QED
  BY <1>2, <1>3

(* What the scan leaves of an entry.                                         *)
Scanned(c, t) ==
  /\ Has(c)' => /\ Has(c) /\ pending'[c].gen = pending[c].gen /\ pending'[c].keys = pending[c].keys
                /\ pending'[c].owner = pending[c].owner /\ pending'[c].pressed = pending[c].pressed
                /\ (pending'[c].applied <=> Fired(c))
                /\ pending'[c].age <= pending[c].age + t /\ (~pending'[c].applied => pending'[c].age = 0)
  /\ /\ Has(c) /\ (Fired(c) \/ ~Disabled(c))
     /\ \/ Active(c) \/ pending[c].pressed
        \/ IF pending[c].applied THEN pending[c].age + t <= Term ELSE sincePress + t <= Wait
     => Has(c)'

LEMMA ScannedIs ==
  ASSUME Typed, Entries, NEW t \in 0 .. 1,
         pending' = [c \in Combos |-> IF pending[c] = Nothing THEN Nothing
                                      ELSE Reconciled(c, Later(pending[c], t), sincePress + t, TRUE)]
  PROVE  /\ pending' \in [Combos -> EntryType \cup {Nothing}] /\ \A c \in Combos : Scanned(c, t)
<1> SUFFICES ASSUME NEW c \in Combos PROVE pending'[c] \in EntryType \cup {Nothing} /\ Scanned(c, t)
  OBVIOUS
<1>0. PICK p : p = pending'[c]
  OBVIOUS
<1>1. CASE ~Has(c)
  <2>1. p = Nothing
    BY <1>0, <1>1 DEF Has
  <2> QED
    BY <1>0, <1>1, <2>1 DEF Scanned, Has
<1>2. CASE Has(c)
  <2>1. PICK e : e = pending[c]
    OBVIOUS
  <2>2. PICK l : l = Later(e, t)
    OBVIOUS
  <2>3. e \in EntryType /\ (~e.applied => e.age = 0) /\ e # Nothing
    BY <1>2, <2>1, HasEntry DEF Typed, Entries, Has
  <2>4. /\ l \in EntryType /\ l.gen = e.gen /\ l.keys = e.keys /\ l.owner = e.owner
        /\ l.pressed = e.pressed /\ l.applied = e.applied
        /\ l.age <= e.age + t /\ (~l.applied => l.age = 0)
    BY <2>2, <2>3, LaterIs
  <2>5. PICK since \in Nat : since = sincePress + t
    BY DEF Typed, KeysTyped
  <2>6. p = Reconciled(c, l, since, TRUE)
    BY <1>0, <2>1, <2>2, <2>3, <2>5
  <2>7. /\ p \in EntryType \cup {Nothing}
        /\ p # Nothing => Same(l, p) /\ (p.applied <=> l.applied \/ Active(c))
        /\ /\ l.applied \/ Active(c) \/ ~Disabled(c)
           /\ Active(c) \/ l.pressed \/ IF l.applied THEN l.age <= Term ELSE since <= Wait
           => p # Nothing
    BY <2>4, <2>6, ReconciledIs
  <2>8. ASSUME p # Nothing
        PROVE  /\ p.gen = e.gen /\ p.keys = e.keys /\ p.owner = e.owner /\ p.pressed = e.pressed
               /\ p.applied <=> e.applied \/ Active(c)
               /\ p.age <= e.age + t /\ (~p.applied => p.age = 0)
    BY <2>4, <2>7, <2>8 DEF Same
  <2>9. l.age <= e.age + t /\ e.age + t <= Term => l.age <= Term
    BY <2>3, <2>4, ComboOriginAssumption DEF EntryType
  <2>10. ASSUME e.applied \/ Active(c) \/ ~Disabled(c),
                Active(c) \/ e.pressed \/ IF e.applied THEN e.age + t <= Term ELSE since <= Wait
         PROVE  p # Nothing
    BY <2>4, <2>7, <2>9, <2>10
  <2> QED
    BY <1>0, <1>2, <2>1, <2>5, <2>7, <2>8, <2>10 DEF Scanned, Has, Fired
<1> QED
  BY <1>1, <1>2

LEMMA PassTyped ==
  ASSUME Typed, NEW t \in 0 .. 1, PassOver(t), pending' \in [Combos -> EntryType \cup {Nothing}] PROVE Typed'
<1>1. /\ sincePress' = Min({sincePress + t, Wait + 1})
      /\ tapping' = (IF tapping = Nothing THEN Nothing ELSE tapping + t)
      /\ pass' \in {"events", "replay"} /\ replaced' \in BOOLEAN
      /\ UNCHANGED <<seq, presses, lastPress, cache, deliveries, flag, counted, prepared, dumping,
                     tapQueue, parked, now>>
  BY DEF PassOver, engine
<1>2. sincePress' \in Nat
  <2>1. sincePress \in Nat /\ Wait \in Nat
    BY ComboOriginAssumption DEF Typed, KeysTyped
  <2>2. sincePress + t \in Nat /\ Wait + 1 \in Nat
    BY <2>1
  <2>3. Min({sincePress + t, Wait + 1}) \in Nat
    BY <2>2, MinOfTwo
  <2> QED
    BY <1>1, <2>3
<1>3. KeysTyped'
  BY <1>1, <1>2 DEF Typed, KeysTyped
<1>4. EngineTyped'
  BY <1>1 DEF Typed, EngineTyped
<1>5. tapping' \in Nat \cup {Nothing}
  BY <1>1 DEF Typed, QueuesTyped
<1>6. QueuesTyped'
  BY <1>1, <1>5 DEF Typed, QueuesTyped
<1>7. TablesTyped'
  BY <1>1 DEF Typed, TablesTyped, Slots
<1> QED
  BY <1>3, <1>4, <1>6, <1>7 DEF Typed

LEMMA PassInv == ASSUME FireTerm < Wait, ComboInv, NEW t \in 0 .. 1, PassOver(t) PROVE ComboInv'
<1>1. /\ now = Nothing /\ ~dumping /\ (tapping # Nothing \/ tapQueue = <<>>)
      /\ (prepared # <<>> => ~(sincePress > FireTerm)) /\ (tapping # Nothing => tapping < Term)
      /\ tapping' = (IF tapping = Nothing THEN Nothing ELSE tapping + t)
      /\ pending' = [c \in Combos |-> IF pending[c] = Nothing THEN Nothing
                                      ELSE Reconciled(c, Later(pending[c], t), sincePress + t, TRUE)]
      /\ pass' = (IF tapHold \/ parked = <<>> THEN "events" ELSE "replay")
      /\ ~replaced' /\ replaced => parked = <<>> /\ tapQueue = <<>>
      /\ UNCHANGED <<seq, presses, lastPress, cache, deliveries, flag, counted, prepared, dumping,
                     tapQueue, parked, now>>
  <2>1. /\ now = Nothing /\ ~dumping /\ (tapping # Nothing \/ tapQueue = <<>>)
        /\ (prepared # <<>> => ~(sincePress > FireTerm)) /\ (tapping # Nothing => tapping < Term)
    <3>1. /\ Idle /\ ~(prepared # <<>> /\ sincePress > FireTerm)
          /\ IF tapping = Nothing THEN TRUE ELSE tapping < Term
      BY DEF PassOver
    <3> QED
      BY <3>1 DEF Idle
  <2>2. ~replaced' /\ replaced => parked = <<>> /\ tapQueue = <<>>
    BY DEF PassOver
  <2> QED
    BY <2>1, <2>2 DEF PassOver, engine
<1>2. pending' \in [Combos -> EntryType \cup {Nothing}] /\ \A c \in Combos : Scanned(c, t)
  BY <1>1, ScannedIs DEF ComboInv
<1>3. Typed'
  BY <1>2, PassTyped DEF ComboInv
<1>4. Lined' /\ Ahead' = Ahead /\ Behind' = Behind
  BY <1>1, LinedRests DEF ComboInv, QueuesRest
<1>5. \A c \in Combos : Active(c)' <=> Active(c)
  BY <1>1 DEF Active
<1>6. Entries'
  <2>1. ASSUME NEW c \in Combos, Has(c)'
        PROVE  /\ pending'[c].owner = Owner(c) /\ pending'[c].keys = Members(c)
               /\ pending'[c].gen <= presses' /\ (~pending'[c].applied => pending'[c].age = 0)
    BY <1>1, <1>2, <2>1 DEF ComboInv, Entries, Scanned
  <2>2. \A s \in Slots : cache'[s] # Nothing => cache'[s].gen <= presses'
    BY <1>1 DEF ComboInv, Entries
  <2> QED
    BY <2>1, <2>2 DEF Entries, Slots
<1>7. Candidates'
  <2> SUFFICES ASSUME NEW c \in Combos, Has(c)', ~pending'[c].pressed, Fired(c)'
               PROVE  \E p \in Behind' : Its(p, c)'
    BY DEF Candidates
  <2>1. Has(c) /\ ~pending[c].pressed /\ Fired(c) /\ pending'[c].gen = pending[c].gen
    BY <1>2, <1>5 DEF Scanned, Fired
  <2>2. PICK p \in Behind : Its(p, c)
    BY <2>1 DEF ComboInv, Candidates
  <2> QED
    BY <1>4, <2>1, <2>2 DEF Its
<1>8. Met' \subseteq Met
  BY <1>2 DEF Met, Scanned
<1>9. Tallied'
  <2>1. IsFiniteSet(Met') /\ Cardinality(Met') <= Cardinality(Met)
    BY <1>8, MetFinite, FS_Subset
  <2>2. Cardinality(Met') \in Nat
    BY <2>1, FS_CardinalityType
  <2> QED
    BY <1>4, <2>1, <2>2, MetFinite, AheadFinite DEF ComboInv, Tallied
<1>10. \A p \in Ahead \cup Behind : p.combo \in Combos
  BY OnTheWay DEF ComboInv
<1>11. Passing("in") = {} /\ Passing("out") = {}
  BY <1>1, PassingIs
<1>12. ASSUME ~replaced', ~replaced PROVE Known'
  <2>1. /\ \A p \in Behind : MeetsEntry(p) /\ ~pending[p.combo].pressed
        /\ \A p \in Ahead : MeetsEntry(p) /\ pending[p.combo].pressed
        /\ \A p \in Downs(tapQueue) : tapping # Nothing => pending[p.combo].age <= tapping
        /\ \A d \in Met : \E p \in Ahead : Its(p, d)
    BY <1>12 DEF ComboInv, Known
  <2>2. Behind = Downs(tapQueue) /\ Downs(tapQueue)' = Downs(tapQueue)
    BY <1>1, <1>11 DEF Behind
  <2>3. ASSUME NEW p \in Ahead \cup Behind, Has(p.combo)'
        PROVE  MeetsEntry(p)' /\ (pending'[p.combo].pressed <=> pending[p.combo].pressed)
    BY <1>2, <1>10, <2>1, <2>3 DEF Scanned, MeetsEntry, Its, Fired
  <2>4. ASSUME NEW p \in Behind
        PROVE  Has(p.combo)' /\ tapping # Nothing /\ pending'[p.combo].age <= tapping'
    <3>1. tapping # Nothing
      BY <1>1, <2>2, <2>4 DEF Downs
    <3>2. tapping \in Nat /\ Term \in Nat /\ tapping < Term /\ tapping' = tapping + t
      BY <1>1, <3>1, ComboOriginAssumption DEF ComboInv, Typed, QueuesTyped
    <3>3. pending[p.combo].age <= tapping /\ Has(p.combo) /\ Fired(p.combo)
      BY <2>1, <2>2, <2>4, <3>1 DEF MeetsEntry
    <3>4. pending[p.combo].age \in Nat
      BY <1>10, <2>4, <3>3, AgesAre DEF ComboInv, Typed
    <3>5. pending[p.combo].age + t <= Term /\ pending[p.combo].age + t <= tapping'
      BY <3>2, <3>3, <3>4
    <3>6. Active(p.combo) \/ pending[p.combo].applied
      BY <3>3 DEF Fired
    <3>7. Has(p.combo)'
      BY <1>2, <1>10, <2>4, <3>3, <3>5, <3>6 DEF Scanned
    <3>8. pending'[p.combo].age <= pending[p.combo].age + t
      BY <1>2, <1>10, <2>4, <3>7 DEF Scanned
    <3>9. pending'[p.combo].age \in Nat
      BY <1>3, <1>10, <2>4, <3>7 DEF Typed, TablesTyped, Has, EntryType
    <3> QED
      BY <3>1, <3>2, <3>4, <3>5, <3>7, <3>8, <3>9
  <2>5. ASSUME NEW p \in Ahead PROVE Has(p.combo)'
    BY <1>2, <1>10, <2>1, <2>5 DEF Scanned, MeetsEntry
  <2>6. ASSUME NEW d \in Met' PROVE \E p \in Ahead' : Its(p, d)'
    <3>1. d \in Met /\ d \in Combos /\ pending'[d].gen = pending[d].gen
      BY <1>2, <1>8 DEF Met, Scanned
    <3> QED
      BY <1>4, <2>1, <3>1 DEF Its
  <2> QED
    BY <1>4, <2>1, <2>2, <2>3, <2>4, <2>5, <2>6 DEF Known
<1>13. ASSUME ~replaced', replaced PROVE Known'
  <2>1. Ahead = {} /\ Behind = {} /\ Downs(tapQueue)' = {}
    BY <1>1, <1>11, <1>13 DEF Ahead, Behind, Downs
  <2>2. Cardinality(Met) <= 0 /\ Cardinality(Met) \in Nat /\ IsFiniteSet(Met)
    BY <2>1, FS_EmptySet, MetFinite DEF ComboInv, Tallied
  <2>3. Met = {}
    BY <2>2, FS_EmptySet
  <2> QED
    BY <1>4, <1>8, <2>1, <2>3 DEF Known
<1>14. Known'
  BY <1>12, <1>13 DEF Known
<1>15. Ready'
  <2>1. ASSUME NEW i \in DOMAIN prepared PROVE Waiting(prepared[i])'
    <3>0. PICK p : p = prepared[i]
      OBVIOUS
    <3>1. Waiting(p) /\ p.combo \in Combos
      BY <3>0, PreparedIs DEF ComboInv, Ready
    <3>2. sincePress + t <= Wait
      <4>1. ~(sincePress > FireTerm)
        BY <1>1, <2>1
      <4> QED
        BY <4>1, ComboOriginAssumption DEF ComboInv, Typed, KeysTyped
    <3>3. /\ Has(p.combo) /\ ~pending[p.combo].applied /\ flag[p.combo] = "prepared"
          /\ ~pending[p.combo].pressed
      BY <1>1, <3>1 DEF Waiting
    <3>4. ~Active(p.combo) /\ ~Disabled(p.combo) /\ ~Fired(p.combo)
      BY <3>3 DEF Active, Disabled, Fired
    <3>5. Has(p.combo)'
      BY <1>2, <3>1, <3>2, <3>3, <3>4 DEF Scanned
    <3>6. Its(p, p.combo)' /\ ~pending'[p.combo].pressed /\ ~pending'[p.combo].applied
      BY <1>2, <3>1, <3>3, <3>4, <3>5 DEF Scanned, Its, Waiting
    <3>7. Whole(p.combo, p.gen)' <=> Whole(p.combo, p.gen)
      BY <1>1 DEF Whole
    <3>8. Waiting(p)'
      BY <1>1, <3>1, <3>5, <3>6, <3>7 DEF Waiting
    <3> QED
      BY <1>1, <3>0, <3>8
  <2> QED
    BY <1>1, <2>1 DEF ComboInv, Ready
<1>16. Kept'
  <2>1. pass' = "replay" => parked' # <<>>
    BY <1>1
  <2> QED
    BY <1>1, <2>1 DEF Kept
<1> QED
  BY <1>3, <1>4, <1>6, <1>7, <1>9, <1>14, <1>15, <1>16 DEF ComboInv

(* A physical key.  What a reconciliation leaves of the entries.             *)

Carried(c, e) ==
  /\ e # Nothing => /\ Has(c) /\ e.gen = pending[c].gen /\ e.keys = pending[c].keys
                    /\ e.owner = pending[c].owner /\ e.age = pending[c].age
                    /\ e.pressed = pending[c].pressed /\ (e.applied <=> Fired(c))
  /\ Has(c) /\ (Fired(c) \/ ~Disabled(c)) => e # Nothing

LEMMA ReconcileIs ==
  ASSUME Typed, NEW c \in Combos, NEW r, r = Reconcile[c]
  PROVE  r \in EntryType \cup {Nothing} /\ Carried(c, r)
<1>1. CASE ~Has(c)
  <2>1. r = Nothing
    BY <1>1 DEF Reconcile, Has
  <2> QED
    BY <1>1, <2>1 DEF Carried
<1>2. CASE Has(c)
  <2>1. PICK e : e = pending[c]
    OBVIOUS
  <2>2. e \in EntryType /\ e # Nothing
    BY <1>2, <2>1, HasEntry DEF Typed, Has
  <2>3. sincePress \in Nat
    BY DEF Typed, KeysTyped
  <2>4. r = Reconciled(c, e, sincePress, FALSE)
    BY <2>1, <2>2 DEF Reconcile
  <2>5. /\ r \in EntryType \cup {Nothing}
        /\ r # Nothing => Same(e, r) /\ (r.applied <=> e.applied \/ Active(c))
        /\ (e.applied \/ Active(c) \/ ~Disabled(c)) => r # Nothing
    BY <2>2, <2>3, <2>4, ReconciledIs
  <2> QED
    BY <1>2, <2>1, <2>5 DEF Carried, Same, Fired
<1> QED
  BY <1>1, <1>2

LEMMA GenerationIs ==
  ASSUME seq' \in [MemberKeys -> Nat], NEW n \in Nat, \A k \in MemberKeys : seq'[k] <= n, NEW c \in Combos
  PROVE  /\ Generation(c) \in 0 .. n /\ \A k \in Members(c) : seq'[k] <= Generation(c)
         /\ \E k \in Members(c) : seq'[k] = Generation(c)
<1>1. Members(c) \subseteq MemberKeys /\ Members(c) # {}
  BY Chords
<1>2. Generation(c) = Max({seq'[k] : k \in Members(c)})
  BY DEF Generation
<1> QED
  BY <1>1, <1>2, LatestIs

LEMMA EntryIs ==
  ASSUME NEW c \in Combos, Generation(c) \in Nat
  PROVE  /\ Entry(c) \in EntryType /\ Entry(c).gen = Generation(c) /\ Entry(c).keys = Members(c)
         /\ Entry(c).owner = Owner(c) /\ Entry(c).age = 0
         /\ ~Entry(c).applied /\ ~Entry(c).pressed /\ Entry(c) # Nothing
<1>1. Members(c) \in SUBSET MemberKeys /\ Owner(c) \in MemberKeys
  BY Chords
<1>2. PICK e : e = Entry(c)
  OBVIOUS
<1>3. /\ e.gen = Generation(c) /\ e.keys = Members(c) /\ e.owner = Owner(c) /\ e.age = 0
      /\ ~e.applied /\ ~e.pressed
  BY <1>2 DEF Entry
<1>4. e \in EntryType
  BY <1>1, <1>2 DEF Entry, EntryType
<1> QED
  BY <1>2, <1>3, <1>4, NothingElse

(* A completed chord is noted, unless its entry is of this very press.       *)
Noted(c) == ~Disabled(c) /\ Complete(c) /\ pending'[c] = Entry(c)

LEMMA NotedIs ==
  ASSUME NEW c \in Combos, pending' = NoteCompleted(Reconcile)
  PROVE  /\ pending'[c] = Reconcile[c] \/ (Noted(c) /\ (Reconcile[c] = Nothing \/ Reconcile[c].gen # Generation(c)))
         /\ /\ ~Disabled(c) /\ Complete(c) /\ ~InCache(c, Generation(c))
            /\ Reconcile[c] = Nothing \/ Reconcile[c].gen # Generation(c)
            => Noted(c)
<1>1. PICK e : e = Reconcile[c]
  OBVIOUS
<1>2. pending'[c] = IF ~Disabled(c) /\ Complete(c) THEN Stored(c, e) ELSE e
  BY <1>1 DEF NoteCompleted
<1>3. Stored(c, e) = IF InCache(c, Generation(c)) \/ (e # Nothing /\ e.gen = Generation(c)) THEN e ELSE Entry(c)
  BY DEF Stored
<1> DEFINE takes == /\ ~Disabled(c) /\ Complete(c) /\ ~InCache(c, Generation(c))
                    /\ e = Nothing \/ e.gen # Generation(c)
<1>4. takes => Noted(c)
  BY <1>2, <1>3 DEF Noted
<1>5. ~takes => pending'[c] = e
  BY <1>2, <1>3
<1>6. takes => e = Nothing \/ e.gen # Generation(c)
  OBVIOUS
<1> QED
  BY <1>1, <1>4, <1>5, <1>6

LEMMA KeyDownKeys ==
  ASSUME Typed, NEW k \in MemberKeys, KeyDown(k)
  PROVE  /\ seq' \in [MemberKeys -> Nat] /\ presses' \in Nat /\ presses' = presses + 1
         /\ seq'[k] = presses' /\ seq[k] = 0 /\ \A j \in MemberKeys : j # k => seq'[j] = seq[j]
         /\ \A j \in MemberKeys : seq'[j] <= presses'
         /\ KeysTyped'
<1>1. /\ presses' = presses + 1 /\ seq' = [seq EXCEPT ![k] = presses + 1] /\ seq[k] = 0
      /\ lastPress' = k /\ sincePress' = 0
  BY DEF KeyDown
<1>2. seq \in [MemberKeys -> Nat] /\ presses \in Nat /\ \A j \in MemberKeys : seq[j] <= presses
  BY DEF Typed, KeysTyped
<1>3. /\ seq' \in [MemberKeys -> Nat] /\ presses' \in Nat
      /\ seq'[k] = presses' /\ \A j \in MemberKeys : j # k => seq'[j] = seq[j]
  BY <1>1, <1>2
<1>4. \A j \in MemberKeys : seq'[j] <= presses'
  BY <1>1, <1>2, <1>3
<1> QED
  BY <1>1, <1>3, <1>4 DEF KeysTyped

(* QMK counts the key, and prepares the chord that is full with it.          *)
Fills(k) == ~Disabled(ComboOf(k)) /\ counted[ComboOf(k)] \cup {k} = Members(ComboOf(k))

LEMMA CountPressIs ==
  ASSUME Typed, NEW k \in MemberKeys, CountPress(k)
  PROVE  /\ flag' \in [Combos -> {"idle", "prepared", "active", "spent"}]
         /\ counted' \in [Combos -> SUBSET MemberKeys]
         /\ \A c \in Combos : /\ counted'[c] \subseteq counted[c] \cup (IF c = ComboOf(k) THEN {k} ELSE {})
                              /\ c # ComboOf(k) => flag'[c] = flag[c]
                              /\ (Active(c)' <=> Active(c)) /\ (flag'[c] = flag[c] \/ flag'[c] = "prepared")
         /\ \/ prepared' = prepared
            \/ /\ Fills(k) /\ flag'[ComboOf(k)] = "prepared"
               /\ prepared' = Append(prepared, Output(TRUE, ComboOf(k), Generation(ComboOf(k))))
<1>1. PICK c : c = ComboOf(k)
  OBVIOUS
<1>2. c \in Combos
  BY <1>1, Chords
<1>3. /\ counted' = [counted EXCEPT ![c] = IF Disabled(c) THEN @ ELSE counted[c] \cup {k}]
      /\ flag' = [flag EXCEPT ![c] = IF Fills(k) THEN "prepared" ELSE @]
      /\ prepared' = IF Fills(k) /\ flag[c] = "idle" THEN Append(prepared, Output(TRUE, c, Generation(c)))
                                                     ELSE prepared
  BY <1>1 DEF CountPress, Fills
<1>4. /\ flag \in [Combos -> {"idle", "prepared", "active", "spent"}]
      /\ counted \in [Combos -> SUBSET MemberKeys]
  BY DEF Typed, EngineTyped
<1>5. /\ flag' \in [Combos -> {"idle", "prepared", "active", "spent"}]
      /\ counted' \in [Combos -> SUBSET MemberKeys]
  BY <1>2, <1>3, <1>4
<1>6. Fills(k) => ~Disabled(c) /\ flag'[c] = "prepared"
  BY <1>1, <1>2, <1>3, <1>4 DEF Fills
<1>7. \A d \in Combos : /\ counted'[d] \subseteq counted[d] \cup (IF d = c THEN {k} ELSE {})
                        /\ d # c => flag'[d] = flag[d]
                        /\ flag'[d] = flag[d] \/ (flag'[d] = "prepared" /\ ~Disabled(d))
  BY <1>1, <1>2, <1>3, <1>4, <1>6
<1>8. \A d \in Combos : Active(d)' <=> Active(d)
  BY <1>7 DEF Active, Disabled
<1> QED
  BY <1>1, <1>3, <1>5, <1>6, <1>7, <1>8

LEMMA KeyDownTables ==
  ASSUME Typed, Entries, NEW k \in MemberKeys, KeyDown(k)
  PROVE  /\ TablesTyped' /\ Entries'
         /\ \A c \in Combos : Noted(c) => /\ pending'[c].gen = Generation(c) /\ ~pending'[c].pressed
                                          /\ ~pending'[c].applied /\ Has(c)' /\ Generation(c) \in Nat
<1>1. pending' = NoteCompleted(Reconcile) /\ cache' = cache /\ deliveries' = deliveries
  BY DEF KeyDown
<1>2. /\ seq' \in [MemberKeys -> Nat] /\ presses' \in Nat /\ presses' = presses + 1
      /\ \A j \in MemberKeys : seq'[j] <= presses'
  BY KeyDownKeys
<1>3. ASSUME NEW c \in Combos
      PROVE  /\ Generation(c) \in 0 .. presses' /\ Generation(c) \in Nat
             /\ Entry(c) \in EntryType /\ Entry(c).gen = Generation(c) /\ Entry(c).keys = Members(c)
             /\ Entry(c).owner = Owner(c) /\ Entry(c).age = 0
             /\ ~Entry(c).applied /\ ~Entry(c).pressed /\ Entry(c) # Nothing
  <2>1. Generation(c) \in 0 .. presses'
    BY <1>2, GenerationIs
  <2>2. Generation(c) \in Nat
    BY <1>2, <2>1
  <2> QED
    BY <2>1, <2>2, EntryIs
<1>4. ASSUME NEW c \in Combos
      PROVE  /\ pending'[c] \in EntryType \cup {Nothing}
             /\ Has(c)' => /\ pending'[c].owner = Owner(c) /\ pending'[c].keys = Members(c)
                           /\ pending'[c].gen <= presses' /\ (~pending'[c].applied => pending'[c].age = 0)
  <2>1. CASE pending'[c] = Entry(c)
    BY <1>2, <1>3, <2>1
  <2>2. CASE pending'[c] = Reconcile[c]
    <3>1. pending'[c] \in EntryType \cup {Nothing} /\ Carried(c, pending'[c])
      BY <2>2, ReconcileIs
    <3>2. ASSUME Has(c)'
          PROVE  /\ Has(c) /\ pending'[c].gen = pending[c].gen /\ pending'[c].keys = pending[c].keys
                 /\ pending'[c].owner = pending[c].owner /\ pending'[c].age = pending[c].age
                 /\ (pending[c].applied => pending'[c].applied)
      BY <3>1, <3>2 DEF Carried, Has, Fired
    <3>3. Has(c) => pending[c].gen \in Nat /\ presses \in Nat
      BY HasEntry DEF EntryType, Typed, KeysTyped
    <3> QED
      BY <1>2, <3>1, <3>2, <3>3 DEF Entries
  <2> QED
    BY <1>1, <2>1, <2>2, NotedIs DEF Noted
<1>5. pending' \in [Combos -> EntryType \cup {Nothing}]
  BY <1>1, <1>4 DEF NoteCompleted
<1>6. TablesTyped'
  BY <1>1, <1>5 DEF Typed, TablesTyped, Slots
<1>7. \A s \in Slots : cache'[s] # Nothing => cache'[s].gen <= presses'
  <2>1. ASSUME NEW s \in Slots, cache[s] # Nothing PROVE cache[s].gen <= presses + 1
    <3>1. cache[s].gen \in Nat /\ cache[s].gen <= presses /\ presses \in Nat
      BY <2>1 DEF Typed, TablesTyped, CacheType, Entries, KeysTyped
    <3> QED
      BY <3>1
  <2> QED
    BY <1>1, <1>2, <2>1
<1>8. Entries'
  BY <1>4, <1>7 DEF Entries, Slots
<1>9. \A c \in Combos : Noted(c) => /\ pending'[c].gen = Generation(c) /\ ~pending'[c].pressed
                                    /\ ~pending'[c].applied /\ Has(c)' /\ Generation(c) \in Nat
  BY <1>3 DEF Noted, Has
<1> QED
  BY <1>6, <1>8, <1>9

(* The chords that QMK has prepared stay whole: the key is none of theirs.   *)
LEMMA StillWhole ==
  ASSUME Typed, NEW k \in MemberKeys, KeyDown(k), NEW c \in Combos, NEW g \in Nat, Whole(c, g)
  PROVE  k \notin Members(c) /\ c # ComboOf(k) /\ Complete(c) /\ Generation(c) = g /\ Whole(c, g)'
<1>1. /\ seq' \in [MemberKeys -> Nat] /\ presses' \in Nat /\ seq[k] = 0
      /\ \A j \in MemberKeys : j # k => seq'[j] = seq[j]
      /\ \A j \in MemberKeys : seq'[j] <= presses'
  BY KeyDownKeys
<1>2. k \notin Members(c)
  BY <1>1 DEF Whole
<1>3. \A j \in Members(c) : j \in MemberKeys /\ seq'[j] = seq[j]
  BY <1>1, <1>2, Chords
<1>4. c # ComboOf(k)
  BY <1>2, Chords
<1>5. Complete(c) /\ Whole(c, g)'
  BY <1>3 DEF Whole, Complete
<1>6. /\ Generation(c) \in 0 .. presses' /\ \A j \in Members(c) : seq'[j] <= Generation(c)
      /\ \E j \in Members(c) : seq'[j] = Generation(c)
  BY <1>1, GenerationIs
<1>7. Generation(c) <= g
  BY <1>3, <1>6 DEF Whole
<1>8. g <= Generation(c)
  BY <1>3, <1>6 DEF Whole
<1>9. Generation(c) = g
  BY <1>1, <1>6, <1>7, <1>8
<1> QED
  BY <1>2, <1>4, <1>5, <1>9

(* The chord that is full with the key.                                      *)
LEMMA NowWhole ==
  ASSUME Typed, Entries, NEW k \in MemberKeys, KeyDown(k), Fills(k), NEW c, c = ComboOf(k), NEW g, g = presses'
  PROVE  /\ c \in Combos /\ Generation(c) = presses' /\ Whole(c, g)' /\ Noted(c)
         /\ \A s \in Slots : cache[s] # Nothing => cache[s].gen < presses'
<1>1. /\ seq' \in [MemberKeys -> Nat] /\ presses' \in Nat /\ presses' = presses + 1
      /\ seq'[k] = presses' /\ \A j \in MemberKeys : j # k => seq'[j] = seq[j]
      /\ \A j \in MemberKeys : seq'[j] <= presses'
  BY KeyDownKeys
<1>2. c \in Combos /\ k \in Members(c) /\ Members(c) \subseteq MemberKeys
  BY Chords
<1>3. /\ Generation(c) \in 0 .. presses' /\ \A j \in Members(c) : seq'[j] <= Generation(c)
  BY <1>1, <1>2, GenerationIs
<1>4. Generation(c) = presses'
  BY <1>1, <1>2, <1>3
<1>5. presses \in Nat /\ \A j \in counted[c] : seq[j] > 0
  BY <1>2 DEF Typed, KeysTyped, EngineTyped
<1>6. \A j \in Members(c) : seq'[j] > 0
  <2>1. seq'[k] > 0
    BY <1>1, <1>5
  <2>2. \A j \in Members(c) : j = k \/ j \in counted[c]
    BY DEF Fills
  <2> QED
    BY <1>1, <1>2, <1>5, <2>1, <2>2
<1>7. Complete(c) /\ ~Disabled(c)
  BY <1>6 DEF Complete, Fills
<1>8. Whole(c, g)'
  <2>1. \A j \in Members(c) : 0 < seq'[j] /\ seq'[j] <= presses'
    BY <1>1, <1>2, <1>6
  <2>2. \E j \in Members(c) : seq'[j] = presses'
    BY <1>1, <1>2
  <2>3. \A j \in Members(c) : 0 < seq'[j] /\ seq'[j] <= g
    BY <2>1
  <2> QED
    BY <2>2, <2>3 DEF Whole
<1>9. \A s \in Slots : cache[s] # Nothing => cache[s].gen < presses'
  <2>1. \A s \in Slots : cache[s] # Nothing => cache[s].gen \in Nat /\ cache[s].gen <= presses
    BY DEF Typed, TablesTyped, CacheType, Entries
  <2> QED
    BY <1>1, <1>5, <2>1
<1>10. ~InCache(c, Generation(c))
  <2>1. ASSUME NEW s \in Slots, cache[s] # Nothing PROVE cache[s].gen # presses'
    <3>1. cache[s].gen \in Nat /\ cache[s].gen < presses'
      BY <1>9, <2>1 DEF Typed, TablesTyped, CacheType
    <3> QED
      BY <3>1
  <2> QED
    BY <1>4, <2>1 DEF InCache
<1>11. Reconcile[c] = Nothing \/ Reconcile[c].gen # Generation(c)
  <2>1. PICK r : r = Reconcile[c]
    OBVIOUS
  <2>2. r # Nothing => Has(c) /\ r.gen = pending[c].gen
    BY <1>2, <2>1, ReconcileIs DEF Carried
  <2>3. Has(c) => pending[c].gen \in Nat /\ pending[c].gen <= presses
    BY <1>2, HasEntry DEF Typed, EntryType, Entries
  <2>4. r # Nothing => r.gen # presses'
    BY <1>1, <1>5, <2>2, <2>3
  <2> QED
    BY <1>4, <2>1, <2>4
<1>12. Noted(c)
  <2>1. pending' = NoteCompleted(Reconcile)
    BY DEF KeyDown
  <2> QED
    BY <1>2, <1>7, <1>10, <1>11, <2>1, NotedIs
<1> QED
  BY <1>2, <1>4, <1>8, <1>9, <1>12

LEMMA KeyDownPrepared ==
  ASSUME ComboInv, NEW k \in MemberKeys, KeyDown(k)
  PROVE  /\ prepared' \in Seq(OutputType) /\ InLine(prepared)' /\ Recent(Downs(prepared))'
         /\ Before(Ahead \cup Behind, Downs(prepared)') /\ Ready'
<1>1. /\ ~dumping /\ dumping' = dumping /\ CountPress(k) /\ pending' = NoteCompleted(Reconcile)
  BY DEF KeyDown, Idle
<1>2. presses' \in Nat /\ presses \in Nat /\ presses' = presses + 1
  BY KeyDownKeys DEF ComboInv, Typed, KeysTyped
<1>3. PICK c : c = ComboOf(k)
  OBVIOUS
<1>4. PICK r : r = Output(TRUE, c, Generation(c))
  OBVIOUS
<1>5. /\ \A d \in Combos : d # c => flag'[d] = flag[d]
      /\ prepared' = prepared \/ (Fills(k) /\ flag'[c] = "prepared" /\ prepared' = Append(prepared, r))
  BY <1>1, <1>3, <1>4, CountPressIs DEF ComboInv
<1>6. prepared \in Seq(OutputType) /\ InLine(prepared)
  BY DEF ComboInv, Typed, QueuesTyped, Lined
<1>7. \A p \in Ahead \cup Behind \cup Downs(prepared) : p.gen \in Nat /\ p.gen <= presses
  BY OnTheWay DEF ComboInv, Lined, Recent
<1>8. ASSUME NEW i \in DOMAIN prepared
      PROVE  /\ prepared[i].combo # c
             /\ \A p : p = prepared[i] => Waiting(p)'
  <2>1. PICK p : p = prepared[i]
    OBVIOUS
  <2>2. Waiting(p) /\ p.combo \in Combos /\ p.gen \in Nat
    BY <2>1, PreparedIs DEF ComboInv, Ready
  <2>3. flag[p.combo] = "prepared" /\ Whole(p.combo, p.gen)
    BY <1>1, <2>2 DEF Waiting
  <2>4. /\ p.combo # c /\ Complete(p.combo) /\ Generation(p.combo) = p.gen /\ Whole(p.combo, p.gen)'
    BY <1>3, <2>2, <2>3, StillWhole DEF ComboInv
  <2>5. ~Disabled(p.combo) /\ ~Active(p.combo) /\ flag'[p.combo] = "prepared"
    BY <1>5, <2>2, <2>3, <2>4 DEF Disabled, Active
  <2>6. PICK e : e = Reconcile[p.combo]
    OBVIOUS
  <2>7. /\ e # Nothing /\ e.gen = p.gen /\ ~e.pressed /\ ~e.applied
    <3>1. Carried(p.combo, e)
      BY <2>2, <2>6, ReconcileIs DEF ComboInv
    <3> QED
      BY <2>2, <2>5, <3>1 DEF Carried, Waiting, Its, Fired
  <2>8. pending'[p.combo] = e
    BY <1>1, <2>2, <2>4, <2>6, <2>7, NotedIs
  <2>9. Waiting(p)'
    BY <1>1, <2>2, <2>4, <2>5, <2>7, <2>8 DEF Waiting, Has, Its
  <2> QED
    BY <2>1, <2>4, <2>9
<1>9. CASE prepared' = prepared
  <2>1. \A x \in Downs(prepared)' : x \in Downs(prepared)
    BY <1>9
  <2>2. Recent(Downs(prepared))'
    <3>1. ASSUME NEW x \in Downs(prepared)' PROVE x.gen <= presses'
      BY <1>2, <1>7, <2>1
    <3> QED
      BY <3>1 DEF Recent
  <2>3. Before(Ahead \cup Behind, Downs(prepared)')
    BY <2>1 DEF ComboInv, Lined, Before
  <2>4. Ready'
    BY <1>8, <1>9 DEF ComboInv, Ready
  <2> QED
    BY <1>6, <1>9, <2>2, <2>3, <2>4
<1>10. CASE Fills(k) /\ flag'[c] = "prepared" /\ prepared' = Append(prepared, r)
  <2>0. PICK g : g = presses'
    OBVIOUS
  <2>1. c \in Combos /\ Generation(c) = presses' /\ Whole(c, g)' /\ Noted(c)
    BY <1>3, <1>10, <2>0, NowWhole DEF ComboInv
  <2>2. r \in OutputType /\ r.down /\ r.combo = c /\ r.gen = presses'
    BY <1>2, <1>4, <2>1 DEF Output, OutputType
  <2>3. Before(Ahead \cup Behind \cup Downs(prepared), {r})
    <3>1. ASSUME NEW x \in Ahead \cup Behind \cup Downs(prepared) PROVE x.gen < r.gen
      BY <1>2, <1>7, <2>2
    <3> QED
      BY <3>1 DEF Before
  <2>4. /\ prepared' \in Seq(OutputType) /\ Downs(prepared)' = Downs(prepared) \cup {r}
        /\ InLine(prepared)'
    <3>1. r.down => Before(Downs(prepared), {r})
      BY <2>3 DEF Before
    <3> QED
      BY <1>6, <1>10, <2>2, <3>1, Appended
  <2>5. Before(Ahead \cup Behind, Downs(prepared)')
    BY <2>3, <2>4 DEF ComboInv, Lined, Before
  <2>6. Recent(Downs(prepared))'
    <3>1. ASSUME NEW x \in Downs(prepared)' PROVE x.gen <= presses'
      BY <1>2, <1>7, <2>2, <2>4
    <3> QED
      BY <3>1 DEF Recent
  <2>7. Waiting(r)'
    <3>1. pending'[c].gen = presses' /\ ~pending'[c].pressed /\ ~pending'[c].applied /\ Has(c)'
      BY <2>1, KeyDownTables DEF ComboInv
    <3>2. ~dumping' /\ r.gen = g
      BY <1>1, <2>0, <2>2
    <3>3. r.gen = pending'[c].gen
      BY <2>2, <3>1
    <3> QED
      BY <1>10, <2>1, <2>2, <3>1, <3>2, <3>3 DEF Waiting, Its
  <2>8. /\ \A i \in DOMAIN prepared' : \/ i \in DOMAIN prepared /\ prepared'[i] = prepared[i]
                                       \/ i = Len(prepared) + 1 /\ prepared'[i] = r
    BY <1>6, <1>10
  <2>9. \A i \in DOMAIN prepared' : Waiting(prepared[i])'
    BY <1>8, <2>7, <2>8
  <2>10. \A i, j \in DOMAIN prepared' : prepared'[i].combo = prepared'[j].combo => i = j
    BY <1>8, <2>2, <2>8 DEF ComboInv, Ready
  <2> QED
    BY <2>4, <2>5, <2>6, <2>9, <2>10 DEF Ready
<1> QED
  BY <1>5, <1>9, <1>10

LEMMA KeyDownInv == ASSUME ComboInv, NEW k \in MemberKeys, KeyDown(k) PROVE ComboInv'
<1>1. /\ now = Nothing /\ ~dumping /\ CountPress(k) /\ pending' = NoteCompleted(Reconcile)
      /\ replaced' = (replaced \/ \E c \in Combos : Replaced(c))
      /\ UNCHANGED <<dumping, tapping, tapQueue, parked, now, pass, cache, deliveries>>
  BY DEF KeyDown, Idle, waiting
<1>2. /\ KeysTyped' /\ seq' \in [MemberKeys -> Nat] /\ presses' = presses + 1 /\ presses \in Nat
      /\ seq'[k] = presses' /\ \A j \in MemberKeys : j # k => seq'[j] = seq[j]
  BY KeyDownKeys DEF ComboInv, Typed, KeysTyped
<1>3. /\ flag' \in [Combos -> {"idle", "prepared", "active", "spent"}]
      /\ counted' \in [Combos -> SUBSET MemberKeys]
      /\ \A c \in Combos : /\ counted'[c] \subseteq counted[c] \cup (IF c = ComboOf(k) THEN {k} ELSE {})
                           /\ (Active(c)' <=> Active(c))
  BY <1>1, CountPressIs DEF ComboInv
<1>4. /\ TablesTyped' /\ Entries'
      /\ \A c \in Combos : Noted(c) => /\ pending'[c].gen = Generation(c) /\ ~pending'[c].pressed
                                       /\ ~pending'[c].applied /\ Has(c)' /\ Generation(c) \in Nat
  BY KeyDownTables DEF ComboInv
<1>5. /\ prepared' \in Seq(OutputType) /\ InLine(prepared)' /\ Recent(Downs(prepared))'
      /\ Before(Ahead \cup Behind, Downs(prepared)') /\ Ready'
  BY KeyDownPrepared
<1>6. EngineTyped'
  <2>1. ASSUME NEW c \in Combos, NEW j \in counted'[c] PROVE j \in Members(c) /\ seq'[j] > 0
    <3>1. CASE j = k /\ c = ComboOf(k)
      <4>1. presses' > 0
        BY <1>2
      <4> QED
        BY <1>2, <3>1, <4>1, Chords
    <3>2. CASE j \in counted[c]
      <4>1. j \in Members(c) /\ seq[j] > 0 /\ j \in MemberKeys
        BY <3>2 DEF ComboInv, Typed, EngineTyped
      <4>2. j # k => seq'[j] = seq[j]
        BY <1>2, <4>1
      <4>3. presses' > 0
        BY <1>2
      <4> QED
        BY <1>2, <4>1, <4>2, <4>3
    <3> QED
      BY <1>3, <3>1, <3>2
  <2>2. replaced' \in BOOLEAN
    BY <1>1 DEF ComboInv, Typed, EngineTyped
  <2> QED
    BY <1>1, <1>3, <2>1, <2>2 DEF ComboInv, Typed, EngineTyped
<1>7. Typed'
  <2>1. QueuesTyped'
    BY <1>1, <1>5 DEF ComboInv, Typed, QueuesTyped
  <2> QED
    BY <1>2, <1>4, <1>6, <2>1 DEF Typed
<1>8. Passing("in") = {} /\ Passing("out") = {} /\ Passing("in")' = {} /\ Passing("out")' = {}
  BY <1>1, PassingIs DEF Passing
<1>9. Downs(parked)' = Downs(parked) /\ Downs(tapQueue)' = Downs(tapQueue)
  BY <1>1
<1>10. /\ Ahead' = Ahead /\ Behind' = Behind /\ Ahead = Downs(parked) /\ Behind = Downs(tapQueue)
  BY <1>8, <1>9 DEF Ahead, Behind
<1>11. \A p \in Ahead \cup Behind : p.combo \in Combos /\ p.gen \in Nat /\ p.gen <= presses /\ p.down
  BY OnTheWay DEF ComboInv, Lined, Recent
<1>12. Lined'
  <2>1. InLine(parked)' /\ InLine(tapQueue)'
    BY <1>1 DEF ComboInv, Lined
  <2>2. Before(Passing("in")', Downs(parked)') /\ Before(Passing("out")', Downs(tapQueue)')
    BY <1>8 DEF Before
  <2>3. Before(Ahead', Behind') /\ Before(Ahead' \cup Behind', Downs(prepared)')
    BY <1>5, <1>10 DEF ComboInv, Lined
  <2>4. \A p \in Ahead \cup Behind : p.gen <= presses'
    BY <1>2, <1>11
  <2>5. Recent(Ahead)' /\ Recent(Behind)'
    BY <1>10, <2>4 DEF Recent
  <2> QED
    BY <1>5, <2>1, <2>2, <2>3, <2>5 DEF Lined
<1>13. ASSUME NEW c \in Combos
       PROVE  \/ Noted(c) /\ Has(c)' /\ ~pending'[c].pressed /\ ~Fired(c)'
              \/ Has(c)' => /\ Has(c) /\ pending'[c].gen = pending[c].gen /\ pending'[c].age = pending[c].age
                            /\ pending'[c].pressed = pending[c].pressed /\ (Fired(c)' <=> Fired(c))
  <2>1. CASE Noted(c)
    BY <1>3, <1>4, <2>1 DEF Noted, Disabled, Active, Fired
  <2>2. CASE pending'[c] = Reconcile[c]
    <3>1. Carried(c, pending'[c])
      BY <2>2, ReconcileIs DEF ComboInv
    <3>2. ASSUME Has(c)'
          PROVE  /\ Has(c) /\ pending'[c].gen = pending[c].gen /\ pending'[c].age = pending[c].age
                 /\ pending'[c].pressed = pending[c].pressed /\ (pending'[c].applied <=> Fired(c))
      BY <3>1, <3>2 DEF Carried, Has
    <3> QED
      BY <1>3, <3>2 DEF Fired
  <2> QED
    BY <1>1, <2>1, <2>2, NotedIs
<1>14. Candidates'
  <2> SUFFICES ASSUME NEW c \in Combos, Has(c)', ~pending'[c].pressed, Fired(c)'
               PROVE  \E p \in Behind' : Its(p, c)'
    BY DEF Candidates
  <2>1. Has(c) /\ ~pending[c].pressed /\ Fired(c) /\ pending'[c].gen = pending[c].gen
    BY <1>13
  <2>2. PICK p \in Behind : Its(p, c)
    BY <2>1 DEF ComboInv, Candidates
  <2> QED
    BY <1>10, <2>1, <2>2 DEF Its
<1>15. \A c \in Met' : c \in Met /\ pending'[c].gen = pending[c].gen
  BY <1>13 DEF Met
<1>16. Tallied'
  <2>1. Met' \subseteq Met
    BY <1>15
  <2>2. IsFiniteSet(Met') /\ Cardinality(Met') <= Cardinality(Met)
    BY <2>1, MetFinite, FS_Subset
  <2>3. Cardinality(Met') \in Nat
    BY <2>2, FS_CardinalityType
  <2> QED
    BY <1>10, <2>2, <2>3, MetFinite, AheadFinite DEF ComboInv, Tallied
<1>17. ASSUME ~replaced' PROVE Known'
  <2>0. ~replaced /\ \A c \in Combos : ~Replaced(c)
    BY <1>1, <1>17
  <2>1. /\ \A p \in Behind : MeetsEntry(p) /\ ~pending[p.combo].pressed
        /\ \A p \in Ahead : MeetsEntry(p) /\ pending[p.combo].pressed
        /\ \A p \in Downs(tapQueue) : tapping # Nothing => pending[p.combo].age <= tapping
        /\ \A d \in Met : \E p \in Ahead : Its(p, d)
    BY <2>0 DEF ComboInv, Known
  <2>2. ASSUME NEW p \in Ahead \cup Behind
        PROVE  /\ MeetsEntry(p)' /\ pending'[p.combo].age = pending[p.combo].age
               /\ pending'[p.combo].pressed = pending[p.combo].pressed
    <3>1. PICK c : c = p.combo
      OBVIOUS
    <3>2. c \in Combos /\ Has(c) /\ p.gen = pending[c].gen /\ Fired(c) /\ p.down
      BY <1>11, <2>1, <2>2, <3>1 DEF MeetsEntry, Its
    <3>3. p \in ToSet(tapQueue) \cup ToSet(parked)
      BY <1>10, <2>2 DEF Downs, ToSet
    <3>4. Has(c)' => pending'[c].gen = pending[c].gen
      BY <2>0, <3>2, <3>3 DEF Replaced, Has
    <3>5. PICK e : e = Reconcile[c]
      OBVIOUS
    <3>6. /\ e # Nothing /\ e.gen = pending[c].gen /\ e.age = pending[c].age
          /\ e.pressed = pending[c].pressed /\ e.applied
      BY <3>2, <3>5, ReconcileIs DEF Carried, ComboInv
    <3>7. pending'[c] = e
      <4>1. pending'[c] = e \/ (Noted(c) /\ (e = Nothing \/ e.gen # Generation(c)))
        BY <1>1, <3>2, <3>5, NotedIs
      <4>2. Noted(c) => Has(c)' /\ pending'[c].gen = Generation(c)
        BY <1>4, <3>2
      <4> QED
        BY <3>4, <3>6, <4>1, <4>2
    <3>8. MeetsEntry(p)'
      BY <3>1, <3>2, <3>6, <3>7 DEF MeetsEntry, Has, Its, Fired
    <3> QED
      BY <3>1, <3>6, <3>7, <3>8
  <2>3. \A p \in Behind' : MeetsEntry(p)' /\ ~pending'[p.combo].pressed
    BY <1>10, <2>1, <2>2
  <2>4. \A p \in Ahead' : MeetsEntry(p)' /\ pending'[p.combo].pressed
    BY <1>10, <2>1, <2>2
  <2>5. \A p \in Downs(tapQueue)' : tapping' # Nothing => pending'[p.combo].age <= tapping'
    BY <1>1, <1>10, <2>1, <2>2
  <2>6. \A d \in Met' : \E p \in Ahead' : Its(p, d)'
    BY <1>10, <1>15, <2>1 DEF Its
  <2> QED
    BY <2>3, <2>4, <2>5, <2>6 DEF Known
<1>18. Known'
  BY <1>17 DEF Known
<1>19. Kept'
  BY <1>1 DEF ComboInv, Kept
<1> QED
  BY <1>4, <1>5, <1>7, <1>12, <1>14, <1>16, <1>18, <1>19 DEF ComboInv

(* A key is let go: the chord it was in fires, is dropped or ends.           *)

LEMMA WithoutIs ==
  ASSUME NEW q \in Seq(OutputType), NEW c, NEW p, p = Without(q, c)
  PROVE  /\ p \in Seq(OutputType) /\ Downs(p) \subseteq Downs(q)
         /\ InLine(q) => InLine(p)
         /\ \A i \in DOMAIN p : \E j \in DOMAIN q : p[i] = q[j]
         /\ (\A i, j \in DOMAIN q : q[i].combo = q[j].combo => i = j)
              => /\ \A i, j \in DOMAIN p : p[i].combo = p[j].combo => i = j
                 /\ \A i \in DOMAIN p : p[i].combo # c
<1> DEFINE at == {i \in DOMAIN q : q[i].combo = c}
<1>1. p = IF at = {} THEN q ELSE RemoveAt(q, Min(at))
  BY DEF Without
<1>2. DOMAIN q = 1 .. Len(q) /\ at \subseteq 1 .. Len(q) /\ at \subseteq Nat
  OBVIOUS
<1>3. CASE at = {}
  <2>1. p = q /\ \A i \in DOMAIN q : q[i].combo # c
    BY <1>1, <1>3
  <2> QED
    BY <2>1
<1>4. CASE at # {}
  <2>1. PICK k : k = Min(at)
    OBVIOUS
  <2>2. k \in at
    BY <1>2, <1>4, <2>1, MinIs
  <2>3. k \in 1 .. Len(q) /\ q[k].combo = c /\ p = RemoveAt(q, k)
    BY <1>1, <1>2, <1>4, <2>1, <2>2
  <2>4. /\ p \in Seq(OutputType) /\ Downs(p) \subseteq Downs(q)
        /\ InLine(q) => InLine(p)
        /\ \A i \in DOMAIN p : \E j \in DOMAIN q : j # k /\ p[i] = q[j]
        /\ (\A i, j \in DOMAIN q : q[i].combo = q[j].combo => i = j)
             => \A i, j \in DOMAIN p : p[i].combo = p[j].combo => i = j
    BY <2>3, RemovedLines
  <2>5. ASSUME \A i, j \in DOMAIN q : q[i].combo = q[j].combo => i = j, NEW i \in DOMAIN p
        PROVE  p[i].combo # c
    <3>1. PICK j \in DOMAIN q : j # k /\ p[i] = q[j]
      BY <2>4
    <3> QED
      BY <1>2, <2>3, <2>5, <3>1
  <2> QED
    BY <2>4, <2>5
<1> QED
  BY <1>3, <1>4

LEMMA SettledIs ==
  ASSUME NEW f \in [Combos -> {"idle", "prepared", "active", "spent"}], NEW n, NEW g, g = Settled(f, n)
  PROVE  /\ g \in [Combos -> {"idle", "prepared", "active", "spent"}]
         /\ \A c \in Combos : /\ g[c] = "active" => f[c] = "active"
                              /\ g[c] = f[c] \/ g[c] = "idle"
<1>1. g = f \/ g = [c \in Combos |-> IF f[c] = "active" THEN "active" ELSE "idle"]
  BY DEF Settled
<1> QED
  BY <1>1

Released(c, k, drop) ==
  LET left == [counted EXCEPT ![c] = @ \ {k}]
      ends1 == Active(c) /\ Cardinality(counted[c]) <= 1
      f == [flag EXCEPT ![c] = IF drop \/ ends1 THEN "spent" ELSE @]
  IN  /\ flag' = Settled(f, left)
      /\ counted' = [d \in Combos |-> IF Settled(f, left)[d] = "idle" /\ f[d] = "spent"
                                      THEN {} ELSE left[d]]
      /\ prepared' = IF drop THEN Without(prepared, c) ELSE prepared
      /\ dumping' = (prepared' # <<>>)
      /\ IF ends1 THEN Emit(Output(FALSE, c, 0)) ELSE UNCHANGED <<tapQueue, now, detained>>

LEMMA CountReleaseIs ==
  ASSUME Typed, NEW k \in MemberKeys, CountRelease(k), now = Nothing,
         NEW c, c = ComboOf(k)
  PROVE  /\ flag' \in [Combos -> {"idle", "prepared", "active", "spent"}]
         /\ counted' \in [Combos -> SUBSET MemberKeys]
         /\ dumping' = (prepared' # <<>>)
         /\ \A d \in Combos : /\ counted'[d] \subseteq counted[d] /\ (d = c => k \notin counted'[d])
                              /\ Active(d)' => Active(d)
         /\ \E r \in OutputType : ~r.down /\ (Emit(r) \/ UNCHANGED <<tapQueue, now>>)
         /\ \E drop \in BOOLEAN :
              /\ prepared' = IF drop THEN Without(prepared, c) ELSE prepared
              /\ \A d \in Combos : flag[d] = "prepared" /\ (drop => d # c) => flag'[d] \in {"idle", "prepared"}
<1> DEFINE left == [counted EXCEPT ![c] = @ \ {k}]
           ends1 == Active(c) /\ Cardinality(counted[c]) <= 1
<1>0. c \in Combos
  BY Chords
<1>1. PICK drop \in BOOLEAN : Released(c, k, drop)
  <2>1. \E drop \in {FALSE, flag[ComboOf(k)] = "prepared" /\ counted[ComboOf(k)] = Members(ComboOf(k))} :
           Released(ComboOf(k), k, drop)
    BY DEF CountRelease, Released
  <2> QED
    BY <2>1
<1>2. PICK f : f = [flag EXCEPT ![c] = IF drop \/ ends1 THEN "spent" ELSE @]
  OBVIOUS
<1>3. /\ flag \in [Combos -> {"idle", "prepared", "active", "spent"}]
      /\ counted \in [Combos -> SUBSET MemberKeys]
  BY DEF Typed, EngineTyped
<1>4. /\ f \in [Combos -> {"idle", "prepared", "active", "spent"}]
      /\ \A d \in Combos : /\ f[d] = "active" => flag[d] = "active"
                           /\ d # c \/ ~(drop \/ ends1) => f[d] = flag[d]
  BY <1>0, <1>2, <1>3
<1>5. /\ left \in [Combos -> SUBSET MemberKeys]
      /\ \A d \in Combos : left[d] \subseteq counted[d] /\ (d = c => k \notin left[d])
  BY <1>0, <1>3
<1> HIDE DEF left
<1>6. flag' = Settled(f, left)
  BY <1>1, <1>2 DEF Released, left
<1>7. /\ flag' \in [Combos -> {"idle", "prepared", "active", "spent"}]
      /\ \A d \in Combos : /\ flag'[d] = "active" => f[d] = "active"
                           /\ flag'[d] = f[d] \/ flag'[d] = "idle"
  BY <1>4, <1>6, SettledIs
<1>8. counted' = [d \in Combos |-> IF flag'[d] = "idle" /\ f[d] = "spent" THEN {} ELSE left[d]]
  BY <1>1, <1>2, <1>6 DEF Released, left
<1>9. /\ counted' \in [Combos -> SUBSET MemberKeys]
      /\ \A d \in Combos : counted'[d] \subseteq counted[d] /\ (d = c => k \notin counted'[d])
  BY <1>5, <1>8
<1>10. \A d \in Combos : Active(d)' => Active(d)
  BY <1>4, <1>7 DEF Active
<1>11. Output(FALSE, c, 0) \in OutputType /\ ~Output(FALSE, c, 0).down
  BY <1>0 DEF Output, OutputType
<1>12. \E r \in OutputType : ~r.down /\ (Emit(r) \/ UNCHANGED <<tapQueue, now>>)
  BY <1>1, <1>11 DEF Released
<1>13. ASSUME NEW d \in Combos, flag[d] = "prepared", drop => d # c
       PROVE  flag'[d] \in {"idle", "prepared"}
  <2>1. d = c => ~ends1
    BY <1>13 DEF Active
  <2>2. f[d] = "prepared"
    BY <1>4, <1>13, <2>1
  <2> QED
    BY <1>7, <2>2
<1>14. prepared' = (IF drop THEN Without(prepared, c) ELSE prepared) /\ dumping' = (prepared' # <<>>)
  BY <1>1 DEF Released
<1> QED
  BY <1>7, <1>9, <1>10, <1>12, <1>13, <1>14

LEMMA KeyUpInv == ASSUME ComboInv, NEW k \in MemberKeys, KeyUp(k) PROVE ComboInv'
<1>1. /\ now = Nothing /\ ~dumping /\ (tapping # Nothing \/ tapQueue = <<>>)
      /\ CountRelease(k) /\ pending' = Reconcile /\ seq' = [seq EXCEPT ![k] = 0]
      /\ UNCHANGED <<presses, lastPress, sincePress, cache, deliveries, tapping, parked, pass, replaced>>
  BY DEF KeyUp, Idle
<1>2. PICK c : c = ComboOf(k)
  OBVIOUS
<1>3. /\ flag' \in [Combos -> {"idle", "prepared", "active", "spent"}]
      /\ counted' \in [Combos -> SUBSET MemberKeys]
      /\ dumping' = (prepared' # <<>>)
      /\ \A d \in Combos : /\ counted'[d] \subseteq counted[d] /\ (d = c => k \notin counted'[d])
                           /\ Active(d)' => Active(d)
      /\ \E r \in OutputType : ~r.down /\ (Emit(r) \/ UNCHANGED <<tapQueue, now>>)
      /\ \E drop \in BOOLEAN :
           /\ prepared' = IF drop THEN Without(prepared, c) ELSE prepared
           /\ \A d \in Combos : flag[d] = "prepared" /\ (drop => d # c) => flag'[d] \in {"idle", "prepared"}
  BY <1>1, <1>2, CountReleaseIs DEF ComboInv
<1>4. PICK r \in OutputType : ~r.down /\ (Emit(r) \/ UNCHANGED <<tapQueue, now>>)
  BY <1>3
<1>5. PICK drop \in BOOLEAN :
        /\ prepared' = IF drop THEN Without(prepared, c) ELSE prepared
        /\ \A d \in Combos : flag[d] = "prepared" /\ (drop => d # c) => flag'[d] \in {"idle", "prepared"}
  BY <1>3
<1>6. /\ tapQueue' \in Seq(OutputType) /\ now' \in NowType \cup {Nothing} /\ InLine(tapQueue)'
      /\ Passing("in")' = {} /\ Before(Passing("out")', Downs(tapQueue)')
      /\ Ahead' = Ahead /\ Behind' = Behind /\ Downs(tapQueue)' \subseteq Downs(tapQueue)
      /\ tapping = Nothing => tapQueue' = tapQueue
  <2>1. tapQueue \in Seq(OutputType) /\ InLine(tapQueue)
    BY DEF ComboInv, Typed, QueuesTyped, Lined
  <2>2. CASE Emit(r)
    <3>1. /\ tapQueue' \in Seq(OutputType) /\ now' \in NowType \cup {Nothing} /\ InLine(tapQueue)'
          /\ Passing("in")' = {} /\ Before(Passing("out")', Downs(tapQueue)')
          /\ Ahead' = Ahead /\ Behind' = (IF r.down THEN Behind \cup {r} ELSE Behind)
          /\ Downs(tapQueue)' \subseteq Downs(tapQueue) \cup (IF r.down THEN {r} ELSE {})
          /\ tapping = Nothing => tapQueue' = tapQueue
      BY <1>1, <1>4, <2>1, <2>2, EmitIs
    <3> QED
      BY <1>4, <3>1
  <2>3. CASE UNCHANGED <<tapQueue, now>>
    <3>1. \A at : Passing(at)' = {} /\ Passing(at) = {}
      BY <1>1, <2>3 DEF Passing
    <3>2. Downs(parked)' = Downs(parked) /\ Downs(tapQueue)' = Downs(tapQueue) /\ InLine(tapQueue)'
      BY <1>1, <2>1, <2>3
    <3>3. Ahead' = Ahead /\ Behind' = Behind
      BY <3>1, <3>2 DEF Ahead, Behind
    <3>4. Before(Passing("out")', Downs(tapQueue)')
      BY <3>1 DEF Before
    <3> QED
      BY <1>1, <2>1, <2>3, <3>1, <3>2, <3>3, <3>4
  <2> QED
    BY <1>4, <2>2, <2>3
<1>7. /\ prepared' \in Seq(OutputType) /\ Downs(prepared)' \subseteq Downs(prepared) /\ InLine(prepared)'
      /\ \A i \in DOMAIN prepared' : \E j \in DOMAIN prepared : prepared'[i] = prepared[j]
      /\ \A i, j \in DOMAIN prepared' : prepared'[i].combo = prepared'[j].combo => i = j
      /\ \A i \in DOMAIN prepared' : drop => prepared'[i].combo # c
  <2>1. /\ prepared \in Seq(OutputType) /\ InLine(prepared)
        /\ \A i, j \in DOMAIN prepared : prepared[i].combo = prepared[j].combo => i = j
    BY DEF ComboInv, Typed, QueuesTyped, Lined, Ready
  <2>2. CASE drop
    <3>1. prepared' = Without(prepared, c)
      BY <1>5, <2>2
    <3> QED
      BY <2>1, <3>1, WithoutIs
  <2>3. CASE ~drop
    <3>1. prepared' = prepared
      BY <1>5, <2>3
    <3> QED
      BY <2>1, <2>3, <3>1
  <2> QED
    BY <2>2, <2>3
<1>8. ASSUME NEW d \in Combos
      PROVE  /\ pending'[d] \in EntryType \cup {Nothing}
             /\ Has(d)' => /\ Has(d) /\ pending'[d].gen = pending[d].gen /\ pending'[d].age = pending[d].age
                           /\ pending'[d].pressed = pending[d].pressed /\ (Fired(d)' <=> Fired(d))
                           /\ pending'[d].owner = pending[d].owner /\ pending'[d].keys = pending[d].keys
                           /\ (pending'[d].applied <=> Fired(d))
             /\ Has(d) /\ (Fired(d) \/ ~Disabled(d)) => Has(d)'
  <2>1. PICK e : e = Reconcile[d]
    OBVIOUS
  <2>2. e \in EntryType \cup {Nothing} /\ Carried(d, e)
    BY <2>1, ReconcileIs DEF ComboInv
  <2>3. pending'[d] = e
    BY <1>1, <2>1
  <2>4. Active(d)' => Fired(d)
    BY <1>3 DEF Fired
  <2>5. Has(d)' <=> e # Nothing
    BY <2>3 DEF Has
  <2>6. e # Nothing => (Fired(d)' <=> Fired(d))
    BY <2>2, <2>3, <2>4 DEF Carried, Fired
  <2> QED
    BY <2>2, <2>3, <2>5, <2>6 DEF Carried
<1>9. Typed'
  <2>1. seq \in [MemberKeys -> Nat] /\ presses \in Nat /\ \A j \in MemberKeys : seq[j] <= presses
    BY DEF ComboInv, Typed, KeysTyped
  <2>2. /\ seq' \in [MemberKeys -> Nat] /\ \A j \in MemberKeys : seq'[j] <= presses
        /\ \A j \in MemberKeys : j # k => seq'[j] = seq[j]
    BY <1>1, <2>1
  <2>3. KeysTyped'
    BY <1>1, <2>1, <2>2 DEF ComboInv, Typed, KeysTyped
  <2>4. ASSUME NEW d \in Combos, NEW j \in counted'[d] PROVE j \in Members(d) /\ seq'[j] > 0
    <3>1. j \in counted[d] /\ (d = c => j # k)
      BY <1>3
    <3>2. j \in Members(d) /\ seq[j] > 0 /\ j \in MemberKeys
      BY <3>1 DEF ComboInv, Typed, EngineTyped
    <3>3. j # k
      BY <1>2, <3>1, <3>2, Chords
    <3> QED
      BY <2>2, <3>2, <3>3
  <2>5. dumping' \in BOOLEAN /\ replaced' \in BOOLEAN
    BY <1>1, <1>3 DEF ComboInv, Typed, EngineTyped
  <2>6. EngineTyped'
    BY <1>3, <2>4, <2>5 DEF EngineTyped
  <2>7. QueuesTyped'
    BY <1>1, <1>6, <1>7 DEF ComboInv, Typed, QueuesTyped
  <2>8. pending' \in [Combos -> EntryType \cup {Nothing}]
    BY <1>1, <1>8 DEF Reconcile
  <2>9. TablesTyped'
    BY <1>1, <2>8 DEF ComboInv, Typed, TablesTyped, Slots
  <2> QED
    BY <2>3, <2>6, <2>7, <2>9 DEF Typed
<1>10. Entries'
  <2>1. ASSUME NEW d \in Combos, Has(d)'
        PROVE  /\ pending'[d].owner = Owner(d) /\ pending'[d].keys = Members(d)
               /\ pending'[d].gen <= presses' /\ (~pending'[d].applied => pending'[d].age = 0)
    <3>1. /\ Has(d) /\ pending'[d].gen = pending[d].gen /\ pending'[d].age = pending[d].age
          /\ pending'[d].owner = pending[d].owner /\ pending'[d].keys = pending[d].keys
          /\ (pending[d].applied => pending'[d].applied)
      BY <1>8, <2>1 DEF Fired
    <3> QED
      BY <1>1, <3>1 DEF ComboInv, Entries
  <2>2. \A s \in Slots : cache'[s] # Nothing => cache'[s].gen <= presses'
    BY <1>1 DEF ComboInv, Entries
  <2> QED
    BY <2>1, <2>2 DEF Entries, Slots
<1>11. Lined'
  <2>1. InLine(parked)' /\ Before(Passing("in")', Downs(parked)')
    BY <1>1, <1>6 DEF ComboInv, Lined, Before
  <2>2. Before(Ahead', Behind') /\ Before(Ahead' \cup Behind', Downs(prepared)')
    BY <1>6, <1>7 DEF ComboInv, Lined, Before
  <2>3. Recent(Ahead)' /\ Recent(Behind)' /\ Recent(Downs(prepared))'
    BY <1>1, <1>6, <1>7 DEF ComboInv, Lined, Recent
  <2> QED
    BY <1>6, <1>7, <2>1, <2>2, <2>3 DEF Lined
<1>12. Candidates'
  <2> SUFFICES ASSUME NEW d \in Combos, Has(d)', ~pending'[d].pressed, Fired(d)'
               PROVE  \E p \in Behind' : Its(p, d)'
    BY DEF Candidates
  <2>1. Has(d) /\ ~pending[d].pressed /\ Fired(d) /\ pending'[d].gen = pending[d].gen
    BY <1>8
  <2>2. PICK p \in Behind : Its(p, d)
    BY <2>1 DEF ComboInv, Candidates
  <2> QED
    BY <1>6, <2>1, <2>2 DEF Its
<1>13. \A d \in Met' : d \in Met /\ pending'[d].gen = pending[d].gen
  BY <1>8 DEF Met
<1>14. Tallied'
  <2>1. Met' \subseteq Met
    BY <1>13
  <2>2. IsFiniteSet(Met') /\ Cardinality(Met') <= Cardinality(Met)
    BY <2>1, MetFinite, FS_Subset
  <2>3. Cardinality(Met') \in Nat
    BY <2>2, FS_CardinalityType
  <2> QED
    BY <1>6, <2>2, <2>3, MetFinite, AheadFinite DEF ComboInv, Tallied
<1>15. ASSUME ~replaced' PROVE Known'
  <2>0. ~replaced
    BY <1>1, <1>15
  <2>1. /\ \A p \in Behind : MeetsEntry(p) /\ ~pending[p.combo].pressed
        /\ \A p \in Ahead : MeetsEntry(p) /\ pending[p.combo].pressed
        /\ \A p \in Downs(tapQueue) : tapping # Nothing => pending[p.combo].age <= tapping
        /\ \A d \in Met : \E p \in Ahead : Its(p, d)
    BY <2>0 DEF ComboInv, Known
  <2>2. \A p \in Ahead \cup Behind : p.combo \in Combos
    BY OnTheWay DEF ComboInv
  <2>3. ASSUME NEW p \in Ahead \cup Behind
        PROVE  /\ MeetsEntry(p)' /\ pending'[p.combo].age = pending[p.combo].age
               /\ pending'[p.combo].pressed = pending[p.combo].pressed
    <3>1. PICK d : d = p.combo
      OBVIOUS
    <3>2. d \in Combos /\ Has(d) /\ p.gen = pending[d].gen /\ Fired(d)
      BY <2>1, <2>2, <2>3, <3>1 DEF MeetsEntry, Its
    <3>3. Has(d)'
      BY <1>8, <3>2
    <3> QED
      BY <1>8, <3>1, <3>2, <3>3 DEF MeetsEntry, Its
  <2>4. \A p \in Behind' : MeetsEntry(p)' /\ ~pending'[p.combo].pressed
    BY <1>6, <2>1, <2>3
  <2>5. \A p \in Ahead' : MeetsEntry(p)' /\ pending'[p.combo].pressed
    BY <1>6, <2>1, <2>3
  <2>6. ASSUME NEW p \in Downs(tapQueue)', tapping' # Nothing PROVE pending'[p.combo].age <= tapping'
    <3>1. p \in Downs(tapQueue) /\ p \in Behind /\ tapping' = tapping
      BY <1>1, <1>6, <2>6 DEF Behind
    <3> QED
      BY <2>1, <2>3, <2>6, <3>1
  <2>7. \A d \in Met' : \E p \in Ahead' : Its(p, d)'
    BY <1>6, <1>13, <2>1 DEF Its
  <2> QED
    BY <2>4, <2>5, <2>6, <2>7 DEF Known
<1>16. Known'
  BY <1>15 DEF Known
<1>17. Ready'
  <2>1. ASSUME NEW i \in DOMAIN prepared' PROVE Waiting(prepared[i])'
    <3>1. PICK p : p = prepared'[i]
      OBVIOUS
    <3>2. PICK j \in DOMAIN prepared : p = prepared[j]
      BY <1>7, <3>1
    <3>3. Waiting(p) /\ p.combo \in Combos
      BY <3>2, PreparedIs DEF ComboInv, Ready
    <3>4. /\ Has(p.combo) /\ ~pending[p.combo].applied /\ flag[p.combo] = "prepared"
          /\ ~pending[p.combo].pressed /\ p.gen = pending[p.combo].gen /\ p.down
      BY <1>1, <3>3 DEF Waiting, Its
    <3>5. ~Disabled(p.combo) /\ ~Fired(p.combo)
      BY <3>4 DEF Active, Disabled, Fired
    <3>6. Has(p.combo)'
      BY <1>8, <3>3, <3>4, <3>5
    <3>7. Its(p, p.combo)' /\ ~pending'[p.combo].pressed /\ ~pending'[p.combo].applied
      BY <1>8, <3>3, <3>4, <3>5, <3>6 DEF Its
    <3>8. flag'[p.combo] \in {"idle", "prepared"}
      BY <1>5, <1>7, <3>1, <3>3, <3>4
    <3>9. dumping'
      <4>1. prepared' # <<>>
        BY <2>1
      <4> QED
        BY <1>3, <4>1
    <3>10. Waiting(p)'
      BY <3>4, <3>6, <3>7, <3>8, <3>9 DEF Waiting
    <3> QED
      BY <3>1, <3>10
  <2> QED
    BY <1>7, <2>1 DEF Ready
<1>18. Kept'
  <2>1. dumping' => prepared' # <<>>
    BY <1>3
  <2>2. tapping' = Nothing => tapQueue' = <<>>
    BY <1>1, <1>6
  <2>3. pass' = "replay" => parked' # <<>>
    BY <1>1 DEF ComboInv, Kept
  <2> QED
    BY <2>1, <2>2, <2>3 DEF Kept
<1> QED
  BY <1>9, <1>10, <1>11, <1>12, <1>14, <1>16, <1>17, <1>18 DEF ComboInv

------------------------------------------------------------------------------
(* The theorems.                                                             *)

LEMMA ComboInitInv == ASSUME ComboInit PROVE ComboInv
<1>1. /\ seq = [k \in MemberKeys |-> 0] /\ presses = 0
      /\ lastPress = Nothing /\ sincePress = 0
      /\ pending = [c \in Combos |-> Nothing]
      /\ cache = [s \in Slots |-> Nothing] /\ deliveries = 0
      /\ flag = [c \in Combos |-> "idle"] /\ counted = [c \in Combos |-> {}]
      /\ prepared = <<>> /\ dumping = FALSE
      /\ tapping = Nothing /\ tapQueue = <<>> /\ parked = <<>>
      /\ now = Nothing /\ pass = "events" /\ replaced = FALSE
  BY DEF ComboInit
<1>2. Typed
  <2>1. KeysTyped
    BY <1>1 DEF KeysTyped
  <2>2. EngineTyped
    BY <1>1 DEF EngineTyped
  <2>3. QueuesTyped
    BY <1>1 DEF QueuesTyped
  <2>4. TablesTyped
    BY <1>1 DEF TablesTyped
  <2> QED
    BY <2>1, <2>2, <2>3, <2>4 DEF Typed
<1>3. (\A c \in Combos : ~Has(c)) /\ \A s \in Slots : cache[s] = Nothing
  BY <1>1 DEF Has
<1>4. Entries /\ Candidates
  BY <1>3 DEF Entries, Candidates
<1>5. Downs(parked) = {} /\ Downs(tapQueue) = {} /\ Downs(prepared) = {}
  BY <1>1 DEF Downs
<1>6. Passing("in") = {} /\ Passing("out") = {}
  BY <1>1, PassingIs
<1>7. Ahead = {} /\ Behind = {}
  BY <1>5, <1>6 DEF Ahead, Behind
<1>8. InLine(parked) /\ InLine(tapQueue) /\ InLine(prepared)
  BY <1>1 DEF InLine
<1>9. Lined
  BY <1>5, <1>6, <1>7, <1>8 DEF Lined, Before, Recent
<1>10. Met = {}
  BY <1>3 DEF Met
<1>11. Tallied
  BY <1>7, <1>10, FS_EmptySet DEF Tallied
<1>12. Known
  BY <1>5, <1>7, <1>10 DEF Known
<1>13. Ready /\ Kept
  BY <1>1 DEF Ready, Kept
<1> QED
  BY <1>2, <1>4, <1>9, <1>11, <1>12, <1>13 DEF ComboInv

LEMMA ComboStutter == ASSUME ComboInv, UNCHANGED comboVars PROVE ComboInv'
<1>1. /\ seq' = seq /\ presses' = presses /\ lastPress' = lastPress /\ sincePress' = sincePress
      /\ pending' = pending /\ cache' = cache /\ deliveries' = deliveries
      /\ flag' = flag /\ counted' = counted /\ prepared' = prepared /\ dumping' = dumping
      /\ tapping' = tapping /\ tapQueue' = tapQueue /\ parked' = parked
      /\ now' = now /\ pass' = pass /\ replaced' = replaced
  BY DEF comboVars, physical, tables, engine, waiting, ghosts
<1>2. Typed'
  BY <1>1 DEF ComboInv, Typed, KeysTyped, EngineTyped, QueuesTyped, TablesTyped, Slots
<1>3. Lined' /\ Ahead' = Ahead /\ Behind' = Behind
  BY <1>1, LinedRests DEF ComboInv, QueuesRest
<1>4. Entries' /\ Candidates' /\ Tallied' /\ Known'
  <2>1. \A r \in Downs(tapQueue)' : r \in Downs(tapQueue) /\ r.combo \in Combos
    <3>1. Downs(tapQueue)' = Downs(tapQueue)
      BY <1>1
    <3> QED
      BY <3>1, OnTheWay DEF ComboInv
  <2>2. tapping' # Nothing => tapping \in Nat /\ tapping' \in Nat /\ tapping <= tapping' /\ tapping # Nothing
    BY <1>1 DEF ComboInv, Typed, QueuesTyped
  <2>3. UNCHANGED <<tables, flag, presses, replaced>>
    BY <1>1 DEF tables
  <2> QED
    BY <1>3, <2>1, <2>2, <2>3, AgesAre, TablesRest DEF ComboInv, Typed
<1>5. Ready'
  BY <1>1, ReadyRests DEF ComboInv, tables
<1>6. Kept'
  BY <1>1 DEF ComboInv, Kept
<1> QED
  BY <1>2, <1>3, <1>4, <1>5, <1>6 DEF ComboInv

LEMMA ComboNextInv == ASSUME FireTerm < Wait, ComboInv, ComboNext PROVE ComboInv'
<1>1. CASE \E t \in 0 .. 1 : PassOver(t)
  BY <1>1, PassInv
<1>2. CASE \E k \in MemberKeys : KeyDown(k) \/ KeyUp(k)
  BY <1>2, KeyDownInv, KeyUpInv
<1>3. CASE ReplayOutput \/ Deliver \/ Dispatch \/ Fire \/ TapQueueLeaves \/ StartDump
  BY <1>3, ReplayOutputInv, DeliverInv, DispatchInv, FireInv, TapQueueLeavesInv, StartDumpInv
<1>4. CASE TapKeyDown \/ TapKeyDecided \/ UndecidedDown \/ Decide
  BY <1>4, TapKeyInv, TapHoldInv
<1> QED
  BY <1>1, <1>2, <1>3, <1>4 DEF ComboNext

(* Only a dispatch tells where an output came from.                          *)
LEMMA OthersSendNothing == ASSUME ComboNext, ~Dispatch PROVE sent' = Nothing
BY DEF ComboNext, ReplayOutput, Deliver, Fire, TapQueueLeaves, StartDump, PassOver, TapKeyDown,
       TapKeyDecided, UndecidedDown, Decide, KeyDown, KeyUp

LEMMA MeetsNext ==
  ASSUME ComboInv, PressMeetsItsChord, ComboNext \/ UNCHANGED comboVars PROVE PressMeetsItsChord'
<1>1. CASE Dispatch
  <2>1. ASSUME now.rec.down PROVE PressMeetsItsChord'
    BY <1>1, <2>1, DispatchMeets DEF PressMeetsItsChord
  <2>2. ASSUME ~now.rec.down PROVE PressMeetsItsChord'
    <3>1. PICK r : r = now.rec
      OBVIOUS
    <3>2. r \in OutputType /\ ~r.down /\ DispatchRelease(r)
      BY <1>1, <2>2, <3>1 DEF Dispatch, ComboInv, Typed, QueuesTyped, NowType
    <3>3. ASSUME CacheForDispatch = Nothing PROVE ~sent'.rec.down
      <4>1. sent' = [rec |-> r, owner |-> Nothing, keys |-> {}]
        BY <3>2, <3>3 DEF DispatchRelease
      <4> QED
        BY <3>2, <4>1
    <3>4. ASSUME CacheForDispatch # Nothing PROVE ~sent'.rec.down
      <4>1. \E x, o, ks : sent' = [rec |-> [r EXCEPT !.combo = x], owner |-> o, keys |-> ks]
        BY <3>2, <3>4 DEF DispatchRelease
      <4>2. PICK x, o, ks : sent' = [rec |-> [r EXCEPT !.combo = x], owner |-> o, keys |-> ks]
        BY <4>1
      <4>3. [r EXCEPT !.combo = x].down = r.down
        BY <3>2 DEF OutputType
      <4> QED
        BY <3>2, <4>2, <4>3
    <3>5. ~sent'.rec.down => PressMeetsItsChord'
      BY DEF PressMeetsItsChord
    <3> QED
      BY <3>3, <3>4, <3>5
  <2> QED
    BY <2>1, <2>2
<1>2. CASE ComboNext /\ ~Dispatch
  BY <1>2, OthersSendNothing DEF PressMeetsItsChord
<1>3. CASE UNCHANGED comboVars
  <2>1. sent' = sent /\ replaced' = replaced
    BY <1>3 DEF comboVars, ghosts
  <2> QED
    BY <2>1 DEF PressMeetsItsChord
<1> QED
  BY <1>1, <1>2, <1>3

(* Every record on its way has its types and its place in the line, and      *)
(* every press on its way the entry it was completed with.                   *)
THEOREM ComboOriginInvariant == ASSUME FireTerm < Wait PROVE ComboSpec => []ComboInv
<1>1. ComboInit => ComboInv
  BY ComboInitInv
<1>2. ComboInv /\ [ComboNext]_comboVars => ComboInv'
  BY ComboNextInv, ComboStutter
<1> QED
  BY <1>1, <1>2, PTL DEF ComboSpec

(* An output's press is given to the chord that fired it, whatever was       *)
(* fired, let go or pressed again while it waited                            *)
(* (noah_qmk_combo_origin_normalize_record), where QMK fires a chord before  *)
(* its completion's deadline.                                                *)
THEOREM PressMeetsItsChordHolds == ASSUME FireTerm < Wait PROVE ComboSpec => []PressMeetsItsChord
<1>1. ComboInit => ComboInv /\ PressMeetsItsChord
  BY ComboInitInv DEF ComboInit, PressMeetsItsChord
<1>2. ComboInv /\ PressMeetsItsChord /\ [ComboNext]_comboVars => (ComboInv /\ PressMeetsItsChord)'
  BY ComboNextInv, ComboStutter, MeetsNext
<1>3. ComboInv /\ PressMeetsItsChord => PressMeetsItsChord
  OBVIOUS
<1> QED
  BY <1>1, <1>2, <1>3, PTL DEF ComboSpec
================================================================================
