----------------------------- MODULE RuntimeProofs -----------------------------
(* Two components that share nothing: the macro engine (MacroRun), for any    *)
(* keys, programs and hosts, and the publication another thread renders       *)
(* (RuntimePublication), for any packets and fields, any even width of the    *)
(* generation and any number of attempts.                                     *)
(*                                                                            *)
(* The engine's invariant says three things of every state: every owner of a  *)
(* usage is accounted for and the report shows what it should (Board), the    *)
(* host's Caps Lock and entry are where the engine's flags say (Hosted), and  *)
(* each phase leaves what the phases after it rely on (Placed).               *)
EXTENDS MacroRun, RuntimePublication, TLAPS, FiniteSetTheorems, SequenceTheorems, WellFoundedInduction

LEMMA KeysAre ==
  /\ Mods \subseteq Keys /\ LiveKeys \subseteq Keys /\ Alt \in Mods
  /\ {Caps, Esc, Digit, Trigger, Commit} \subseteq Keys
  /\ {Caps, Esc, Digit, Trigger, Commit} \cap (Mods \cup LiveKeys) = {}
  /\ Caps # Trigger /\ Caps # Digit /\ Caps # Esc /\ Caps # Commit
  /\ Trigger # Digit /\ Trigger # Esc /\ Trigger # Commit /\ Digit # Esc /\ Digit # Commit
  /\ Most \in Nat /\ Most # 0
  /\ Alt \notin {Caps, Trigger}
BY KeysAssumption

------------------------------------------------------------------------------
(* Sequences of keys: who is in one, how often, and each only once.         *)

Count(q, k) == Cardinality({i \in DOMAIN q : q[i] = k})
Once(q) == \A i, j \in DOMAIN q : q[i] = q[j] => i = j

LEMMA Least ==
  ASSUME NEW T, T \subseteq Nat, T # {}
  PROVE  \E i \in T : \A j \in T : i <= j
<1>1. PICK i \in T : \A j \in T : <<j, i>> \notin OpToRel(<, Nat)
  BY NatLessThanWellFounded, WFMin
<1>2. \A j \in T : ~(j < i)
  BY <1>1 DEF OpToRel
<1> QED
  BY <1>2

LEMMA Upto ==
  ASSUME NEW n \in Nat, NEW T, 0 \in T, \A i \in 1 .. n : i - 1 \in T => i \in T
  PROVE  n \in T
<1> SUFFICES ASSUME n \notin T PROVE FALSE
  OBVIOUS
<1> DEFINE M == {i \in 0 .. n : i \notin T}
<1>1. M \subseteq Nat /\ n \in M
  OBVIOUS
<1>2. PICK i \in M : \A j \in M : i <= j
  <2> HIDE DEF M
  <2> QED
    BY <1>1, Least
<1>3. i \in 1 .. n /\ i - 1 \notin M
  BY <1>2
<1>4. i - 1 \in T
  BY <1>3
<1> QED
  BY <1>2, <1>3, <1>4

LEMMA InSeq ==
  ASSUME NEW S, NEW q \in Seq(S)
  PROVE  /\ Len(q) \in Nat /\ DOMAIN q = 1 .. Len(q) /\ ToSet(q) \subseteq S
         /\ \A i \in 1 .. Len(q) : q[i] \in S /\ q[i] \in ToSet(q)
         /\ \A k \in ToSet(q) : \E i \in 1 .. Len(q) : q[i] = k
         /\ (q = <<>> <=> Len(q) = 0) /\ (q = <<>> <=> ToSet(q) = {})
<1>1. Len(q) \in Nat /\ DOMAIN q = 1 .. Len(q) /\ (\A i \in 1 .. Len(q) : q[i] \in S)
  BY LenProperties, ElementOfSeq
<1>2. ToSet(q) = {q[i] : i \in 1 .. Len(q)}
  BY <1>1 DEF ToSet
<1>3. q = <<>> <=> Len(q) = 0
  BY EmptySeq
<1>4. ToSet(q) = {} <=> Len(q) = 0
  BY <1>1, <1>2
<1> QED
  BY <1>1, <1>2, <1>3, <1>4

LEMMA AppendIn ==
  ASSUME NEW S, NEW q \in Seq(S), NEW k \in S
  PROVE  /\ Append(q, k) \in Seq(S) /\ Append(q, k) # <<>>
         /\ Len(Append(q, k)) = Len(q) + 1
         /\ ToSet(Append(q, k)) = ToSet(q) \cup {k}
         /\ \A m : Count(Append(q, k), m) = Count(q, m) + (IF m = k THEN 1 ELSE 0)
         /\ Once(q) /\ k \notin ToSet(q) => Once(Append(q, k))
<1> DEFINE r == Append(q, k)
           n == Len(q)
<1>1. r \in Seq(S) /\ r # <<>> /\ Len(r) = n + 1 /\ r[n + 1] = k /\ \A i \in 1 .. n : r[i] = q[i]
  BY AppendProperties
<1>2. n \in Nat /\ DOMAIN q = 1 .. n
  BY InSeq
<1>3. DOMAIN r = 1 .. n + 1
  BY <1>1, InSeq
<1> HIDE DEF r, n
<1>4. ToSet(r) = ToSet(q) \cup {k}
  BY <1>1, <1>2, <1>3 DEF ToSet
<1>5. ASSUME NEW m PROVE Count(r, m) = Count(q, m) + (IF m = k THEN 1 ELSE 0)
  <2> DEFINE A == {i \in DOMAIN q : q[i] = m}
             B == {i \in DOMAIN r : r[i] = m}
  <2>1. IsFiniteSet(A) /\ n + 1 \notin A
    <3>1. A \in SUBSET (1 .. n) /\ IsFiniteSet(1 .. n)
      BY <1>2, FS_Interval
    <3> QED
      BY <1>2, <3>1, FS_Subset
  <2>2. B = IF m = k THEN A \cup {n + 1} ELSE A
    <3>1. CASE m = k
      <4>1. ASSUME NEW i PROVE i \in B <=> i \in A \cup {n + 1}
        BY <1>1, <1>2, <1>3, <3>1
      <4> HIDE DEF A, B
      <4> QED
        BY <3>1, <4>1
    <3>2. CASE m # k
      <4>1. ASSUME NEW i PROVE i \in B <=> i \in A
        BY <1>1, <1>2, <1>3, <3>2
      <4> HIDE DEF A, B
      <4> QED
        BY <3>2, <4>1
    <3> QED
      BY <3>1, <3>2
  <2> HIDE DEF A, B
  <2>3. Cardinality(B) = Cardinality(A) + (IF m = k THEN 1 ELSE 0)
    <3>1. Cardinality(A) \in Nat /\ Cardinality(A \cup {n + 1}) = Cardinality(A) + 1
      <4>1. Cardinality(A \cup {n + 1}) = IF n + 1 \in A THEN Cardinality(A) ELSE Cardinality(A) + 1
        BY <2>1, FS_AddElement, Zenon
      <4> QED
        BY <2>1, <4>1, FS_CardinalityType
    <3> QED
      BY <2>2, <3>1
  <2> QED
    BY <2>3 DEF A, B, Count
<1>6. Once(q) /\ k \notin ToSet(q) => Once(r)
  BY <1>1, <1>2, <1>3 DEF Once, ToSet
<1> QED
  BY <1>1, <1>4, <1>5, <1>6 DEF r, n

LEMMA CountIn ==
  ASSUME NEW S, NEW q \in Seq(S), NEW k
  PROVE  /\ Count(q, k) \in Nat
         /\ k \in ToSet(q) <=> Count(q, k) # 0
         /\ q = <<>> => Count(q, k) = 0
<1> DEFINE A == {i \in DOMAIN q : q[i] = k}
<1>1. IsFiniteSet(A)
  <2>1. A \in SUBSET (1 .. Len(q))
    BY InSeq
  <2>2. IsFiniteSet(1 .. Len(q))
    <3>1. 1 \in Int /\ Len(q) \in Int
      BY InSeq
    <3> QED
      BY <3>1, FS_Interval
  <2> HIDE DEF A
  <2> QED
    BY <2>1, <2>2, FS_Subset
<1>2. k \in ToSet(q) <=> A # {}
  BY InSeq DEF ToSet
<1>3. q = <<>> => A = {}
  BY InSeq
<1> HIDE DEF A
<1>4. Cardinality(A) \in Nat /\ (Cardinality(A) = 0 <=> A = {})
  BY <1>1, FS_CardinalityType, FS_EmptySet
<1> QED
  BY <1>2, <1>3, <1>4 DEF A, Count

LEMMA FrontIn ==
  ASSUME NEW S, NEW q \in Seq(S), q # <<>>
  PROVE  /\ Front(q) \in Seq(S) /\ Last(q) \in S /\ Last(q) \in ToSet(q)
         /\ Len(Front(q)) = Len(q) - 1
         /\ ToSet(Front(q)) \subseteq ToSet(q)
         /\ ToSet(q) = ToSet(Front(q)) \cup {Last(q)}
         /\ \A k : Count(q, k) = Count(Front(q), k) + (IF k = Last(q) THEN 1 ELSE 0)
         /\ Once(q) => Once(Front(q)) /\ Last(q) \notin ToSet(Front(q))
<1> DEFINE n == Len(q)
<1>1. n \in Nat /\ n # 0 /\ DOMAIN q = 1 .. n /\ Last(q) = q[n] /\ q[n] \in S
  BY InSeq DEF Last
<1>2. Front(q) \in Seq(S) /\ Len(Front(q)) = n - 1 /\ \A i \in 1 .. n - 1 : Front(q)[i] = q[i]
  <2>1. \A i \in 1 .. n - 1 : q[i] \in S
    BY <1>1, InSeq
  <2> HIDE DEF n
  <2>2. 1 \in Int /\ n - 1 \in Int
    BY <1>1
  <2>3. Front(q) = SubSeq(q, 1, n - 1)
    BY DEF Front, n
  <2>4. /\ SubSeq(q, 1, n - 1) \in Seq(S)
        /\ Len(SubSeq(q, 1, n - 1)) = IF 1 <= n - 1 THEN n - 1 - 1 + 1 ELSE 0
        /\ \A i \in 1 .. n - 1 - 1 + 1 : SubSeq(q, 1, n - 1)[i] = q[1 + i - 1]
    BY <2>1, <2>2, SubSeqProperties
  <2> QED
    BY <1>1, <2>3, <2>4
<1> HIDE DEF n
<1>3. Append(Front(q), Last(q)) = q
  <2> DEFINE r == Append(Front(q), Last(q))
  <2>1. r \in Seq(S) /\ Len(r) = n - 1 + 1 /\ r[n - 1 + 1] = q[n] /\ \A i \in 1 .. n - 1 : r[i] = q[i]
    BY <1>1, <1>2, AppendProperties
  <2> HIDE DEF r
  <2>2. Len(r) = Len(q) /\ \A i \in 1 .. Len(r) : r[i] = q[i]
    BY <1>1, <2>1 DEF n
  <2>3. r = q
    BY <2>1, <2>2, SeqEqual
  <2> QED
    BY <2>3 DEF r
<1>4. ToSet(q) = ToSet(Front(q)) \cup {Last(q)} /\ \A k : Count(q, k) = Count(Front(q), k) + (IF k = Last(q) THEN 1 ELSE 0)
  <2> DEFINE f == Front(q)
             e == Last(q)
  <2>1. f \in Seq(S) /\ e \in S /\ Append(f, e) = q
    BY <1>1, <1>2, <1>3
  <2> HIDE DEF f, e
  <2>2. /\ ToSet(Append(f, e)) = ToSet(f) \cup {e}
        /\ \A k : Count(Append(f, e), k) = Count(f, k) + (IF k = e THEN 1 ELSE 0)
    <3>1. f \in Seq(S) /\ e \in S
      BY <2>1
    <3>2. ToSet(Append(f, e)) = ToSet(f) \cup {e}
      BY <3>1, AppendIn
    <3>3. ASSUME NEW k PROVE Count(Append(f, e), k) = Count(f, k) + (IF k = e THEN 1 ELSE 0)
      BY <3>1, AppendIn
    <3> QED
      BY <3>2, <3>3
  <2>3. ToSet(q) = ToSet(f) \cup {e} /\ \A k : Count(q, k) = Count(f, k) + (IF k = e THEN 1 ELSE 0)
    BY <2>1, <2>2
  <2> QED
    BY <2>3 DEF f, e
<1>5. Once(q) => Once(Front(q)) /\ Last(q) \notin ToSet(Front(q))
  <2>1. DOMAIN Front(q) = 1 .. n - 1
    BY <1>1, <1>2, InSeq
  <2> QED
    BY <1>1, <1>2, <2>1 DEF Once, ToSet
<1> QED
  BY <1>1, <1>2, <1>4, <1>5 DEF n

LEMMA RemoveAtIn ==
  ASSUME NEW S, NEW q \in Seq(S), Once(q), NEW at \in DOMAIN q
  PROVE  /\ RemoveAt(q, at) \in Seq(S) /\ Once(RemoveAt(q, at))
         /\ ToSet(RemoveAt(q, at)) = ToSet(q) \ {q[at]}
<1> DEFINE n == Len(q)
           a == SubSeq(q, 1, at - 1)
           b == SubSeq(q, at + 1, n)
           r == RemoveAt(q, at)
<1>1. n \in Nat /\ DOMAIN q = 1 .. n /\ at \in 1 .. n /\ \A i \in 1 .. n : q[i] \in S
  BY InSeq
<1> HIDE DEF n
<1>2. a \in Seq(S) /\ Len(a) = at - 1 /\ \A i \in 1 .. at - 1 : a[i] = q[i]
  <2>1. \A i \in 1 .. at - 1 : q[i] \in S
    BY <1>1
  <2>2. 1 \in Int /\ at - 1 \in Int
    BY <1>1
  <2>3. /\ a \in Seq(S)
        /\ Len(a) = IF 1 <= at - 1 THEN at - 1 - 1 + 1 ELSE 0
        /\ \A i \in 1 .. at - 1 - 1 + 1 : a[i] = q[1 + i - 1]
    BY <2>1, <2>2, SubSeqProperties
  <2> QED
    BY <1>1, <2>3
<1>3. b \in Seq(S) /\ Len(b) = n - at /\ \A i \in 1 .. n - at : b[i] = q[at + i]
  <2>1. \A i \in at + 1 .. n : q[i] \in S
    BY <1>1
  <2>2. at + 1 \in Int /\ n \in Int
    BY <1>1
  <2>3. /\ b \in Seq(S)
        /\ Len(b) = IF at + 1 <= n THEN n - (at + 1) + 1 ELSE 0
        /\ \A i \in 1 .. n - (at + 1) + 1 : b[i] = q[at + 1 + i - 1]
    BY <2>1, <2>2, SubSeqProperties
  <2> QED
    BY <1>1, <2>3
<1>4. r = a \o b
  BY DEF RemoveAt, n
<1> HIDE DEF a, b, r
<1>5. r \in Seq(S) /\ Len(r) = n - 1 /\ \A i \in 1 .. n - 1 : r[i] = IF i < at THEN q[i] ELSE q[i + 1]
  <2>1. /\ a \o b \in Seq(S) /\ Len(a \o b) = Len(a) + Len(b)
        /\ \A i \in 1 .. Len(a) + Len(b) : (a \o b)[i] = IF i <= Len(a) THEN a[i] ELSE b[i - Len(a)]
    BY <1>2, <1>3, ConcatProperties
  <2>2. Len(a) + Len(b) = n - 1
    BY <1>1, <1>2, <1>3
  <2>3. ASSUME NEW i \in 1 .. n - 1 PROVE r[i] = IF i < at THEN q[i] ELSE q[i + 1]
    <3>1. r[i] = IF i <= at - 1 THEN a[i] ELSE b[i - (at - 1)]
      BY <1>2, <1>4, <2>1, <2>2
    <3>2. CASE i < at
      BY <1>1, <1>2, <3>1, <3>2
    <3>3. CASE i >= at
      <4>1. i - (at - 1) \in 1 .. n - at /\ at + (i - (at - 1)) = i + 1
        BY <1>1, <3>3
      <4>2. b[i - (at - 1)] = q[i + 1]
        BY <1>3, <4>1
      <4> QED
        BY <1>1, <3>1, <3>3, <4>2
    <3> QED
      BY <1>1, <3>2, <3>3
  <2> QED
    BY <1>4, <2>1, <2>2, <2>3
<1>6. DOMAIN r = 1 .. n - 1
  BY <1>1, <1>5, InSeq
<1>9. ASSUME NEW i \in 1 .. n - 1
      PROVE  \E j \in 1 .. n : j # at /\ r[i] = q[j] /\ j = IF i < at THEN i ELSE i + 1
  <2>1. CASE i < at
    BY <1>1, <1>5, <2>1
  <2>2. CASE i >= at
    BY <1>1, <1>5, <2>2
  <2> QED
    BY <1>1, <2>1, <2>2
<1>10. \A i, j \in 1 .. n : q[i] = q[j] => i = j
  BY <1>1 DEF Once
<1>7. Once(r)
  <2>1. ASSUME NEW i \in 1 .. n - 1, NEW j \in 1 .. n - 1, r[i] = r[j] PROVE i = j
    <3>1. PICK u \in 1 .. n : r[i] = q[u] /\ u = IF i < at THEN i ELSE i + 1
      BY <1>9
    <3>2. PICK v \in 1 .. n : r[j] = q[v] /\ v = IF j < at THEN j ELSE j + 1
      BY <1>9
    <3>3. u = v
      BY <1>10, <2>1, <3>1, <3>2
    <3> QED
      BY <1>1, <3>1, <3>2, <3>3
  <2> QED
    BY <1>6, <2>1 DEF Once
<1>8. ToSet(r) = ToSet(q) \ {q[at]}
  <2>1. ASSUME NEW k \in ToSet(r) PROVE k \in ToSet(q) /\ k # q[at]
    <3>1. PICK i \in 1 .. n - 1 : r[i] = k
      BY <1>6 DEF ToSet
    <3>2. PICK j \in 1 .. n : j # at /\ k = q[j]
      BY <1>9, <3>1
    <3> QED
      BY <1>1, <1>10, <3>2 DEF ToSet
  <2>2. ASSUME NEW k \in ToSet(q), k # q[at] PROVE k \in ToSet(r)
    <3>1. PICK i \in 1 .. n : q[i] = k
      BY <1>1 DEF ToSet
    <3>2. CASE i < at
      <4>1. i \in 1 .. n - 1 /\ r[i] = q[i]
        BY <1>1, <1>5, <3>2
      <4> QED
        BY <1>6, <3>1, <4>1 DEF ToSet
    <3>3. CASE i > at
      <4>1. i - 1 \in 1 .. n - 1 /\ r[i - 1] = q[i]
        BY <1>1, <1>5, <3>3
      <4> QED
        BY <1>6, <3>1, <4>1 DEF ToSet
    <3> QED
      BY <1>1, <2>2, <3>1, <3>2, <3>3
  <2> QED
    BY <2>1, <2>2
<1> QED
  BY <1>5, <1>7, <1>8 DEF r

------------------------------------------------------------------------------
(* The state, and what a report does.                                       *)

Phases == {"idle", "waiting", "ready", "release", "second", "press", "finish", "restore", "cleanup"}
TapType == [keys : Seq(Keys), mods : SUBSET Mods]
EngType == [phase : Phases, resume : Phases \ {"idle", "waiting"},
            after : {"ready", "second", "press", "cleanup"},
            prog : Seq(StepType), second : Seq(Plain), protected : BOOLEAN, mode : 0 .. 3,
            entry : BOOLEAN, mods : SUBSET Mods, taps : Seq(TapType), escaped : BOOLEAN,
            neutral : BOOLEAN, toggled : BOOLEAN, alt : BOOLEAN, holds : Seq(Plain),
            transient : Seq(Keys), result : {"none", "error", "cancelled"}]
StateType == [eng : EngType, ledger : [Keys -> Int], live : [LiveKeys -> Int],
              report : SUBSET Keys, suppressed : SUBSET Keys, refused : BOOLEAN,
              caps : BOOLEAN, capsWas : BOOLEAN, open : BOOLEAN, garbled : BOOLEAN,
              edges : SUBSET Keys]

(* Everything but what the host reads.                                      *)
SameBoard(s, t) ==
  /\ t.ledger = s.ledger /\ t.live = s.live
  /\ t.refused = s.refused /\ t.capsWas = s.capsWas
(* What the host reads, and what stays suppressed.                          *)
SameHost(s, t) ==
  /\ t.report = s.report /\ t.suppressed = s.suppressed /\ t.edges = s.edges
  /\ t.caps = s.caps /\ t.open = s.open /\ t.garbled = s.garbled

(* The report is what live owners show and what the macro holds.            *)
Shown(s) ==
  /\ s.report = (IF s.eng.protected THEN {} ELSE (Owned(s) \ Mods) \ s.suppressed) \cup (Leases(s) \ Mods)
  /\ ~s.eng.protected => s.suppressed \subseteq Owned(s) \ Mods

(* What the host makes of the keys that are new in it.                      *)
Pressed(s, t) == t.report \ s.report
HostSaw(s, t) ==
  /\ t.edges = s.edges \cup Pressed(s, t)
  /\ t.caps <=> (IF Caps \in Pressed(s, t) THEN ~s.caps ELSE s.caps)
  /\ t.open => IF t.eng.mode = MacOS
               THEN (t.eng.entry /\ Alt \in t.eng.mods) \/ (s.open /\ ~t.eng.entry)
               ELSE Trigger \in Pressed(s, t) \/ (s.open /\ {Commit, Esc} \cap Pressed(s, t) = {})
  /\ t.garbled => s.garbled \/ (s.open /\ Digit \in Pressed(s, t) /\ t.eng.mode = Linux /\ s.caps)

Sent(s, t) == t.eng = s.eng /\ SameBoard(s, t) /\ Shown(t) /\ HostSaw(s, t)

Reported(s, keys, mods, kept) == [HostReads(s, keys, mods) EXCEPT !.suppressed = kept]

LEMMA ReportReads ==
  ASSUME NEW s \in StateType, NEW keys \in SUBSET Keys, NEW mods, NEW kept \in SUBSET Keys,
         s.eng.entry => mods = s.eng.mods,
         NEW t, t = Reported(s, keys, mods, kept)
  PROVE  /\ t \in StateType /\ t.eng = s.eng /\ SameBoard(s, t) /\ HostSaw(s, t)
         /\ t.report = keys /\ t.suppressed = kept
<1> DEFINE fresh == keys \ s.report
           opens == IF s.eng.mode = MacOS THEN s.eng.entry /\ Alt \in mods ELSE Trigger \in fresh
           closes == IF s.eng.mode = MacOS THEN Alt \notin mods ELSE {Commit, Esc} \cap fresh # {}
<1>1. PICK caps \in BOOLEAN : caps <=> IF Caps \in fresh THEN ~s.caps ELSE s.caps
  OBVIOUS
<1>2. PICK open \in BOOLEAN : open <=> (opens \/ (s.open /\ ~closes))
  OBVIOUS
<1>3. PICK garbled \in BOOLEAN : garbled <=> (s.garbled \/ (s.open /\ Digit \in fresh /\ s.eng.mode = Linux /\ s.caps))
  OBVIOUS
<1>0. s.caps \in BOOLEAN /\ s.open \in BOOLEAN /\ s.garbled \in BOOLEAN /\ s.eng.entry \in BOOLEAN
  BY DEF StateType, EngType
<1>4. HostReads(s, keys, mods) =
        [s EXCEPT !.report = keys, !.edges = @ \cup fresh, !.caps = caps, !.open = open, !.garbled = garbled]
  <2>1. (IF Caps \in fresh THEN ~s.caps ELSE s.caps) = caps
    BY <1>0, <1>1
  <2>2. (opens \/ (s.open /\ ~closes)) = open
    <3> HIDE DEF opens, closes
    <3> QED
      BY <1>2, Zenon
  <2>3. (s.garbled \/ (s.open /\ Digit \in fresh /\ s.eng.mode = Linux /\ s.caps)) = garbled
    <3> HIDE DEF fresh
    <3> QED
      BY <1>3, Zenon
  <2> QED
    BY <2>1, <2>2, <2>3, Zenon DEF HostReads
<1>5. t = [s EXCEPT !.report = keys, !.edges = @ \cup fresh, !.caps = caps, !.open = open,
                    !.garbled = garbled, !.suppressed = kept]
  BY <1>4 DEF StateType, Reported
<1>6. /\ t.eng = s.eng /\ SameBoard(s, t) /\ t.report = keys /\ t.suppressed = kept
      /\ t.edges = s.edges \cup fresh /\ t.caps = caps /\ t.open = open /\ t.garbled = garbled
  BY <1>5 DEF StateType, SameBoard
<1>7. t \in StateType
  BY <1>5, ZenonT(40) DEF StateType
<1>8. HostSaw(s, t)
  <2>1. Pressed(s, t) = fresh
    BY <1>6 DEF Pressed
  <2>2. t.open => IF s.eng.mode = MacOS
               THEN (s.eng.entry /\ Alt \in s.eng.mods) \/ (s.open /\ ~s.eng.entry)
               ELSE Trigger \in fresh \/ (s.open /\ {Commit, Esc} \cap fresh = {})
    BY <1>0, <1>2, <1>6
  <2> QED
    BY <1>1, <1>3, <1>6, <2>1, <2>2 DEF HostSaw
<1> QED
  BY <1>6, <1>7, <1>8

LEMMA Capturing ==
  ASSUME NEW s \in StateType, NEW capture \in BOOLEAN, NEW t, t = SendCapturing(s, capture)
  PROVE  /\ t \in StateType /\ Sent(s, t)
         /\ t.suppressed = IF s.eng.protected
                           THEN IF capture THEN Owned(s) \ Mods ELSE s.suppressed
                           ELSE IF capture THEN Owned(s) \ Mods ELSE s.suppressed \cap (Owned(s) \ Mods)
<1> DEFINE ordinary == Owned(s) \ Mods
           captured == IF capture THEN ordinary ELSE s.suppressed
           kept == IF s.eng.protected THEN captured ELSE captured \cap ordinary
           keys == (IF s.eng.protected THEN {} ELSE ordinary \ kept) \cup (Leases(s) \ Mods)
           mods == CASE s.eng.entry -> s.eng.mods
                     [] ~s.eng.entry /\ s.eng.protected -> Leases(s) \cap Mods
                     [] OTHER -> Owned(s) \cap Mods
<1>1. /\ s.eng.entry \in BOOLEAN /\ s.eng.protected \in BOOLEAN /\ s.suppressed \subseteq Keys
      /\ s.eng.holds \in Seq(Plain) /\ s.eng.transient \in Seq(Keys)
  BY DEF StateType, EngType
<1>2. Leases(s) \subseteq Keys
  BY <1>1, InSeq DEF Leases, Plain
<1>3. Owned(s) \subseteq Keys
  BY DEF Owned
<1>4. keys \in SUBSET Keys /\ kept \in SUBSET Keys
  BY <1>1, <1>2, <1>3
<1>5. s.eng.entry => mods = s.eng.mods
  OBVIOUS
<1>6. t = Reported(s, keys, mods, kept)
  BY Zenon DEF SendCapturing, Reported
<1>7. /\ t \in StateType /\ t.eng = s.eng /\ SameBoard(s, t) /\ HostSaw(s, t)
      /\ t.report = keys /\ t.suppressed = kept
  <2> HIDE DEF keys, mods, kept
  <2> QED
    BY <1>4, <1>5, <1>6, ReportReads
<1>8. Owned(t) = Owned(s) /\ Leases(t) = Leases(s)
  BY <1>7 DEF Owned, Leases, SameBoard
<1>9. Shown(t)
  BY <1>7, <1>8 DEF Shown
<1>10. kept = IF s.eng.protected
              THEN IF capture THEN Owned(s) \ Mods ELSE s.suppressed
              ELSE IF capture THEN Owned(s) \ Mods ELSE s.suppressed \cap (Owned(s) \ Mods)
  OBVIOUS
<1> QED
  BY <1>7, <1>9, <1>10 DEF Sent

LEMMA Sends ==
  ASSUME NEW s \in StateType, NEW t, t = Send(s)
  PROVE  /\ t \in StateType /\ Sent(s, t)
         /\ t.suppressed = IF s.eng.protected THEN s.suppressed ELSE s.suppressed \cap (Owned(s) \ Mods)
<1>1. t = SendCapturing(s, FALSE)
  BY DEF Send
<1>2. /\ t \in StateType /\ Sent(s, t)
      /\ t.suppressed = IF s.eng.protected
                        THEN IF FALSE THEN Owned(s) \ Mods ELSE s.suppressed
                        ELSE IF FALSE THEN Owned(s) \ Mods ELSE s.suppressed \cap (Owned(s) \ Mods)
  BY <1>1, Capturing
<1> QED
  BY <1>2

(* A report after owners changed shows nothing new but what is taken.       *)
LEMMA Moves ==
  ASSUME NEW s \in StateType, NEW u \in StateType, NEW t, t = Send(u), NEW new,
         Shown(s), SameHost(s, u), u.eng.protected = s.eng.protected,
         Leases(u) \subseteq Leases(s) \cup new, Owned(u) \subseteq Owned(s) \cup new \cup Mods
  PROVE  /\ t \in StateType /\ t.eng = u.eng /\ SameBoard(u, t) /\ Shown(t)
         /\ HostSaw(s, t) /\ Pressed(s, t) \subseteq new
<1>1. /\ t \in StateType /\ t.eng = u.eng /\ SameBoard(u, t) /\ Shown(t) /\ HostSaw(u, t)
      /\ t.suppressed = IF u.eng.protected THEN u.suppressed ELSE u.suppressed \cap (Owned(u) \ Mods)
  BY Sends DEF Sent
<1>2. HostSaw(s, t)
  <2>1. Pressed(u, t) = Pressed(s, t)
    BY DEF SameHost, Pressed
  <2> QED
    BY <1>1, <2>1 DEF HostSaw, SameHost
<1>3. Owned(t) = Owned(u) /\ Leases(t) = Leases(u)
  BY <1>1 DEF Owned, Leases, SameBoard
<1>4. s.eng.protected \in BOOLEAN
  BY DEF StateType, EngType
<1>5. ASSUME NEW k \in Pressed(s, t) PROVE k \in new
  <2>1. k \in t.report /\ k \notin s.report
    BY DEF Pressed
  <2>2. CASE k \in Leases(u) \ Mods
    BY <2>1, <2>2 DEF Shown
  <2>3. CASE ~s.eng.protected /\ k \in (Owned(u) \ Mods) \ t.suppressed
    <3>1. k \notin s.suppressed
      BY <1>1, <2>3 DEF SameHost
    <3>2. CASE k \in Owned(s)
      BY <2>1, <2>3, <3>1, <3>2 DEF Shown
    <3> QED
      BY <2>3, <3>2
  <2>4. k \in Leases(u) \ Mods \/ (~s.eng.protected /\ k \in (Owned(u) \ Mods) \ t.suppressed)
    BY <1>1, <1>3, <2>1 DEF Shown
  <2> QED
    BY <2>2, <2>3, <2>4
<1> QED
  BY <1>1, <1>2, <1>5

------------------------------------------------------------------------------
(* What the engine keeps of the ledger.                                     *)

Live(s, k) == IF k \in LiveKeys THEN s.live[k] ELSE 0
One(p) == IF p THEN 1 ELSE 0
Ledger(s) ==
  \A k \in Keys :
    s.ledger[k] = Live(s, k) + One(k \in ToSet(s.eng.holds)) + Count(s.eng.transient, k)
                    + One(s.eng.alt /\ k = Alt)

(* Every report shows what it should and every owner is accounted for.      *)
Board(s) == s \in StateType /\ Ledger(s) /\ Shown(s) /\ Once(s.eng.holds)

(* What the host was led to.                                                *)
Hosted(s) ==
  /\ s.caps <=> ~(s.capsWas <=> s.eng.toggled)
  /\ ~s.garbled
  /\ ~s.eng.entry => ~s.eng.alt /\ ~s.eng.toggled /\ ~s.open
  /\ s.eng.entry => ToSet(s.eng.holds) \subseteq Mods
  /\ s.eng.entry /\ s.eng.neutral =>
        /\ ~s.eng.alt /\ ~s.open /\ ~s.eng.toggled
        /\ s.eng.mode = MacOS => s.eng.mods = {}
  /\ s.eng.entry /\ s.eng.escaped /\ s.eng.mode # MacOS => ~s.open

(* A step that moves only the control of the engine.                        *)
Steady(s, t) ==
  /\ t \in StateType /\ t.ledger = s.ledger /\ t.live = s.live /\ t.capsWas = s.capsWas
  /\ SameHost(s, t)
  /\ t.eng.protected = s.eng.protected /\ t.eng.mode = s.eng.mode /\ t.eng.entry = s.eng.entry
  /\ t.eng.mods = s.eng.mods /\ t.eng.escaped = s.eng.escaped /\ t.eng.neutral = s.eng.neutral
  /\ t.eng.toggled = s.eng.toggled /\ t.eng.alt = s.eng.alt
  /\ t.eng.holds = s.eng.holds /\ t.eng.transient = s.eng.transient

LEMMA SteadyKeeps ==
  ASSUME NEW s, NEW t, Steady(s, t)
  PROVE  /\ Leases(t) = Leases(s)
         /\ Board(s) => Board(t)
         /\ Hosted(s) => Hosted(t)
<1>1. Leases(t) = Leases(s) /\ Owned(t) = Owned(s)
  BY DEF Steady, Leases, Owned
<1>2. Shown(s) => Shown(t)
  BY <1>1 DEF Shown, Steady, SameHost
<1>3. Ledger(s) => Ledger(t)
  BY DEF Ledger, Live, Steady
<1>4. Hosted(s) => Hosted(t)
  BY DEF Hosted, Steady, SameHost
<1> QED
  BY <1>1, <1>2, <1>3, <1>4 DEF Board, Steady

LEMMA Typed ==
  ASSUME NEW s \in StateType
  PROVE  /\ s.eng \in EngType /\ s.ledger \in [Keys -> Int] /\ s.live \in [LiveKeys -> Int]
         /\ s.report \subseteq Keys /\ s.suppressed \subseteq Keys /\ s.edges \subseteq Keys
         /\ s.refused \in BOOLEAN /\ s.caps \in BOOLEAN /\ s.capsWas \in BOOLEAN
         /\ s.open \in BOOLEAN /\ s.garbled \in BOOLEAN
         /\ s.eng.phase \in Phases /\ s.eng.resume \in Phases \ {"idle", "waiting"}
         /\ s.eng.after \in {"ready", "second", "press", "cleanup"}
         /\ s.eng.prog \in Seq(StepType) /\ s.eng.second \in Seq(Plain)
         /\ s.eng.protected \in BOOLEAN /\ s.eng.mode \in 0 .. 3 /\ s.eng.entry \in BOOLEAN
         /\ s.eng.mods \subseteq Mods /\ s.eng.taps \in Seq(TapType)
         /\ s.eng.escaped \in BOOLEAN /\ s.eng.neutral \in BOOLEAN
         /\ s.eng.toggled \in BOOLEAN /\ s.eng.alt \in BOOLEAN
         /\ s.eng.holds \in Seq(Plain) /\ s.eng.transient \in Seq(Keys)
BY DEF StateType, EngType

(* An engine put in place of another.                                       *)
LEMMA EngPut ==
  ASSUME NEW s \in StateType, NEW e \in EngType, NEW t, t = [s EXCEPT !.eng = e]
  PROVE  t \in StateType /\ t.eng = e /\ SameBoard(s, t) /\ SameHost(s, t)
BY DEF StateType, SameBoard, SameHost

LEMMA Waits ==
  ASSUME NEW s \in StateType, NEW r \in Phases \ {"idle", "waiting"}, NEW t, t = Wait(s, r)
  PROVE  /\ Steady(s, t) /\ SameBoard(s, t)
         /\ t.eng.phase = "waiting" /\ t.eng.resume = r /\ t.eng.after = s.eng.after
         /\ t.eng.prog = s.eng.prog /\ t.eng.second = s.eng.second /\ t.eng.taps = s.eng.taps
<1> DEFINE e == [s.eng EXCEPT !.phase = "waiting", !.resume = r]
<1>1. t = [s EXCEPT !.eng = e]
  BY DEF Wait, StateType
<1>2. /\ e \in EngType /\ e.phase = "waiting" /\ e.resume = r /\ e.after = s.eng.after
      /\ e.prog = s.eng.prog /\ e.second = s.eng.second /\ e.taps = s.eng.taps
      /\ e.protected = s.eng.protected /\ e.mode = s.eng.mode /\ e.entry = s.eng.entry
      /\ e.mods = s.eng.mods /\ e.escaped = s.eng.escaped /\ e.neutral = s.eng.neutral
      /\ e.toggled = s.eng.toggled /\ e.alt = s.eng.alt
      /\ e.holds = s.eng.holds /\ e.transient = s.eng.transient
  BY ZenonT(40) DEF StateType, EngType, Phases
<1> HIDE DEF e
<1>3. t \in StateType /\ t.eng = e /\ SameBoard(s, t) /\ SameHost(s, t)
  BY <1>1, <1>2, EngPut
<1>4. Steady(s, t)
  BY <1>2, <1>3 DEF Steady, SameBoard
<1> QED
  BY <1>2, <1>3, <1>4 DEF e

------------------------------------------------------------------------------
(* The loops: over a chord, over the keys it took, and over the steps.      *)

Checked(c, step, mode) ==
  CASE step.op = "down" -> [ok |-> c.ok /\ step.key \notin c.held, held |-> c.held \cup {step.key}]
    [] step.op = "up" -> [ok |-> c.ok /\ step.key \in c.held, held |-> c.held \ {step.key}]
    [] step.op = "entry" -> [ok |-> c.ok /\ mode # 0 /\ c.held \subseteq Mods, held |-> c.held]
    [] OTHER -> c

(* What one turn of the loop does; a is the chord, or the steps and the mode. *)
Does(kind, a, c, i) ==
  CASE kind = "take" -> TakeNext(c, a[i])
    [] kind = "give" -> ReleaseLast(c)
    [] kind = "check" -> Checked(c, a[1][i], a[2])

Looped(kind, a, b, g, n) ==
  g = [i \in 0 .. n |-> IF i = 0 THEN b ELSE Does(kind, a, g[i - 1], i)]

LEMMA LoopExists ==
  ASSUME NEW kind, NEW a, NEW b, NEW n \in Nat PROVE \E g : Looped(kind, a, b, g, n)
<1> DEFINE T == {m \in 0 .. n : \E g : Looped(kind, a, b, g, m)}
<1>1. 0 \in T
  <2>1. Looped(kind, a, b, [i \in 0 .. 0 |-> b], 0)
    BY DEF Looped
  <2> QED
    BY <2>1
<1>2. ASSUME NEW m \in 1 .. n, m - 1 \in T PROVE m \in T
  <2>1. PICK g : Looped(kind, a, b, g, m - 1)
    BY <1>2
  <2> DEFINE v == Does(kind, a, g[m - 1], m)
             h == [i \in 0 .. m |-> IF i = m THEN v ELSE g[i]]
  <2>2. m \in Nat /\ m # 0
    OBVIOUS
  <2>3. \A i \in 0 .. m - 1 : g[i] = IF i = 0 THEN b ELSE Does(kind, a, g[i - 1], i)
    BY <2>1 DEF Looped
  <2>4. h[m] = v /\ \A i \in 0 .. m - 1 : h[i] = g[i]
    BY <2>2
  <2>5. ASSUME NEW i \in 0 .. m
        PROVE  h[i] = IF i = 0 THEN b ELSE Does(kind, a, h[i - 1], i)
    <3> HIDE DEF h
    <3>1. CASE i = m
      BY <2>2, <2>4, <3>1
    <3>2. CASE i # m /\ i # 0
      <4>1. i \in 0 .. m - 1 /\ i - 1 \in 0 .. m - 1
        BY <2>2, <3>2
      <4> QED
        BY <2>3, <2>4, <3>2, <4>1
    <3>3. CASE i = 0
      BY <2>2, <2>3, <2>4, <3>3
    <3> QED
      BY <3>1, <3>2, <3>3
  <2>6. Looped(kind, a, b, h, m)
    <3> HIDE DEF v
    <3>1. h = [i \in 0 .. m |-> h[i]]
      OBVIOUS
    <3> HIDE DEF h
    <3> QED
      BY <2>5, <3>1 DEF Looped
  <2> QED
    BY <2>6
<1> HIDE DEF T
<1>3. n \in T
  BY <1>1, <1>2, Upto
<1> QED
  BY <1>3 DEF T

(* The states on the way from b to c, one for each turn.                    *)
Ran(kind, a, b, n, c) ==
  \E g : /\ g[0] = b /\ g[n] = c
         /\ \A i \in 1 .. n : g[i] = Does(kind, a, g[i - 1], i)

LEMMA RanLoop ==
  ASSUME NEW kind, NEW a, NEW b, NEW n \in Nat
  PROVE  Ran(kind, a, b, n, (CHOOSE g : Looped(kind, a, b, g, n))[n])
<1> DEFINE g == CHOOSE f : Looped(kind, a, b, f, n)
<1>1. Looped(kind, a, b, g, n)
  BY LoopExists
<1> HIDE DEF g
<1>2. g[0] = b /\ \A i \in 1 .. n : g[i] = Does(kind, a, g[i - 1], i)
  BY <1>1 DEF Looped
<1>3. Ran(kind, a, b, n, g[n])
  BY <1>2 DEF Ran
<1> QED
  BY <1>3 DEF g

LEMMA AcquireRan ==
  ASSUME NEW s, NEW keys, Len(keys) \in Nat
  PROVE  Ran("take", keys, s, Len(keys), AcquireAll(s, keys))
<1> DEFINE P(g) == g = [i \in 0 .. Len(keys) |-> IF i = 0 THEN s ELSE TakeNext(g[i - 1], keys[i])]
<1>1. ASSUME NEW g PROVE P(g) <=> Looped("take", keys, s, g, Len(keys))
  BY DEF Looped, Does
<1>2. AcquireAll(s, keys) = (CHOOSE g : P(g))[Len(keys)]
  BY Zenon DEF AcquireAll
<1>3. (CHOOSE g : P(g)) = CHOOSE g : Looped("take", keys, s, g, Len(keys))
  BY <1>1, Zenon
<1> QED
  BY <1>2, <1>3, RanLoop

(* The keys of a tap given back, the last first.                            *)
AllGiven(s) ==
  LET less[n \in 0 .. Len(s.eng.transient)] == IF n = 0 THEN s ELSE ReleaseLast(less[n - 1])
  IN less[Len(s.eng.transient)]

LEMMA GivenRan ==
  ASSUME NEW s, Len(s.eng.transient) \in Nat
  PROVE  Ran("give", <<>>, s, Len(s.eng.transient), AllGiven(s))
<1> DEFINE m == Len(s.eng.transient)
           P(g) == g = [n \in 0 .. m |-> IF n = 0 THEN s ELSE ReleaseLast(g[n - 1])]
<1>1. ASSUME NEW g PROVE P(g) <=> Looped("give", <<>>, s, g, m)
  BY DEF Looped, Does
<1>2. AllGiven(s) = (CHOOSE g : P(g))[m]
  BY Zenon DEF AllGiven
<1>3. (CHOOSE g : P(g)) = CHOOSE g : Looped("give", <<>>, s, g, m)
  BY <1>1, Zenon
<1> QED
  BY <1>2, <1>3, RanLoop

LEMMA PreflightRan ==
  ASSUME NEW steps, NEW mode, Len(steps) \in Nat
  PROVE  Ran("check", <<steps, mode>>, [ok |-> TRUE, held |-> {}], Len(steps), Preflight(steps, mode))
<1> DEFINE c == [ok |-> TRUE, held |-> {}]
           P(g) == g = [i \in 0 .. Len(steps) |-> IF i = 0 THEN c ELSE Checked(g[i - 1], steps[i], mode)]
<1>1. ASSUME NEW g PROVE P(g) <=> Looped("check", <<steps, mode>>, c, g, Len(steps))
  <2>1. <<steps, mode>>[1] = steps /\ <<steps, mode>>[2] = mode
    OBVIOUS
  <2> QED
    BY <2>1, Zenon DEF Looped, Does
<1>2. Preflight(steps, mode) = (CHOOSE g : P(g))[Len(steps)]
  BY Zenon DEF Preflight, Checked
<1>3. (CHOOSE g : P(g)) = CHOOSE g : Looped("check", <<steps, mode>>, c, g, Len(steps))
  BY <1>1, Zenon
<1> QED
  BY <1>2, <1>3, RanLoop

------------------------------------------------------------------------------
(* What passed the check stays legal, step after step.                      *)

StepLegal(step, h, k) ==
  CASE step.op = "down" -> step.key \notin h /\ k = h \cup {step.key}
    [] step.op = "up" -> step.key \in h /\ k = h \ {step.key}
    [] step.op = "entry" -> h \subseteq Mods /\ k = h
    [] OTHER -> k = h
(* The sets of keys held before each step and after the last.               *)
LegalBy(f, prog, h) == f[0] = h /\ \A i \in 1 .. Len(prog) : StepLegal(prog[i], f[i - 1], f[i])
Legal(prog, h) == \E f : LegalBy(f, prog, h)

LEMMA OkIs ==
  ASSUME NEW p \in BOOLEAN, NEW h, NEW b, b = [ok |-> p, held |-> h]
  PROVE  (b.ok <=> p) /\ b.held = h
OBVIOUS

LEMMA CheckedLegal ==
  ASSUME NEW c, NEW step, NEW mode, NEW b, b = Checked(c, step, mode), b.ok
  PROVE  c.ok /\ StepLegal(step, c.held, b.held)
<1>1. CASE step.op = "down"
  <2>1. b = [ok |-> c.ok /\ step.key \notin c.held, held |-> c.held \cup {step.key}]
    BY <1>1, Zenon DEF Checked
  <2>2. (b.ok <=> c.ok /\ step.key \notin c.held) /\ b.held = c.held \cup {step.key}
    <3>1. (c.ok /\ step.key \notin c.held) \in BOOLEAN
      BY Zenon
    <3> QED
      BY <2>1, <3>1, OkIs, Zenon
  <2> QED
    BY <1>1, <2>2 DEF StepLegal
<1>2. CASE step.op = "up"
  <2>1. b = [ok |-> c.ok /\ step.key \in c.held, held |-> c.held \ {step.key}]
    BY <1>2, Zenon DEF Checked
  <2>2. (b.ok <=> c.ok /\ step.key \in c.held) /\ b.held = c.held \ {step.key}
    <3>1. (c.ok /\ step.key \in c.held) \in BOOLEAN
      BY Zenon
    <3> QED
      BY <2>1, <3>1, OkIs, Zenon
  <2> QED
    BY <1>2, <2>2 DEF StepLegal
<1>3. CASE step.op = "entry"
  <2>1. b = [ok |-> c.ok /\ mode # 0 /\ c.held \subseteq Mods, held |-> c.held]
    BY <1>3, Zenon DEF Checked
  <2>2. (b.ok <=> c.ok /\ mode # 0 /\ c.held \subseteq Mods) /\ b.held = c.held
    <3>1. (c.ok /\ mode # 0 /\ c.held \subseteq Mods) \in BOOLEAN
      BY Zenon
    <3> QED
      BY <2>1, <3>1, OkIs, Zenon
  <2> QED
    BY <1>3, <2>2 DEF StepLegal
<1>4. CASE step.op \notin {"down", "up", "entry"}
  <2>1. b = c
    BY <1>4 DEF Checked
  <2> QED
    BY <1>4, <2>1 DEF StepLegal
<1> QED
  BY <1>1, <1>2, <1>3, <1>4

LEMMA PassesLegal ==
  ASSUME NEW steps \in Seq(StepType), NEW mode, Passes(steps, mode)
  PROVE  Legal(steps, {})
<1> DEFINE n == Len(steps)
           c == [ok |-> TRUE, held |-> {}]
<1>1. n \in Nat
  BY InSeq
<1>2. PICK g : /\ g[0] = c /\ g[n] = Preflight(steps, mode)
               /\ \A i \in 1 .. n : g[i] = Does("check", <<steps, mode>>, g[i - 1], i)
  <2>1. Ran("check", <<steps, mode>>, c, n, Preflight(steps, mode))
    BY <1>1, PreflightRan
  <2> QED
    BY <2>1 DEF Ran
<1>3. \A i \in 1 .. n : g[i] = Checked(g[i - 1], steps[i], mode)
  <2>1. <<steps, mode>>[1] = steps /\ <<steps, mode>>[2] = mode
    OBVIOUS
  <2> QED
    <3>1. ASSUME NEW i \in 1 .. n PROVE g[i] = Checked(g[i - 1], steps[i], mode)
      <4>1. Does("check", <<steps, mode>>, g[i - 1], i) = Checked(g[i - 1], <<steps, mode>>[1][i], <<steps, mode>>[2])
        BY DEF Does
      <4> QED
        BY <1>2, <2>1, <4>1
    <3> QED
      BY <3>1
<1>4. ASSUME NEW i \in 1 .. n, g[i].ok
      PROVE  g[i - 1].ok /\ StepLegal(steps[i], g[i - 1].held, g[i].held)
  BY <1>3, <1>4, CheckedLegal
<1>5. ASSUME NEW m \in 0 .. n PROVE g[n - m].ok
  <2> DEFINE T == {j \in 0 .. n : g[n - j].ok}
  <2>1. 0 \in T
    <3>1. g[n] = [ok |-> TRUE, held |-> {}]
      BY <1>2, Zenon DEF Passes
    <3>2. g[n].ok
      BY <3>1
    <3> QED
      BY <1>1, <3>2
  <2>2. ASSUME NEW j \in 1 .. m, j - 1 \in T PROVE j \in T
    <3>1. n - (j - 1) \in 1 .. n /\ g[n - (j - 1)].ok /\ n - (j - 1) - 1 = n - j
      BY <1>1, <2>2
    <3>2. g[n - j].ok
      BY <1>4, <3>1
    <3> QED
      BY <1>1, <3>2
  <2> HIDE DEF T
  <2>3. m \in T
    BY <1>1, <2>1, <2>2, Upto
  <2> QED
    BY <2>3 DEF T
<1>6. ASSUME NEW i \in 1 .. n PROVE StepLegal(steps[i], g[i - 1].held, g[i].held)
  <2>1. n - i \in 0 .. n /\ n - (n - i) = i
    BY <1>1
  <2>2. g[i].ok
    BY <1>5, <2>1
  <2> QED
    BY <1>4, <2>2
<1> DEFINE f == [i \in 0 .. n |-> g[i].held]
<1>7. f[0] = {}
  BY <1>1, <1>2
<1>8. \A i \in 1 .. n : f[i - 1] = g[i - 1].held /\ f[i] = g[i].held
  BY <1>1
<1> HIDE DEF f
<1>9. LegalBy(f, steps, {})
  BY <1>6, <1>7, <1>8 DEF LegalBy
<1> QED
  BY <1>9 DEF Legal

LEMMA LegalTail ==
  ASSUME NEW prog \in Seq(StepType), prog # <<>>, NEW h, Legal(prog, h)
  PROVE  /\ Head(prog) \in StepType /\ Tail(prog) \in Seq(StepType)
         /\ \E k : StepLegal(Head(prog), h, k) /\ Legal(Tail(prog), k)
<1> DEFINE n == Len(prog)
<1>1. n \in Nat /\ n # 0 /\ Head(prog) = prog[1]
  BY InSeq
<1>2. /\ Head(prog) \in StepType /\ Tail(prog) \in Seq(StepType) /\ Len(Tail(prog)) = n - 1
      /\ \A i \in 1 .. n - 1 : Tail(prog)[i] = prog[i + 1]
  BY HeadTailProperties
<1>3. PICK f : LegalBy(f, prog, h)
  BY DEF Legal
<1>4. f[0] = h /\ \A i \in 1 .. n : StepLegal(prog[i], f[i - 1], f[i])
  BY <1>3 DEF LegalBy
<1>5. StepLegal(Head(prog), h, f[1])
  BY <1>1, <1>4
<1> DEFINE g == [i \in 0 .. n - 1 |-> f[i + 1]]
<1> HIDE DEF n
<1>6. g[0] = f[1]
  BY <1>1
<1>7. ASSUME NEW i \in 1 .. n - 1 PROVE StepLegal(Tail(prog)[i], g[i - 1], g[i])
  <2>1. g[i - 1] = f[i] /\ g[i] = f[i + 1]
    BY <1>1
  <2>2. i + 1 \in 1 .. n /\ i + 1 - 1 = i
    BY <1>1
  <2>3. StepLegal(prog[i + 1], f[i], f[i + 1])
    BY <1>4, <2>2
  <2> HIDE DEF g
  <2> QED
    BY <1>2, <2>1, <2>3
<1> HIDE DEF g
<1>8. LegalBy(g, Tail(prog), f[1])
  BY <1>2, <1>6, <1>7 DEF LegalBy
<1> QED
  BY <1>2, <1>5, <1>8 DEF Legal

------------------------------------------------------------------------------
(* Where the engine stands, and what that says about the entry.             *)

At(s) == IF s.eng.phase = "waiting" THEN s.eng.resume ELSE s.eng.phase
(* Where it goes on once the keys of a tap are up.                          *)
Goes(s) == IF At(s) = "release" THEN s.eng.after ELSE At(s)

(* Caps Lock is put out of the way for the digits.                          *)
Under(s) == s.eng.mode = Linux /\ s.capsWas
(* The tap that has d taps after it.                                        *)
FromEnd(s, d) ==
  IF s.eng.mode = MacOS THEN Tap(<<Digit>>, {Alt})
  ELSE Tap(<<IF Under(s)
             THEN IF d = 1 THEN Commit ELSE IF d = 2 THEN Digit ELSE IF d = 3 THEN Trigger ELSE Caps
             ELSE IF d = 0 THEN Commit ELSE IF d = 1 THEN Digit ELSE Trigger>>, {})
(* n taps are left: which they are, whether the entry is open, and whether   *)
(* Caps Lock is turned.                                                      *)
Left(s, n) ==
  /\ n = Len(s.eng.taps) /\ (s.eng.mode # MacOS /\ ~Under(s) => n <= 3)
  /\ \A i \in 1 .. n : s.eng.taps[i] = FromEnd(s, n - i)
  /\ s.eng.mode # MacOS /\ s.open => IF Under(s) THEN n \in {2, 3} ELSE n \in {1, 2}
  /\ s.eng.toggled <=> Under(s) /\ n \in 1 .. 4
Progress(s) == \E n \in 0 .. 5 : Left(s, n)

Stands(s, g) ==
  /\ g \in {"ready", "second"} => ~s.eng.entry
  /\ g \in {"press", "finish"} => s.eng.entry /\ ~s.eng.neutral /\ ~s.eng.escaped /\ Progress(s)
  /\ g = "finish" => s.eng.taps = <<>>
  /\ g = "restore" => s.eng.entry /\ s.eng.neutral
  /\ g # "cleanup" => Legal(s.eng.prog, ToSet(s.eng.holds))

Placed(s) ==
  /\ s.eng.phase = "idle" => s.eng = Idle
  /\ At(s) \notin {"release", "cleanup"} => s.eng.transient = <<>>
  /\ s.eng.phase # "idle" => Stands(s, Goes(s))

(* Nothing is pressed but what the macro still holds.                       *)
Fits(s, t) == t.report \subseteq s.report \cup Leases(t) /\ t.edges \subseteq s.edges \cup Leases(t)

Done(s, t) == Board(t) /\ Hosted(t) /\ Placed(t) /\ Fits(s, t)

LEMMA StandsOn ==
  ASSUME NEW s, NEW t, Steady(s, t), t.eng.prog = s.eng.prog, t.eng.taps = s.eng.taps
  PROVE  \A g : Stands(s, g) => Stands(t, g)
<1>1. Progress(s) => Progress(t)
  <2>1. s.eng.mode = t.eng.mode /\ s.capsWas = t.capsWas /\ s.open = t.open
    BY DEF Steady, SameHost
  <2>2. (Under(s) <=> Under(t)) /\ \A d : FromEnd(s, d) = FromEnd(t, d)
    BY <2>1 DEF Under, FromEnd
  <2> QED
    BY <2>1, <2>2 DEF Progress, Left, Steady
<1> QED
  BY <1>1 DEF Stands, Steady

LEMMA GoesOn ==
  ASSUME NEW x, NEW s, NEW r \in Phases \ {"idle", "waiting"}, NEW t, t = Wait(s, r),
         Board(s), Hosted(s), Fits(x, s),
         Stands(s, IF r = "release" THEN s.eng.after ELSE r),
         r \notin {"release", "cleanup"} => s.eng.transient = <<>>
  PROVE  Done(x, t)
<1>0. s \in StateType
  BY DEF Board
<1>1. /\ Steady(s, t) /\ t.eng.phase = "waiting" /\ t.eng.resume = r /\ t.eng.after = s.eng.after
      /\ t.eng.prog = s.eng.prog /\ t.eng.second = s.eng.second /\ t.eng.taps = s.eng.taps
  BY <1>0, Waits
<1>2. Board(t) /\ Hosted(t) /\ Leases(t) = Leases(s)
  BY <1>1, SteadyKeeps
<1>3. Fits(x, t)
  BY <1>1, <1>2 DEF Fits, Steady, SameHost
<1>4. At(t) = r /\ Goes(t) = IF r = "release" THEN s.eng.after ELSE r
  BY <1>1 DEF At, Goes
<1>5. \A g : Stands(s, g) => Stands(t, g)
  BY <1>1, StandsOn
<1>6. Placed(t)
  <2>1. Stands(t, Goes(t))
    BY <1>4, <1>5
  <2>2. At(t) \notin {"release", "cleanup"} => t.eng.transient = <<>>
    BY <1>1, <1>4 DEF Steady
  <2> QED
    BY <1>1, <2>1, <2>2 DEF Placed
<1> QED
  BY <1>2, <1>3, <1>6 DEF Done

LEMMA PlacedCleanup == ASSUME NEW s, s.eng.phase = "cleanup" PROVE Placed(s)
<1>1. At(s) = "cleanup" /\ Goes(s) = "cleanup"
  BY DEF At, Goes
<1>2. Stands(s, "cleanup")
  BY DEF Stands
<1> QED
  BY <1>1, <1>2 DEF Placed

LEMMA CleansUp ==
  ASSUME NEW x, NEW s, NEW result \in {"error", "cancelled"}, NEW t, t = BeginCleanup(s, result),
         Board(s), Hosted(s), Fits(x, s), s.eng.phase # "idle"
  PROVE  Done(x, t)
<1>0. s \in StateType
  BY DEF Board
<1>1. CASE s.eng.phase = "cleanup"
  <2>1. t = s
    BY <1>1 DEF BeginCleanup
  <2>2. Placed(s)
    BY <1>1, PlacedCleanup
  <2> QED
    BY <2>1, <2>2 DEF Done
<1>2. CASE s.eng.phase # "cleanup"
  <2> DEFINE e == [s.eng EXCEPT !.phase = "cleanup", !.result = result]
  <2>1. t = [s EXCEPT !.eng = e]
    BY <1>0, <1>2 DEF BeginCleanup, StateType
  <2>2. /\ e \in EngType /\ e.phase = "cleanup"
        /\ e.protected = s.eng.protected /\ e.mode = s.eng.mode /\ e.entry = s.eng.entry
        /\ e.mods = s.eng.mods /\ e.escaped = s.eng.escaped /\ e.neutral = s.eng.neutral
        /\ e.toggled = s.eng.toggled /\ e.alt = s.eng.alt
        /\ e.holds = s.eng.holds /\ e.transient = s.eng.transient
    BY <1>0, ZenonT(40) DEF StateType, EngType, Phases
  <2> HIDE DEF e
  <2>3. t \in StateType /\ t.eng = e /\ SameBoard(s, t) /\ SameHost(s, t)
    BY <1>0, <2>1, <2>2, EngPut
  <2>4. Steady(s, t)
    BY <2>2, <2>3 DEF Steady, SameBoard
  <2>5. Board(t) /\ Hosted(t) /\ Leases(t) = Leases(s)
    BY <2>4, SteadyKeeps
  <2>6. Fits(x, t)
    BY <2>3, <2>5 DEF Fits, SameHost
  <2>7. Placed(t)
    BY <2>2, <2>3, PlacedCleanup
  <2> QED
    BY <2>5, <2>6, <2>7 DEF Done
<1> QED
  BY <1>1, <1>2

LEMMA Fails ==
  ASSUME NEW x, NEW s, NEW t, t = Fail(s), Board(s), Hosted(s), Fits(x, s), s.eng.phase # "idle"
  PROVE  Done(x, t)
BY CleansUp DEF Fail

------------------------------------------------------------------------------
(* Taking and giving back.                                                  *)

(* A report after owners changed, with all of them accounted for.           *)
LEMMA BoardMoves ==
  ASSUME NEW s, NEW u \in StateType, NEW t, t = Send(u), NEW new,
         Board(s), SameHost(s, u), u.eng.protected = s.eng.protected,
         Ledger(u), Once(u.eng.holds),
         Leases(u) \subseteq Leases(s) \cup new, Owned(u) \subseteq Owned(s) \cup new \cup Mods
  PROVE  /\ Board(t) /\ t.eng = u.eng /\ SameBoard(u, t)
         /\ HostSaw(s, t) /\ Pressed(s, t) \subseteq new /\ Leases(t) = Leases(u)
<1>1. /\ t \in StateType /\ t.eng = u.eng /\ SameBoard(u, t) /\ Shown(t)
      /\ HostSaw(s, t) /\ Pressed(s, t) \subseteq new
  BY Moves DEF Board
<1>2. Ledger(t)
  BY <1>1 DEF Ledger, Live, SameBoard
<1> QED
  BY <1>1, <1>2 DEF Board, Leases

(* An engine in another place that holds the same, and its report.          *)
SameHold(e, f) ==
  f.protected = e.protected /\ f.alt = e.alt /\ f.holds = e.holds /\ f.transient = e.transient

LEMMA Shows ==
  ASSUME NEW s, NEW e \in EngType, NEW u, u = [s EXCEPT !.eng = e], NEW t, t = Send(u),
         Board(s), SameHold(s.eng, e)
  PROVE  /\ Board(t) /\ t.eng = e /\ SameBoard(s, t)
         /\ HostSaw(s, t) /\ Pressed(s, t) = {} /\ Leases(t) = Leases(s)
<1>0. s \in StateType
  BY DEF Board
<1>1. u \in StateType /\ u.eng = e /\ SameBoard(s, u) /\ SameHost(s, u)
  BY <1>0, EngPut
<1>2. Leases(u) = Leases(s) /\ Owned(u) = Owned(s)
  BY <1>1 DEF Leases, Owned, SameBoard, SameHold
<1>3. Ledger(u) /\ Once(u.eng.holds)
  BY <1>1 DEF Ledger, Live, SameBoard, SameHold, Board
<1> DEFINE none == {}
<1>4. /\ Board(t) /\ t.eng = u.eng /\ SameBoard(u, t)
      /\ HostSaw(s, t) /\ Pressed(s, t) \subseteq none /\ Leases(t) = Leases(u)
  <2>1. u.eng.protected = s.eng.protected
    BY <1>1 DEF SameHold
  <2>2. Leases(u) \subseteq Leases(s) \cup none /\ Owned(u) \subseteq Owned(s) \cup none \cup Mods
    BY <1>2
  <2> HIDE DEF none
  <2> QED
    BY <1>1, <1>3, <2>1, <2>2, BoardMoves
<1> QED
  BY <1>1, <1>2, <1>4 DEF SameBoard

LEMMA Takes ==
  ASSUME NEW v \in StateType, NEW k \in Keys, NEW u, u = Take(v, k)
  PROVE  /\ u \in StateType /\ u.eng = v.eng /\ SameHost(v, u)
         /\ u.live = v.live /\ u.refused = v.refused /\ u.capsWas = v.capsWas
         /\ u.ledger[k] = v.ledger[k] + 1
         /\ \A m \in Keys \ {k} : u.ledger[m] = v.ledger[m]
BY DEF StateType, Take, SameHost

LEMMA Drops ==
  ASSUME NEW v \in StateType, NEW k \in Keys, NEW u, u = Drop(v, k)
  PROVE  /\ u \in StateType /\ u.eng = v.eng /\ SameHost(v, u)
         /\ u.live = v.live /\ u.refused = v.refused /\ u.capsWas = v.capsWas
         /\ u.ledger[k] = v.ledger[k] - 1
         /\ \A m \in Keys \ {k} : u.ledger[m] = v.ledger[m]
BY DEF StateType, Drop, SameHost

(* Two engines alike but for the keys of a tap.                             *)
AsideTaps(e, f) ==
  /\ f.phase = e.phase /\ f.resume = e.resume /\ f.after = e.after
  /\ f.prog = e.prog /\ f.second = e.second /\ f.taps = e.taps
  /\ f.protected = e.protected /\ f.mode = e.mode /\ f.entry = e.entry /\ f.mods = e.mods
  /\ f.escaped = e.escaped /\ f.neutral = e.neutral /\ f.toggled = e.toggled /\ f.alt = e.alt
  /\ f.holds = e.holds

LEMMA TransientPut ==
  ASSUME NEW s \in StateType, NEW q \in Seq(Keys), NEW v, v = [s EXCEPT !.eng.transient = q]
  PROVE  /\ v \in StateType /\ SameBoard(s, v) /\ SameHost(s, v)
         /\ AsideTaps(s.eng, v.eng) /\ v.eng.transient = q
<1> DEFINE e == [s.eng EXCEPT !.transient = q]
<1>1. v = [s EXCEPT !.eng = e]
  BY DEF StateType
<1>2. e \in EngType /\ AsideTaps(s.eng, e) /\ e.transient = q
  BY DEF StateType, EngType, AsideTaps
<1> HIDE DEF e
<1> QED
  BY <1>1, <1>2, EngPut

LEMMA TakesTap ==
  ASSUME NEW s, NEW k \in Keys, NEW t, t = TakeNext(s, k),
         Board(s), ~s.refused, s.ledger[k] # Most
  PROVE  /\ Board(t) /\ AsideTaps(s.eng, t.eng)
         /\ t.eng.transient = Append(s.eng.transient, k)
         /\ t.live = s.live /\ t.refused = s.refused /\ t.capsWas = s.capsWas
         /\ HostSaw(s, t) /\ Pressed(s, t) \subseteq {k} /\ Leases(t) = Leases(s) \cup {k}
<1> DEFINE q == Append(s.eng.transient, k)
           v == [s EXCEPT !.eng.transient = q]
           u == Take(v, k)
<1>0. s \in StateType /\ s.eng.transient \in Seq(Keys)
  BY Typed DEF Board
<1>1. /\ q \in Seq(Keys) /\ ToSet(q) = ToSet(s.eng.transient) \cup {k}
      /\ \A m : Count(q, m) = Count(s.eng.transient, m) + (IF m = k THEN 1 ELSE 0)
  BY <1>0, AppendIn
<1>2. t = Send(u)
  BY <1>0 DEF TakeNext, Refused
<1>3. \A m : Count(s.eng.transient, m) \in Nat
  BY <1>0, CountIn
<1> HIDE DEF q
<1>4. /\ v \in StateType /\ SameBoard(s, v) /\ SameHost(s, v)
      /\ AsideTaps(s.eng, v.eng) /\ v.eng.transient = q
  BY <1>0, <1>1, TransientPut
<1> HIDE DEF v
<1>5. /\ u \in StateType /\ u.eng = v.eng /\ SameHost(v, u)
      /\ u.live = v.live /\ u.refused = v.refused /\ u.capsWas = v.capsWas
      /\ u.ledger[k] = v.ledger[k] + 1
      /\ \A m \in Keys \ {k} : u.ledger[m] = v.ledger[m]
  BY <1>4, Takes
<1> HIDE DEF u
<1>6. SameHost(s, u)
  BY <1>4, <1>5 DEF SameHost
<1>7. Ledger(u)
  <2>1. ASSUME NEW m \in Keys
        PROVE  u.ledger[m] = Live(u, m) + One(m \in ToSet(u.eng.holds)) + Count(u.eng.transient, m)
                               + One(u.eng.alt /\ m = Alt)
    <3>1. s.ledger[m] = Live(s, m) + One(m \in ToSet(s.eng.holds)) + Count(s.eng.transient, m)
                               + One(s.eng.alt /\ m = Alt)
      BY DEF Board, Ledger
    <3>2. /\ Live(u, m) = Live(s, m) /\ u.eng.holds = s.eng.holds /\ u.eng.alt = s.eng.alt
          /\ u.eng.transient = q
      BY <1>4, <1>5 DEF Live, SameBoard, AsideTaps
    <3>3. /\ Live(s, m) \in Int /\ One(m \in ToSet(s.eng.holds)) \in Int
          /\ One(s.eng.alt /\ m = Alt) \in Int
      BY <1>0 DEF Live, One, StateType
    <3>4. u.ledger[m] = s.ledger[m] + (IF m = k THEN 1 ELSE 0)
      BY <1>0, <1>4, <1>5 DEF SameBoard, StateType
    <3>5. One(m \in ToSet(u.eng.holds)) = One(m \in ToSet(s.eng.holds)) /\ One(u.eng.alt /\ m = Alt) = One(s.eng.alt /\ m = Alt)
      BY <3>2 DEF One
    <3>6. Count(u.eng.transient, m) = Count(s.eng.transient, m) + (IF m = k THEN 1 ELSE 0)
      BY <1>1, <3>2
    <3> QED
      BY <1>3, <3>1, <3>2, <3>3, <3>4, <3>5, <3>6
  <2> QED
    BY <2>1 DEF Ledger
<1>8. Once(u.eng.holds) /\ u.eng.protected = s.eng.protected
  BY <1>4, <1>5 DEF Board, AsideTaps
<1>9. Leases(u) = Leases(s) \cup {k}
  BY <1>1, <1>4, <1>5 DEF Leases, AsideTaps
<1>10. Owned(u) \subseteq Owned(s) \cup {k} \cup Mods
  BY <1>4, <1>5 DEF Owned, SameBoard
<1>11. /\ Board(t) /\ t.eng = u.eng /\ SameBoard(u, t)
       /\ HostSaw(s, t) /\ Pressed(s, t) \subseteq {k} /\ Leases(t) = Leases(u)
  <2> DEFINE new == {k}
  <2>1. Leases(u) \subseteq Leases(s) \cup new /\ Owned(u) \subseteq Owned(s) \cup new \cup Mods
    BY <1>9, <1>10
  <2> HIDE DEF new
  <2>2. /\ Board(t) /\ t.eng = u.eng /\ SameBoard(u, t)
        /\ HostSaw(s, t) /\ Pressed(s, t) \subseteq new /\ Leases(t) = Leases(u)
    BY <1>2, <1>5, <1>6, <1>7, <1>8, <2>1, BoardMoves
  <2> QED
    BY <2>2 DEF new
<1> QED
  BY <1>4, <1>5, <1>9, <1>11 DEF q, SameBoard, AsideTaps

LEMMA GivesTap ==
  ASSUME NEW s, NEW t, t = ReleaseLast(s), Board(s), s.eng.transient # <<>>
  PROVE  /\ Board(t) /\ AsideTaps(s.eng, t.eng)
         /\ Len(t.eng.transient) = Len(s.eng.transient) - 1
         /\ t.live = s.live /\ t.refused = s.refused /\ t.capsWas = s.capsWas
         /\ HostSaw(s, t) /\ Pressed(s, t) = {} /\ Leases(t) \subseteq Leases(s)
<1> DEFINE q == Front(s.eng.transient)
           k == Last(s.eng.transient)
           v == [s EXCEPT !.eng.transient = q]
           u == Drop(v, k)
<1>0. s \in StateType /\ s.eng.transient \in Seq(Keys)
  BY Typed DEF Board
<1>1. /\ q \in Seq(Keys) /\ k \in Keys /\ ToSet(q) \subseteq ToSet(s.eng.transient)
      /\ Len(q) = Len(s.eng.transient) - 1
      /\ \A m : Count(s.eng.transient, m) = Count(q, m) + (IF m = k THEN 1 ELSE 0)
  BY <1>0, FrontIn
<1>2. t = Send(u)
  BY <1>0 DEF ReleaseLast
<1> HIDE DEF q, k
<1>3. \A m : Count(q, m) \in Nat
  BY <1>1, CountIn
<1>4. /\ v \in StateType /\ SameBoard(s, v) /\ SameHost(s, v)
      /\ AsideTaps(s.eng, v.eng) /\ v.eng.transient = q
  BY <1>0, <1>1, TransientPut
<1> HIDE DEF v
<1>5. /\ u \in StateType /\ u.eng = v.eng /\ SameHost(v, u)
      /\ u.live = v.live /\ u.refused = v.refused /\ u.capsWas = v.capsWas
      /\ u.ledger[k] = v.ledger[k] - 1
      /\ \A m \in Keys \ {k} : u.ledger[m] = v.ledger[m]
  BY <1>1, <1>4, Drops
<1> HIDE DEF u
<1>6. SameHost(s, u)
  BY <1>4, <1>5 DEF SameHost
<1>7. Ledger(u)
  <2>1. ASSUME NEW m \in Keys
        PROVE  u.ledger[m] = Live(u, m) + One(m \in ToSet(u.eng.holds)) + Count(u.eng.transient, m)
                               + One(u.eng.alt /\ m = Alt)
    <3>1. s.ledger[m] = Live(s, m) + One(m \in ToSet(s.eng.holds)) + Count(s.eng.transient, m)
                               + One(s.eng.alt /\ m = Alt)
      BY DEF Board, Ledger
    <3>2. /\ Live(u, m) = Live(s, m) /\ u.eng.holds = s.eng.holds /\ u.eng.alt = s.eng.alt
          /\ u.eng.transient = q
      BY <1>4, <1>5 DEF Live, SameBoard, AsideTaps
    <3>3. /\ Live(s, m) \in Int /\ One(m \in ToSet(s.eng.holds)) \in Int
          /\ One(s.eng.alt /\ m = Alt) \in Int
      BY <1>0 DEF Live, One, StateType
    <3>4. u.ledger[m] = s.ledger[m] - (IF m = k THEN 1 ELSE 0)
      BY <1>0, <1>4, <1>5 DEF SameBoard, StateType
    <3>5. One(m \in ToSet(u.eng.holds)) = One(m \in ToSet(s.eng.holds)) /\ One(u.eng.alt /\ m = Alt) = One(s.eng.alt /\ m = Alt)
      BY <3>2 DEF One
    <3>6. Count(s.eng.transient, m) = Count(u.eng.transient, m) + (IF m = k THEN 1 ELSE 0)
      BY <1>1, <3>2
    <3>7. Count(u.eng.transient, m) \in Nat
      BY <1>3, <3>2
    <3> QED
      BY <3>1, <3>2, <3>3, <3>4, <3>5, <3>6, <3>7
  <2> QED
    BY <2>1 DEF Ledger
<1>8. Once(u.eng.holds) /\ u.eng.protected = s.eng.protected
  BY <1>4, <1>5 DEF Board, AsideTaps
<1>9. Leases(u) \subseteq Leases(s)
  BY <1>1, <1>4, <1>5 DEF Leases, AsideTaps
<1>10. Owned(u) \subseteq Owned(s)
  <2>1. \A m \in Keys : s.ledger[m] \in Int /\ v.ledger[m] = s.ledger[m]
    BY <1>0, <1>4 DEF StateType, SameBoard
  <2>2. \A m \in Keys : u.ledger[m] > 0 => s.ledger[m] > 0
    BY <1>1, <1>5, <2>1
  <2> QED
    BY <2>2 DEF Owned
<1> DEFINE new == {}
<1>11. /\ Board(t) /\ t.eng = u.eng /\ SameBoard(u, t)
       /\ HostSaw(s, t) /\ Pressed(s, t) \subseteq new /\ Leases(t) = Leases(u)
  <2>1. Leases(u) \subseteq Leases(s) \cup new /\ Owned(u) \subseteq Owned(s) \cup new \cup Mods
    BY <1>9, <1>10
  <2> HIDE DEF new
  <2> QED
    BY <1>2, <1>5, <1>6, <1>7, <1>8, <2>1, BoardMoves
<1> QED
  BY <1>1, <1>4, <1>5, <1>9, <1>11 DEF SameBoard, AsideTaps

------------------------------------------------------------------------------
(* A chord of the macro's own, outside an entry.                            *)

Took(s, t) ==
  /\ Board(t) /\ AsideTaps(s.eng, t.eng) /\ t.capsWas = s.capsWas
  /\ Leases(s) \subseteq Leases(t) /\ Fits(s, t)
  /\ t.caps = s.caps /\ ~t.open /\ ~t.garbled

LEMMA TookMore ==
  ASSUME NEW s, NEW a, NEW k \in Plain, NEW b, b = TakeNext(a, k),
         Took(s, a), ~s.eng.entry
  PROVE  Took(s, b)
<1>0. a \in StateType /\ a.refused \in BOOLEAN /\ a.caps \in BOOLEAN /\ k \in Keys /\ k # Caps /\ k # Trigger
  BY DEF Took, Board, StateType, Plain
<1>1. CASE a.refused \/ a.ledger[k] = Most
  <2>1. b = [a EXCEPT !.refused = TRUE]
    BY <1>1 DEF TakeNext, Refused
  <2>2. b \in StateType /\ b.eng = a.eng /\ b.ledger = a.ledger /\ b.live = a.live /\ b.capsWas = a.capsWas /\ SameHost(a, b)
    BY <1>0, <2>1 DEF StateType, SameHost
  <2>3. Steady(a, b)
    BY <2>2 DEF Steady
  <2>4. Board(b) /\ Leases(b) = Leases(a)
    BY <2>3, SteadyKeeps DEF Took
  <2>5. Fits(s, b)
    BY <2>2, <2>4 DEF Took, Fits, SameHost
  <2> QED
    BY <2>2, <2>4, <2>5 DEF Took, SameHost
<1>2. CASE ~a.refused /\ a.ledger[k] # Most
  <2>1. /\ Board(b) /\ AsideTaps(a.eng, b.eng)
        /\ b.live = a.live /\ b.refused = a.refused /\ b.capsWas = a.capsWas
        /\ HostSaw(a, b) /\ Pressed(a, b) \subseteq {k} /\ Leases(b) = Leases(a) \cup {k}
    BY <1>0, <1>2, TakesTap DEF Took
  <2>2. AsideTaps(s.eng, b.eng) /\ b.capsWas = s.capsWas /\ Leases(s) \subseteq Leases(b)
    BY <2>1 DEF Took, AsideTaps
  <2>3. Fits(s, b)
    BY <2>1 DEF Took, Fits, HostSaw, Pressed
  <2>4. Caps \notin Pressed(a, b) /\ Trigger \notin Pressed(a, b)
    BY <1>0, <2>1
  <2>5. b.caps = a.caps
    <3>1. b.caps <=> a.caps
      BY <2>1, <2>4 DEF HostSaw
    <3>2. b.caps \in BOOLEAN
      BY <2>1 DEF Board, StateType
    <3> QED
      BY <1>0, <3>1, <3>2
  <2>6. ~b.eng.entry /\ ~a.open /\ ~a.garbled
    BY <2>2 DEF AsideTaps, Took
  <2>7. ~b.open /\ ~b.garbled
    BY <2>1, <2>4, <2>6 DEF HostSaw
  <2> QED
    BY <2>1, <2>2, <2>3, <2>5, <2>7 DEF Took
<1> QED
  BY <1>0, <1>1, <1>2

LEMMA ChordTaken ==
  ASSUME NEW s, NEW keys \in Seq(Plain), NEW t, t = AcquireAll(s, keys),
         Board(s), Hosted(s), ~s.eng.entry
  PROVE  Took(s, t)
<1> DEFINE n == Len(keys)
<1>1. n \in Nat /\ \A i \in 1 .. n : keys[i] \in Plain
  BY InSeq
<1>2. PICK g : g[0] = s /\ g[n] = t /\ \A i \in 1 .. n : g[i] = Does("take", keys, g[i - 1], i)
  <2>1. Ran("take", keys, s, n, t)
    BY <1>1, AcquireRan
  <2> QED
    BY <2>1 DEF Ran
<1> HIDE DEF n
<1>3. \A i \in 1 .. n : g[i] = TakeNext(g[i - 1], keys[i])
  BY <1>2 DEF Does
<1> DEFINE T == {i \in 0 .. n : Took(s, g[i])}
<1>4. Took(s, g[0])
  <2>1. Fits(s, s)
    BY DEF Fits
  <2> QED
    BY <1>2, <2>1 DEF Took, AsideTaps, Hosted
<1>5. ASSUME NEW i \in 1 .. n, i - 1 \in T PROVE i \in T
  <2>1. Took(s, g[i - 1]) /\ i \in 0 .. n
    BY <1>1, <1>5
  <2>2. g[i] = TakeNext(g[i - 1], keys[i]) /\ keys[i] \in Plain
    BY <1>1, <1>3 DEF n
  <2>3. Took(s, g[i])
    BY <2>1, <2>2, TookMore
  <2> QED
    BY <2>1, <2>3
<1>6. 0 \in T
  BY <1>1, <1>4 DEF n
<1> HIDE DEF T
<1>7. n \in T
  BY <1>1, <1>5, <1>6, Upto DEF n
<1> QED
  BY <1>2, <1>7 DEF T

LEMMA AfterPut ==
  ASSUME NEW s \in StateType, NEW next \in {"ready", "second", "press", "cleanup"},
         NEW v, v = [s EXCEPT !.eng.after = next]
  PROVE  /\ Steady(s, v) /\ v.refused = s.refused
         /\ v.eng.after = next /\ v.eng.phase = s.eng.phase
         /\ v.eng.prog = s.eng.prog /\ v.eng.second = s.eng.second /\ v.eng.taps = s.eng.taps
<1> DEFINE e == [s.eng EXCEPT !.after = next]
<1>1. v = [s EXCEPT !.eng = e]
  BY DEF StateType
<1>2. e \in EngType /\ AsideTaps([s.eng EXCEPT !.after = next], e) /\ e.transient = s.eng.transient /\ e.after = next
  BY DEF StateType, EngType, AsideTaps
<1>3. /\ e.phase = s.eng.phase
      /\ e.prog = s.eng.prog /\ e.second = s.eng.second /\ e.taps = s.eng.taps
      /\ e.protected = s.eng.protected /\ e.mode = s.eng.mode /\ e.entry = s.eng.entry
      /\ e.mods = s.eng.mods /\ e.escaped = s.eng.escaped /\ e.neutral = s.eng.neutral
      /\ e.toggled = s.eng.toggled /\ e.alt = s.eng.alt /\ e.holds = s.eng.holds
  BY DEF StateType, EngType
<1> HIDE DEF e
<1>4. v \in StateType /\ v.eng = e /\ SameBoard(s, v) /\ SameHost(s, v)
  BY <1>1, <1>2, EngPut
<1> QED
  BY <1>2, <1>3, <1>4 DEF Steady, SameBoard

LEMMA Chords ==
  ASSUME NEW x, NEW s, NEW keys \in Seq(Plain), NEW next \in {"ready", "second"},
         NEW t, t = StartTransient(s, keys, next),
         Board(s), Hosted(s), Fits(x, s), ~s.eng.entry, s.eng.phase # "idle",
         Legal(s.eng.prog, ToSet(s.eng.holds))
  PROVE  Done(x, t)
<1> DEFINE a == AcquireAll(s, keys)
<1>1. Took(s, a)
  BY ChordTaken
<1>2. t = IF a.refused THEN Fail(a) ELSE Wait([a EXCEPT !.eng.after = next], "release")
  BY DEF StartTransient
<1> HIDE DEF a
<1>3. a \in StateType /\ Board(a) /\ AsideTaps(s.eng, a.eng) /\ Fits(s, a)
  BY <1>1 DEF Took, Board
<1>4. Hosted(a)
  BY <1>1 DEF Took, AsideTaps, Hosted
<1>5. Fits(x, a)
  BY <1>1 DEF Took, Fits
<1>6. CASE a.refused
  <2>1. a.eng.phase # "idle"
    BY <1>3 DEF AsideTaps
  <2> QED
    BY <1>2, <1>3, <1>4, <1>5, <1>6, <2>1, Fails
<1>7. CASE ~a.refused
  <2> DEFINE v == [a EXCEPT !.eng.after = next]
  <2>1. /\ Steady(a, v) /\ v.eng.after = next
        /\ v.eng.prog = a.eng.prog
    BY <1>3, AfterPut
  <2>2. t = Wait(v, "release")
    BY <1>2, <1>7
  <2> HIDE DEF v
  <2>3. Board(v) /\ Hosted(v) /\ Leases(v) = Leases(a)
    BY <1>3, <1>4, <2>1, SteadyKeeps
  <2>4. Fits(x, v)
    BY <1>5, <2>1, <2>3 DEF Fits, Steady, SameHost
  <2>5. Stands(v, next)
    BY <1>3, <2>1 DEF Stands, Steady, AsideTaps
  <2>6. "release" \in Phases \ {"idle", "waiting"}
    BY DEF Phases
  <2> QED
    BY <2>1, <2>2, <2>3, <2>4, <2>5, <2>6, GoesOn
<1> QED
  BY <1>6, <1>7

------------------------------------------------------------------------------
(* A tap of the entry's own.                                                *)

Special == {Caps, Esc, Digit, Trigger, Commit}

(* Nobody has one of its keys when no tap is down.                          *)
LEMMA Absent ==
  ASSUME NEW s, NEW k \in Special, Board(s), s.eng.transient = <<>>, ToSet(s.eng.holds) \subseteq Mods
  PROVE  k \in Keys \ Mods /\ s.ledger[k] = 0 /\ k \notin s.report /\ k \notin Leases(s)
<1>0. k \in Keys /\ k \notin Mods /\ k \notin LiveKeys /\ k # Alt
  BY KeysAre DEF Special
<1>1. s \in StateType /\ s.eng.transient \in Seq(Keys)
  BY Typed DEF Board
<1>2. Live(s, k) = 0 /\ One(k \in ToSet(s.eng.holds)) = 0 /\ One(s.eng.alt /\ k = Alt) = 0
  BY <1>0 DEF Live, One
<1>3. Count(s.eng.transient, k) = 0 /\ k \notin ToSet(s.eng.transient)
  BY <1>1, CountIn
<1>4. s.ledger[k] = Live(s, k) + One(k \in ToSet(s.eng.holds)) + Count(s.eng.transient, k)
                               + One(s.eng.alt /\ k = Alt)
  BY <1>0 DEF Board, Ledger
<1>5. s.ledger[k] = 0
  BY <1>2, <1>3, <1>4
<1>6. k \notin Leases(s)
  BY <1>0, <1>3 DEF Leases
<1>7. k \notin Owned(s)
  BY <1>5 DEF Owned
<1> QED
  BY <1>0, <1>5, <1>6, <1>7 DEF Board, Shown

LEMMA OneAcquired ==
  ASSUME NEW s, NEW k, NEW t, t = AcquireAll(s, <<k>>)
  PROVE  t = TakeNext(s, k)
<1>1. Len(<<k>>) = 1 /\ <<k>>[1] = k
  OBVIOUS
<1>2. PICK g : g[0] = s /\ g[1] = t /\ \A i \in 1 .. 1 : g[i] = Does("take", <<k>>, g[i - 1], i)
  <2>1. Ran("take", <<k>>, s, 1, t)
    BY <1>1, AcquireRan
  <2> QED
    BY <2>1 DEF Ran
<1>3. g[1] = TakeNext(g[1 - 1], <<k>>[1])
  BY <1>2 DEF Does
<1>4. 1 - 1 = 0
  OBVIOUS
<1> QED
  BY <1>1, <1>2, <1>3, <1>4

(* Two engines alike but for the tap under way and where it leads.          *)
AsideTap(e, f) ==
  /\ f.prog = e.prog /\ f.second = e.second /\ f.taps = e.taps
  /\ f.protected = e.protected /\ f.mode = e.mode /\ f.entry = e.entry /\ f.mods = e.mods
  /\ f.escaped = e.escaped /\ f.neutral = e.neutral /\ f.toggled = e.toggled /\ f.alt = e.alt
  /\ f.holds = e.holds

Tapped(s, t, k, next) ==
  /\ Board(t) /\ AsideTap(s.eng, t.eng) /\ t.capsWas = s.capsWas
  /\ t.eng.phase = "waiting" /\ t.eng.resume = "release" /\ t.eng.after = next
  /\ HostSaw(s, t) /\ Pressed(s, t) = {k} /\ Leases(t) = Leases(s) \cup {k}

LEMMA OneTap ==
  ASSUME NEW s, NEW k \in Special, NEW next \in {"press", "cleanup"},
         NEW t, t = StartTransient(s, <<k>>, next),
         Board(s), s.eng.transient = <<>>, ToSet(s.eng.holds) \subseteq Mods, ~s.refused
  PROVE  Tapped(s, t, k, next)
<1>1. k \in Keys \ Mods /\ s.ledger[k] = 0 /\ k \notin s.report /\ k \notin Leases(s)
  BY Absent
<1> DEFINE a == AcquireAll(s, <<k>>)
<1>2. a = TakeNext(s, k)
  BY OneAcquired
<1>3. t = IF a.refused THEN Fail(a) ELSE Wait([a EXCEPT !.eng.after = next], "release")
  BY DEF StartTransient
<1> HIDE DEF a
<1>4. s.ledger[k] # Most
  BY <1>1, KeysAre
<1>5. /\ Board(a) /\ AsideTaps(s.eng, a.eng)
      /\ a.live = s.live /\ a.refused = s.refused /\ a.capsWas = s.capsWas
      /\ HostSaw(s, a) /\ Pressed(s, a) \subseteq {k} /\ Leases(a) = Leases(s) \cup {k}
  BY <1>1, <1>2, <1>4, TakesTap
<1>6. Pressed(s, a) = {k}
  <2>1. k \in a.report
    BY <1>1, <1>5 DEF Board, Shown
  <2> QED
    BY <1>1, <1>5, <2>1 DEF Pressed
<1> DEFINE v == [a EXCEPT !.eng.after = next]
<1>7. a \in StateType
  BY <1>5 DEF Board
<1>8. /\ Steady(a, v) /\ v.eng.after = next /\ v.eng.phase = a.eng.phase
      /\ v.eng.prog = a.eng.prog /\ v.eng.second = a.eng.second /\ v.eng.taps = a.eng.taps
  BY <1>7, AfterPut
<1>9. t = Wait(v, "release")
  BY <1>3, <1>5
<1> HIDE DEF v
<1>10. v \in StateType /\ "release" \in Phases \ {"idle", "waiting"}
  BY <1>8 DEF Steady, Phases
<1>11. /\ Steady(v, t) /\ t.eng.phase = "waiting" /\ t.eng.resume = "release" /\ t.eng.after = next
       /\ t.eng.prog = v.eng.prog /\ t.eng.second = v.eng.second /\ t.eng.taps = v.eng.taps
  BY <1>8, <1>9, <1>10, Waits
<1>12. Board(t) /\ Leases(t) = Leases(a)
  BY <1>5, <1>8, <1>11, SteadyKeeps
<1>13. AsideTap(s.eng, t.eng) /\ t.capsWas = s.capsWas
  BY <1>5, <1>8, <1>11 DEF AsideTap, AsideTaps, Steady
<1>14. HostSaw(s, t) /\ Pressed(s, t) = {k}
  <2>1. /\ t.report = a.report /\ t.edges = a.edges /\ t.caps = a.caps /\ t.open = a.open
        /\ t.garbled = a.garbled
    BY <1>8, <1>11 DEF Steady, SameHost
  <2>2. t.eng.mode = a.eng.mode /\ t.eng.entry = a.eng.entry /\ t.eng.mods = a.eng.mods
    BY <1>8, <1>11 DEF Steady
  <2>3. Pressed(s, t) = Pressed(s, a)
    BY <2>1 DEF Pressed
  <2>4. HostSaw(s, t)
    BY <1>5, <2>1, <2>2, <2>3, Zenon DEF HostSaw
  <2> QED
    BY <1>6, <2>3, <2>4
<1> QED
  BY <1>5, <1>11, <1>12, <1>13, <1>14 DEF Tapped

(* The entry's modifiers go out before its tap.                             *)
LEMMA TapSent ==
  ASSUME NEW s, NEW e \in EngType, NEW u, u = [s EXCEPT !.eng = e],
         NEW m, m = Send(u), NEW k \in Special, NEW next \in {"press", "cleanup"},
         NEW t, t = StartTransient(m, <<k>>, next),
         Board(s), SameHold(s.eng, e), s.eng.transient = <<>>,
         ToSet(s.eng.holds) \subseteq Mods, ~s.refused
  PROVE  /\ Board(m) /\ m.eng = e /\ m.capsWas = s.capsWas /\ HostSaw(s, m) /\ Pressed(s, m) = {}
         /\ Leases(m) = Leases(s) /\ Tapped(m, t, k, next)
<1>1. /\ Board(m) /\ m.eng = e /\ SameBoard(s, m)
      /\ HostSaw(s, m) /\ Pressed(s, m) = {} /\ Leases(m) = Leases(s)
  BY Shows
<1>2. m.eng.transient = <<>> /\ ToSet(m.eng.holds) \subseteq Mods /\ ~m.refused /\ m.capsWas = s.capsWas
  BY <1>1 DEF SameHold, SameBoard
<1>3. Tapped(m, t, k, next)
  BY <1>1, <1>2, OneTap
<1> QED
  BY <1>1, <1>2, <1>3

LEMMA FitsOn ==
  ASSUME NEW x, NEW s, NEW m, NEW t, NEW k, NEW next,
         Fits(x, s), HostSaw(s, m), Pressed(s, m) = {}, Leases(m) = Leases(s), Tapped(m, t, k, next)
  PROVE  Fits(x, t)
<1>1. m.report \subseteq s.report /\ m.edges = s.edges
  BY DEF HostSaw, Pressed
<1>2. t.report \subseteq m.report \cup {k} /\ t.edges = m.edges \cup {k} /\ Leases(t) = Leases(s) \cup {k}
  BY DEF Tapped, HostSaw, Pressed
<1> QED
  BY <1>1, <1>2 DEF Fits

PhaseIs(s, p) == [s EXCEPT !.eng.phase = p]
PhasedAt(s, v, p) ==
  /\ Steady(s, v) /\ v.refused = s.refused /\ v.eng.phase = p
  /\ v.eng.resume = s.eng.resume /\ v.eng.after = s.eng.after
  /\ v.eng.prog = s.eng.prog /\ v.eng.second = s.eng.second /\ v.eng.taps = s.eng.taps

LEMMA PhasePut ==
  ASSUME NEW s \in StateType, NEW p \in Phases, NEW v, v = PhaseIs(s, p) PROVE PhasedAt(s, v, p)
<1> DEFINE e == [s.eng EXCEPT !.phase = p]
<1>1. v = [s EXCEPT !.eng = e]
  BY DEF StateType, PhaseIs
<1>2. /\ e \in EngType /\ e.phase = p /\ e.transient = s.eng.transient
      /\ e.resume = s.eng.resume /\ e.after = s.eng.after
      /\ e.prog = s.eng.prog /\ e.second = s.eng.second /\ e.taps = s.eng.taps
      /\ e.protected = s.eng.protected /\ e.mode = s.eng.mode /\ e.entry = s.eng.entry
      /\ e.mods = s.eng.mods /\ e.escaped = s.eng.escaped /\ e.neutral = s.eng.neutral
      /\ e.toggled = s.eng.toggled /\ e.alt = s.eng.alt /\ e.holds = s.eng.holds
  BY DEF StateType, EngType
<1> HIDE DEF e
<1>3. v \in StateType /\ v.eng = e /\ SameBoard(s, v) /\ SameHost(s, v)
  BY <1>1, <1>2, EngPut
<1> QED
  <2>1. Steady(s, v)
    BY <1>2, <1>3 DEF Steady, SameBoard
  <2> QED
    BY <1>2, <1>3, <2>1 DEF PhasedAt, SameBoard

(* Every tap is sent: the entry is finished.                                *)
LEMMA PressesLast ==
  ASSUME NEW s, NEW t, t = [s EXCEPT !.eng.phase = "finish"],
         Board(s), Hosted(s), Stands(s, "press"), s.eng.transient = <<>>, s.eng.taps = <<>>
  PROVE  Done(s, t)
<1> DEFINE p == "finish"
<1>0. s \in StateType /\ p \in Phases /\ t = PhaseIs(s, p) /\ p = "finish"
  BY DEF Board, Phases, PhaseIs
<1> HIDE DEF p
<1>1. /\ Steady(s, t) /\ t.eng.phase = "finish"
      /\ t.eng.prog = s.eng.prog /\ t.eng.taps = s.eng.taps
  <2>1. PhasedAt(s, t, p)
    BY <1>0, PhasePut
  <2> QED
    BY <1>0, <2>1 DEF PhasedAt
<1>2. Board(t) /\ Hosted(t) /\ Leases(t) = Leases(s)
  BY <1>1, SteadyKeeps
<1>3. Fits(s, t)
  BY <1>1, <1>2 DEF Fits, Steady, SameHost
<1>4. Stands(t, "press")
  BY <1>1, StandsOn
<1>5. Stands(t, "finish")
  BY <1>1, <1>4 DEF Stands
<1>6. At(t) = "finish" /\ Goes(t) = "finish" /\ t.eng.transient = <<>>
  BY <1>1 DEF At, Goes, Steady
<1>7. Placed(t)
  BY <1>1, <1>5, <1>6 DEF Placed
<1> QED
  BY <1>2, <1>3, <1>7 DEF Done

(* The key of the tap that has d taps after it.                             *)
KeyAt(s, d) ==
  IF s.eng.mode = MacOS THEN Digit
  ELSE IF Under(s)
       THEN IF d = 1 THEN Commit ELSE IF d = 2 THEN Digit ELSE IF d = 3 THEN Trigger ELSE Caps
       ELSE IF d = 0 THEN Commit ELSE IF d = 1 THEN Digit ELSE Trigger

LEMMA TapAt ==
  ASSUME NEW s, NEW d
  PROVE  /\ KeyAt(s, d) \in Special
         /\ FromEnd(s, d).keys = <<KeyAt(s, d)>> /\ FromEnd(s, d).keys[1] = KeyAt(s, d)
         /\ FromEnd(s, d).mods = (IF s.eng.mode = MacOS THEN {Alt} ELSE {})
BY DEF KeyAt, FromEnd, Tap, Special

LEMMA ToggledPut ==
  ASSUME NEW w, Board(w), NEW t, t = [w EXCEPT !.eng.toggled = ~@]
  PROVE  /\ Board(t) /\ Leases(t) = Leases(w) /\ SameHost(w, t) /\ t.capsWas = w.capsWas
         /\ t.eng.phase = w.eng.phase /\ t.eng.resume = w.eng.resume /\ t.eng.after = w.eng.after
         /\ t.eng.prog = w.eng.prog /\ t.eng.taps = w.eng.taps
         /\ t.eng.mode = w.eng.mode /\ t.eng.entry = w.eng.entry /\ t.eng.mods = w.eng.mods
         /\ t.eng.escaped = w.eng.escaped /\ t.eng.neutral = w.eng.neutral /\ t.eng.alt = w.eng.alt
         /\ t.eng.holds = w.eng.holds /\ t.eng.transient = w.eng.transient
         /\ t.eng.toggled <=> ~w.eng.toggled
<1>0. w \in StateType /\ w.eng.toggled \in BOOLEAN
  BY Typed DEF Board
<1>1. PICK b \in BOOLEAN : b <=> ~w.eng.toggled
  OBVIOUS
<1> DEFINE e == [w.eng EXCEPT !.toggled = b]
<1>2. t = [w EXCEPT !.eng = e]
  <2>1. (~w.eng.toggled) = b
    BY <1>0, <1>1
  <2>2. t = [w EXCEPT !.eng.toggled = b]
    BY <1>0, <2>1 DEF StateType, EngType
  <2> QED
    BY <1>0, <2>2 DEF StateType
<1>3. /\ e \in EngType /\ e.phase = w.eng.phase /\ e.transient = w.eng.transient
      /\ e.resume = w.eng.resume /\ e.after = w.eng.after
      /\ e.prog = w.eng.prog /\ e.second = w.eng.second /\ e.taps = w.eng.taps
      /\ e.protected = w.eng.protected /\ e.mode = w.eng.mode /\ e.entry = w.eng.entry
      /\ e.mods = w.eng.mods /\ e.escaped = w.eng.escaped /\ e.neutral = w.eng.neutral
      /\ e.toggled = b /\ e.alt = w.eng.alt /\ e.holds = w.eng.holds
  BY <1>0 DEF StateType, EngType
<1> HIDE DEF e
<1>4. t \in StateType /\ t.eng = e /\ SameBoard(w, t) /\ SameHost(w, t)
  BY <1>0, <1>2, <1>3, EngPut
<1>5. Leases(t) = Leases(w) /\ Owned(t) = Owned(w)
  BY <1>3, <1>4 DEF Leases, Owned, SameBoard
<1>6. Shown(t)
  BY <1>3, <1>4, <1>5 DEF Board, Shown, SameHost
<1>7. Ledger(t)
  BY <1>3, <1>4 DEF Board, Ledger, Live, SameBoard
<1>8. Board(t)
  BY <1>3, <1>4, <1>6, <1>7 DEF Board
<1> QED
  BY <1>1, <1>3, <1>4, <1>5, <1>8 DEF SameBoard

(* One tap fewer is left, and what it does to the entry and to Caps Lock.    *)
Fewer(s, t, k) ==
  /\ t.eng.taps = Tail(s.eng.taps) /\ t.eng.mode = s.eng.mode /\ t.capsWas = s.capsWas
  /\ t.eng.toggled <=> (IF k = Caps THEN ~s.eng.toggled ELSE s.eng.toggled)
  /\ s.eng.mode # MacOS /\ t.open => k = Trigger \/ (s.open /\ k \notin {Commit, Esc})

LEMMA KeyIs ==
  ASSUME NEW s, NEW l \in 0 .. 4, NEW k, k = KeyAt(s, l)
  PROVE  /\ s.eng.mode = MacOS => k = Digit
         /\ s.eng.mode # MacOS /\ Under(s) =>
               /\ (l = 0 => k = Caps) /\ (l = 1 => k = Commit) /\ (l = 2 => k = Digit)
               /\ (l = 3 => k = Trigger) /\ (l = 4 => k = Caps)
         /\ s.eng.mode # MacOS /\ ~Under(s) =>
               /\ (l = 0 => k = Commit) /\ (l = 1 => k = Digit) /\ (l >= 2 => k = Trigger)
BY DEF KeyAt

LEMMA OneFewer ==
  ASSUME NEW s \in StateType, NEW n \in 1 .. 5, Left(s, n),
         NEW t \in StateType, NEW k, k = KeyAt(s, n - 1), Fewer(s, t, k)
  PROVE  Progress(t)
<1> DEFINE l == n - 1
<1>0. l \in 0 .. 5 /\ l \in 0 .. 4 /\ n = l + 1
  OBVIOUS
<1>1. s.eng.taps \in Seq(TapType) /\ s.eng.taps # <<>>
  <2>1. s.eng.taps \in Seq(TapType)
    BY Typed
  <2>2. n = Len(s.eng.taps)
    BY Zenon DEF Left
  <2>3. n # 0
    BY <1>0
  <2> QED
    BY <2>1, <2>2, <2>3, InSeq
<1> HIDE DEF l
<1>2. Len(t.eng.taps) = l /\ \A i \in 1 .. l : t.eng.taps[i] = s.eng.taps[i + 1]
  <2>1. Len(Tail(s.eng.taps)) = Len(s.eng.taps) - 1 /\ \A i \in 1 .. Len(Tail(s.eng.taps)) : Tail(s.eng.taps)[i] = s.eng.taps[i + 1]
    BY <1>1, HeadTailProperties
  <2> QED
    BY <1>0, <2>1 DEF Left, Fewer
<1>3. (Under(s) <=> Under(t)) /\ \A d : FromEnd(t, d) = FromEnd(s, d)
  BY DEF Under, FromEnd, Fewer
<1>4. ASSUME NEW i \in 1 .. l PROVE t.eng.taps[i] = FromEnd(t, l - i)
  <2>1. i + 1 \in 1 .. n /\ n - (i + 1) = l - i
    BY <1>0
  <2>2. s.eng.taps[i + 1] = FromEnd(s, n - (i + 1))
    BY <2>1 DEF Left
  <2> QED
    BY <1>2, <1>3, <2>1, <2>2
<1>5. t.eng.mode # MacOS /\ ~Under(t) => l <= 3
  BY <1>0, <1>3 DEF Left, Fewer
<1>6. /\ s.eng.mode = MacOS => k = Digit
      /\ s.eng.mode # MacOS /\ Under(s) =>
            /\ (l = 0 => k = Caps) /\ (l = 1 => k = Commit) /\ (l = 2 => k = Digit)
            /\ (l = 3 => k = Trigger) /\ (l = 4 => k = Caps)
      /\ s.eng.mode # MacOS /\ ~Under(s) =>
            /\ (l = 0 => k = Commit) /\ (l = 1 => k = Digit) /\ (l >= 2 => k = Trigger)
  <2>1. k = KeyAt(s, l)
    BY DEF l
  <2> QED
    BY <1>0, <2>1, KeyIs
<1>7. /\ Caps # Trigger /\ Caps # Digit /\ Caps # Commit /\ Trigger # Digit /\ Trigger # Commit
      /\ Digit # Commit
  BY KeysAre
<1>8. Under(s) => s.eng.mode # MacOS
  BY DEF Under, Linux, MacOS
<1>9. t.eng.mode # MacOS /\ t.open => IF Under(t) THEN l \in {2, 3} ELSE l \in {1, 2}
  <2>1. ASSUME t.eng.mode # MacOS, t.open, Under(s) PROVE l \in {2, 3}
    <3>1. k = Trigger \/ (l + 1 \in {2, 3} /\ k # Commit)
      BY <1>0, <2>1 DEF Fewer, Left
    <3>2. l \in {0, 1, 2, 3, 4}
      BY <1>0
    <3> QED
      BY <1>6, <1>7, <1>8, <2>1, <3>1, <3>2
  <2>2. ASSUME t.eng.mode # MacOS, t.open, ~Under(s) PROVE l \in {1, 2}
    <3>1. k = Trigger \/ (l + 1 \in {1, 2} /\ k # Commit)
      BY <1>0, <2>2 DEF Fewer, Left
    <3>2. l \in {0, 1, 2} /\ s.eng.mode # MacOS
      BY <1>0, <2>2 DEF Left, Fewer
    <3> QED
      BY <1>6, <1>7, <2>2, <3>1, <3>2
  <2> QED
    BY <1>3, <2>1, <2>2
<1>10. t.eng.toggled <=> Under(t) /\ l \in 1 .. 4
  <2>0. t.eng.toggled <=> (IF k = Caps THEN ~s.eng.toggled ELSE s.eng.toggled)
    BY DEF Fewer
  <2>3. s.eng.toggled <=> Under(s) /\ l + 1 \in 1 .. 4
    BY <1>0 DEF Left
  <2>1. CASE Under(s)
    <3>1. l \in {0, 1, 2, 3, 4}
      BY <1>0
    <3>2. k = Caps <=> l \in {0, 4}
      BY <1>6, <1>7, <1>8, <2>1, <3>1
    <3> QED
      BY <1>3, <2>0, <2>1, <2>3, <3>1, <3>2
  <2>2. CASE ~Under(s)
    <3>1. k # Caps
      BY <1>0, <1>6, <1>7, <2>2
    <3> QED
      BY <1>3, <2>0, <2>2, <2>3, <3>1
  <2> QED
    BY <2>1, <2>2
<1>11. Left(t, l)
  BY <1>2, <1>4, <1>5, <1>9, <1>10 DEF Left
<1> QED
  BY <1>0, <1>11 DEF Progress

(* The same but for Caps Lock known to be turned, when k is its key.          *)
Turns(w, t, k) ==
  /\ Board(t) /\ Leases(t) = Leases(w) /\ SameHost(w, t) /\ t.capsWas = w.capsWas
  /\ t.eng.phase = w.eng.phase /\ t.eng.resume = w.eng.resume /\ t.eng.after = w.eng.after
  /\ t.eng.prog = w.eng.prog /\ t.eng.taps = w.eng.taps
  /\ t.eng.mode = w.eng.mode /\ t.eng.entry = w.eng.entry /\ t.eng.mods = w.eng.mods
  /\ t.eng.escaped = w.eng.escaped /\ t.eng.neutral = w.eng.neutral /\ t.eng.alt = w.eng.alt
  /\ t.eng.holds = w.eng.holds /\ t.eng.transient = w.eng.transient
  /\ t.eng.toggled <=> (IF k = Caps THEN ~w.eng.toggled ELSE w.eng.toggled)

LEMMA Turned ==
  ASSUME NEW w, Board(w), NEW k, NEW t, t = IF k = Caps THEN [w EXCEPT !.eng.toggled = ~@] ELSE w
  PROVE  Turns(w, t, k)
<1>1. CASE k = Caps
  <2>1. t = [w EXCEPT !.eng.toggled = ~@]
    BY <1>1
  <2>2. /\ Board(t) /\ Leases(t) = Leases(w) /\ SameHost(w, t) /\ t.capsWas = w.capsWas
        /\ t.eng.phase = w.eng.phase /\ t.eng.resume = w.eng.resume /\ t.eng.after = w.eng.after
        /\ t.eng.prog = w.eng.prog /\ t.eng.taps = w.eng.taps
        /\ t.eng.mode = w.eng.mode /\ t.eng.entry = w.eng.entry /\ t.eng.mods = w.eng.mods
        /\ t.eng.escaped = w.eng.escaped /\ t.eng.neutral = w.eng.neutral /\ t.eng.alt = w.eng.alt
        /\ t.eng.holds = w.eng.holds /\ t.eng.transient = w.eng.transient
        /\ t.eng.toggled <=> ~w.eng.toggled
    BY <2>1, ToggledPut
  <2> QED
    BY <1>1, <2>2 DEF Turns
<1>2. CASE k # Caps
  <2>1. t = w
    BY <1>2
  <2> QED
    BY <1>2, <2>1 DEF SameHost, Turns
<1> QED
  BY <1>1, <1>2

(* A tap's engine: one tap fewer to send, and its modifiers.                 *)
NextTap(s, mods) == [s EXCEPT !.eng.taps = Tail(@), !.eng.mods = mods]
TapEng(s, u, e, mods) ==
  /\ u = [s EXCEPT !.eng = e]
  /\ e \in EngType /\ SameHold(s.eng, e) /\ e.taps = Tail(s.eng.taps)
  /\ e.mods = mods /\ e.prog = s.eng.prog /\ e.mode = s.eng.mode /\ e.entry = s.eng.entry
  /\ e.escaped = s.eng.escaped /\ e.neutral = s.eng.neutral /\ e.toggled = s.eng.toggled

LEMMA TapPut ==
  ASSUME NEW s \in StateType, s.eng.taps # <<>>, NEW mods \in SUBSET Mods,
         NEW u, u = NextTap(s, mods)
  PROVE  \E e : TapEng(s, u, e, mods)
<1> DEFINE e == [s.eng EXCEPT !.taps = Tail(@), !.mods = mods]
<1>1. s.eng \in EngType /\ s.eng.taps \in Seq(TapType)
  BY Typed
<1>2. Tail(s.eng.taps) \in Seq(TapType)
  BY <1>1, HeadTailProperties
<1>3. e \in EngType
  BY <1>1, <1>2 DEF EngType
<1>4. u = [s EXCEPT !.eng = e]
  BY DEF StateType, NextTap
<1>5. /\ SameHold(s.eng, e) /\ e.taps = Tail(s.eng.taps)
      /\ e.mods = mods /\ e.prog = s.eng.prog /\ e.mode = s.eng.mode /\ e.entry = s.eng.entry
      /\ e.escaped = s.eng.escaped /\ e.neutral = s.eng.neutral /\ e.toggled = s.eng.toggled
  BY <1>1 DEF EngType, SameHold
<1>6. TapEng(s, u, e, mods)
  BY <1>3, <1>4, <1>5 DEF TapEng
<1> QED
  BY <1>6

(* The next tap of the entry is sent.                                        *)
LEMMA PressesOne ==
  ASSUME NEW s, NEW t, t = UnicodePress(s), Board(s), Hosted(s), Stands(s, "press"),
         s.eng.transient = <<>>, s.eng.taps # <<>>, ~s.refused
  PROVE  Done(s, t)
<1>0. s \in StateType /\ s.eng.entry /\ ~s.eng.neutral /\ ~s.eng.escaped
  BY DEF Board, Stands
<1>1. PICK n \in 1 .. 5 : Left(s, n) /\ s.eng.taps[1] = FromEnd(s, n - 1)
  <2>1. PICK n \in 0 .. 5 : Left(s, n)
    BY DEF Stands, Progress
  <2>2. n = Len(s.eng.taps)
    BY <2>1, Zenon DEF Left
  <2>3. s.eng.taps \in Seq(TapType)
    BY <1>0, Typed
  <2>4. n # 0
    BY <2>2, <2>3, InSeq
  <2>5. 1 \in 1 .. n /\ n \in 1 .. 5
    BY <2>4
  <2>6. s.eng.taps[1] = FromEnd(s, n - 1)
    BY <2>1, <2>5, Zenon DEF Left
  <2> QED
    BY <2>1, <2>5, <2>6
<1> DEFINE k == KeyAt(s, n - 1)
           tap == Head(s.eng.taps)
           u == [s EXCEPT !.eng.taps = Tail(@), !.eng.mods = tap.mods]
           m == Send(u)
           w == StartTransient(m, <<k>>, "press")
<1>2. k \in Special /\ tap.keys = <<k>> /\ tap.keys[1] = k /\ tap.mods \in SUBSET Mods
  <2>1. tap = FromEnd(s, n - 1)
    BY <1>1
  <2>2. /\ KeyAt(s, n - 1) \in Special
        /\ FromEnd(s, n - 1).keys = <<KeyAt(s, n - 1)>> /\ FromEnd(s, n - 1).keys[1] = KeyAt(s, n - 1)
        /\ FromEnd(s, n - 1).mods = (IF s.eng.mode = MacOS THEN {Alt} ELSE {})
    BY TapAt
  <2>3. {Alt} \subseteq Mods
    BY KeysAre
  <2> HIDE DEF tap
  <2> QED
    BY <2>1, <2>2, <2>3
<1>3. t = IF k = Caps /\ w.eng.phase # "cleanup" THEN [w EXCEPT !.eng.toggled = ~@] ELSE w
  <2> DEFINE v == StartTransient(m, tap.keys, "press")
  <2>1. t = IF tap.keys[1] = Caps /\ v.eng.phase # "cleanup" THEN [v EXCEPT !.eng.toggled = ~@] ELSE v
    BY DEF UnicodePress
  <2>2. v = w
    <3> HIDE DEF m, tap, k
    <3> QED
      BY <1>2
  <2> HIDE DEF tap, v, w, k
  <2> QED
    BY <1>2, <2>1, <2>2
<1>4. PICK e : TapEng(s, u, e, tap.mods)
  <2>1. u = NextTap(s, tap.mods)
    BY DEF NextTap
  <2> HIDE DEF u, k, tap, m, w
  <2> QED
    BY <1>0, <1>2, <2>1, TapPut
<1>5. m = Send(u) /\ w = StartTransient(m, <<k>>, "press") /\ k = KeyAt(s, n - 1)
  OBVIOUS
<1> HIDE DEF k, tap, u, m, w
<1>6. ToSet(s.eng.holds) \subseteq Mods /\ e \in EngType /\ SameHold(s.eng, e)
      /\ u = [s EXCEPT !.eng = e]
  BY <1>0, <1>4 DEF Hosted, TapEng
<1>7. /\ Board(m) /\ m.eng = e /\ m.capsWas = s.capsWas /\ HostSaw(s, m) /\ Pressed(s, m) = {}
      /\ Leases(m) = Leases(s) /\ Tapped(m, w, k, "press")
  BY <1>2, <1>5, <1>6, TapSent
<1>8. /\ Board(w) /\ AsideTap(m.eng, w.eng) /\ w.capsWas = m.capsWas
      /\ w.eng.phase = "waiting" /\ w.eng.resume = "release" /\ w.eng.after = "press"
      /\ HostSaw(m, w) /\ Pressed(m, w) = {k} /\ Leases(w) = Leases(m) \cup {k}
  BY <1>7 DEF Tapped
<1>9. t = IF k = Caps THEN [w EXCEPT !.eng.toggled = ~@] ELSE w
  BY <1>3, <1>8
<1>10. /\ Board(t) /\ Leases(t) = Leases(w) /\ SameHost(w, t) /\ t.capsWas = w.capsWas
       /\ t.eng.phase = w.eng.phase /\ t.eng.resume = w.eng.resume /\ t.eng.after = w.eng.after
       /\ t.eng.prog = w.eng.prog /\ t.eng.taps = w.eng.taps
       /\ t.eng.mode = w.eng.mode /\ t.eng.entry = w.eng.entry /\ t.eng.mods = w.eng.mods
       /\ t.eng.escaped = w.eng.escaped /\ t.eng.neutral = w.eng.neutral /\ t.eng.alt = w.eng.alt
       /\ t.eng.holds = w.eng.holds /\ t.eng.transient = w.eng.transient
       /\ t.eng.toggled <=> (IF k = Caps THEN ~w.eng.toggled ELSE w.eng.toggled)
  <2>1. Turns(w, t, k)
    BY <1>8, <1>9, Turned
  <2> QED
    BY <2>1 DEF Turns
<1>11. /\ t.eng.phase = "waiting" /\ t.eng.resume = "release" /\ t.eng.after = "press"
       /\ t.eng.prog = s.eng.prog /\ t.eng.taps = Tail(s.eng.taps) /\ t.eng.mode = s.eng.mode
       /\ t.eng.entry /\ ~t.eng.escaped /\ ~t.eng.neutral
       /\ t.eng.holds = s.eng.holds /\ t.capsWas = s.capsWas
       /\ t.eng.toggled <=> (IF k = Caps THEN ~s.eng.toggled ELSE s.eng.toggled)
  BY <1>0, <1>4, <1>7, <1>8, <1>10 DEF AsideTap, SameHold, TapEng
<1>12. /\ t.caps <=> (IF Caps = k THEN ~s.caps ELSE s.caps)
       /\ s.eng.mode # MacOS /\ t.open => k = Trigger \/ (s.open /\ k \notin {Commit, Esc})
       /\ t.garbled => s.open /\ k = Digit /\ s.eng.mode = Linux /\ s.caps
  <2>1. /\ m.caps <=> s.caps
        /\ s.eng.mode # MacOS /\ m.open => s.open
        /\ ~m.garbled
    BY <1>4, <1>7 DEF HostSaw, Hosted, TapEng
  <2>2. /\ w.caps <=> (IF Caps = k THEN ~m.caps ELSE m.caps)
        /\ s.eng.mode # MacOS /\ w.open => k = Trigger \/ (m.open /\ k \notin {Commit, Esc})
        /\ w.garbled => m.open /\ k = Digit /\ s.eng.mode = Linux /\ m.caps
    <3>1. w.eng.mode = s.eng.mode
      BY <1>4, <1>7, <1>8 DEF AsideTap, TapEng
    <3> QED
      BY <1>8, <2>1, <3>1 DEF HostSaw
  <2>3. t.caps = w.caps /\ t.open = w.open /\ t.garbled = w.garbled
    BY <1>10 DEF SameHost
  <2>4. Linux # MacOS
    BY DEF Linux, MacOS
  <2> QED
    BY <2>1, <2>2, <2>3, <2>4
<1>13. Progress(t)
  <2>1. Fewer(s, t, k)
    BY <1>11, <1>12 DEF Fewer
  <2>2. t \in StateType
    BY <1>10 DEF Board
  <2> QED
    BY <1>0, <1>1, <1>5, <2>1, <2>2, OneFewer
<1>14. ~t.garbled
  <2> SUFFICES ASSUME t.garbled PROVE FALSE
    OBVIOUS
  <2>1. s.open /\ s.eng.mode = Linux /\ s.caps /\ s.eng.mode # MacOS
    BY <1>12 DEF Linux, MacOS
  <2>2. s.eng.toggled <=> Under(s) /\ n \in 1 .. 4
    BY <1>1, Zenon DEF Left
  <2>3. Under(s) => n \in {2, 3}
    BY <1>1, <2>1, Zenon DEF Left
  <2>4. Under(s) <=> s.capsWas
    BY <2>1 DEF Under
  <2>5. s.eng.toggled <=> s.capsWas
    BY <2>2, <2>3, <2>4
  <2> QED
    BY <2>1, <2>5 DEF Hosted
<1>15. Hosted(t)
  BY <1>6, <1>11, <1>12, <1>14 DEF Hosted
<1>16. Placed(t)
  <2>1. At(t) = "release" /\ Goes(t) = "press"
    BY <1>11 DEF At, Goes
  <2>2. Stands(t, "press")
    BY <1>11, <1>13 DEF Stands
  <2> QED
    BY <1>11, <2>1, <2>2 DEF Placed
<1>17. Fits(s, t)
  <2>1. Fits(s, s)
    BY DEF Fits
  <2>2. Fits(s, w)
    BY <1>7, <2>1, FitsOn
  <2> QED
    BY <1>10, <2>2 DEF Fits, SameHost
<1> QED
  BY <1>10, <1>15, <1>16, <1>17 DEF Done

------------------------------------------------------------------------------
(* The entry unwound, and the reports that end one.                          *)

(* What a tap of the unwinding has the host make of it.                      *)
LEMMA TapRead ==
  ASSUME NEW s, NEW m, NEW t, NEW k, Board(s), Hosted(s), HostSaw(s, m), Pressed(s, m) = {},
         HostSaw(m, t), Pressed(m, t) = {k}, k # Digit,
         m.eng.mode = s.eng.mode, t.eng.mode = s.eng.mode
  PROVE  /\ t.caps <=> (IF k = Caps THEN ~s.caps ELSE s.caps)
         /\ ~t.garbled
         /\ s.eng.mode # MacOS /\ t.open => k = Trigger \/ (s.open /\ k \notin {Commit, Esc})
<1>1. /\ m.caps <=> s.caps
      /\ s.eng.mode # MacOS /\ m.open => s.open
      /\ ~m.garbled
  BY DEF HostSaw, Hosted
<1>2. /\ t.caps <=> (IF Caps = k THEN ~m.caps ELSE m.caps)
      /\ s.eng.mode # MacOS /\ t.open => k = Trigger \/ (m.open /\ k \notin {Commit, Esc})
      /\ ~t.garbled
  BY <1>1 DEF HostSaw
<1> QED
  BY <1>1, <1>2

(* Two engines alike but for the modifiers of the entry and its flags.       *)
AsideFlags(e, f) ==
  /\ SameHold(e, f) /\ f.phase = e.phase /\ f.resume = e.resume /\ f.after = e.after
  /\ f.prog = e.prog /\ f.second = e.second /\ f.taps = e.taps /\ f.mode = e.mode

EscapedIs(s) == [s EXCEPT !.eng.escaped = TRUE, !.eng.mods = {}]
UntoggledIs(s) == [s EXCEPT !.eng.toggled = FALSE, !.eng.mods = {}]

EscapedEng(s, u, e) ==
  /\ e \in EngType /\ u = [s EXCEPT !.eng = e] /\ AsideFlags(s.eng, e) /\ e.mods = {} /\ e.escaped
  /\ e.entry = s.eng.entry /\ e.neutral = s.eng.neutral /\ e.toggled = s.eng.toggled
UntoggledEng(s, u, e) ==
  /\ e \in EngType /\ u = [s EXCEPT !.eng = e] /\ AsideFlags(s.eng, e) /\ e.mods = {} /\ ~e.toggled
  /\ e.entry = s.eng.entry /\ e.neutral = s.eng.neutral /\ e.escaped = s.eng.escaped

LEMMA EscapedPut ==
  ASSUME NEW s \in StateType, NEW u, u = EscapedIs(s)
  PROVE  \E e : EscapedEng(s, u, e)
<1> DEFINE e == [s.eng EXCEPT !.escaped = TRUE, !.mods = {}]
<1>1. s.eng \in EngType
  BY Typed
<1>2. e \in EngType /\ u = [s EXCEPT !.eng = e]
  BY <1>1 DEF EngType, StateType, EscapedIs
<1>3. /\ AsideFlags(s.eng, e) /\ e.mods = {} /\ e.escaped
      /\ e.entry = s.eng.entry /\ e.neutral = s.eng.neutral /\ e.toggled = s.eng.toggled
  BY <1>1 DEF EngType, AsideFlags, SameHold
<1> HIDE DEF e
<1>4. EscapedEng(s, u, e)
  BY <1>2, <1>3 DEF EscapedEng
<1> QED
  BY <1>4

LEMMA UntoggledPut ==
  ASSUME NEW s \in StateType, NEW u, u = UntoggledIs(s)
  PROVE  \E e : UntoggledEng(s, u, e)
<1> DEFINE e == [s.eng EXCEPT !.toggled = FALSE, !.mods = {}]
<1>1. s.eng \in EngType
  BY Typed
<1>2. e \in EngType /\ u = [s EXCEPT !.eng = e]
  BY <1>1 DEF EngType, StateType, UntoggledIs
<1>3. /\ AsideFlags(s.eng, e) /\ e.mods = {} /\ ~e.toggled
      /\ e.entry = s.eng.entry /\ e.neutral = s.eng.neutral /\ e.escaped = s.eng.escaped
  BY <1>1 DEF EngType, AsideFlags, SameHold
<1> HIDE DEF e
<1>4. UntoggledEng(s, u, e)
  BY <1>2, <1>3 DEF UntoggledEng
<1> QED
  BY <1>4

LEMMA WaitsForCleanup ==
  ASSUME NEW t, t.eng.phase = "waiting", t.eng.resume = "release", t.eng.after = "cleanup"
  PROVE  Placed(t)
<1>1. At(t) = "release" /\ Goes(t) = "cleanup"
  BY DEF At, Goes
<1>2. Stands(t, "cleanup")
  BY DEF Stands
<1> QED
  BY <1>1, <1>2 DEF Placed

(* Escape is sent.                                                           *)
LEMMA SendsEscape ==
  ASSUME NEW s, Board(s), Hosted(s), s.eng.entry, s.eng.transient = <<>>, ~s.refused,
         s.eng.mode # MacOS,
         NEW t, t = StartTransient(Send(EscapedIs(s)), <<Esc>>, "cleanup")
  PROVE  Done(s, t)
<1> DEFINE u == EscapedIs(s)
           m == Send(u)
<1>0. s \in StateType /\ Esc \in Special /\ ToSet(s.eng.holds) \subseteq Mods
  BY DEF Board, Special, Hosted
<1>1. PICK e \in EngType : /\ u = [s EXCEPT !.eng = e] /\ AsideFlags(s.eng, e) /\ e.mods = {} /\ e.escaped
                            /\ e.entry = s.eng.entry /\ e.neutral = s.eng.neutral
                            /\ e.toggled = s.eng.toggled
  <2>1. u = EscapedIs(s)
    OBVIOUS
  <2> HIDE DEF u, m
  <2>2. PICK e : EscapedEng(s, u, e)
    BY <1>0, <2>1, EscapedPut
  <2> QED
    BY <2>2 DEF EscapedEng
<1>2. m = Send(u) /\ t = StartTransient(m, <<Esc>>, "cleanup") /\ SameHold(s.eng, e)
  BY <1>1 DEF AsideFlags
<1> HIDE DEF u, m
<1>3. /\ Board(m) /\ m.eng = e /\ m.capsWas = s.capsWas /\ HostSaw(s, m) /\ Pressed(s, m) = {}
      /\ Leases(m) = Leases(s) /\ Tapped(m, t, Esc, "cleanup")
  BY <1>0, <1>1, <1>2, TapSent
<1>4. /\ Board(t) /\ AsideTap(m.eng, t.eng) /\ t.capsWas = m.capsWas
      /\ t.eng.phase = "waiting" /\ t.eng.resume = "release" /\ t.eng.after = "cleanup"
      /\ HostSaw(m, t) /\ Pressed(m, t) = {Esc}
  BY <1>3 DEF Tapped
<1>5. /\ t.eng.mode = s.eng.mode /\ t.eng.entry = s.eng.entry /\ t.eng.neutral = s.eng.neutral
      /\ t.eng.toggled = s.eng.toggled /\ t.eng.alt = s.eng.alt /\ t.eng.holds = s.eng.holds
      /\ t.capsWas = s.capsWas /\ m.eng.mode = s.eng.mode
  BY <1>1, <1>3, <1>4, ZenonT(40) DEF AsideFlags, SameHold, AsideTap
<1>6. (t.caps <=> s.caps) /\ ~t.garbled /\ ~t.open
  <2>1. Esc # Caps /\ Esc # Digit /\ Esc # Trigger
    BY KeysAre
  <2>2. /\ t.caps <=> (IF Esc = Caps THEN ~s.caps ELSE s.caps)
        /\ ~t.garbled
        /\ s.eng.mode # MacOS /\ t.open => Esc = Trigger \/ (s.open /\ Esc \notin {Commit, Esc})
    BY <1>3, <1>4, <1>5, <2>1, TapRead
  <2> QED
    BY <2>1, <2>2
<1>7. Hosted(t)
  BY <1>5, <1>6 DEF Hosted
<1>8. Fits(s, s)
  BY DEF Fits
<1>9. Fits(s, t)
  BY <1>3, <1>8, FitsOn
<1>10. Placed(t)
  BY <1>4, WaitsForCleanup
<1> QED
  BY <1>4, <1>7, <1>9, <1>10 DEF Done

(* Caps Lock is turned back.                                                 *)
LEMMA TurnsCapsBack ==
  ASSUME NEW s, Board(s), Hosted(s), s.eng.entry, s.eng.transient = <<>>, ~s.refused,
         s.eng.toggled, s.eng.escaped \/ s.eng.mode = MacOS,
         NEW t, t = StartTransient(Send(UntoggledIs(s)), <<Caps>>, "cleanup")
  PROVE  Done(s, t)
<1> DEFINE u == UntoggledIs(s)
           m == Send(u)
<1>0. s \in StateType /\ Caps \in Special /\ ToSet(s.eng.holds) \subseteq Mods
  BY DEF Board, Special, Hosted
<1>1. PICK e \in EngType : /\ u = [s EXCEPT !.eng = e] /\ AsideFlags(s.eng, e) /\ e.mods = {}
                            /\ ~e.toggled /\ e.entry = s.eng.entry /\ e.neutral = s.eng.neutral
                            /\ e.escaped = s.eng.escaped
  <2>1. u = UntoggledIs(s)
    OBVIOUS
  <2> HIDE DEF u, m
  <2>2. PICK e : UntoggledEng(s, u, e)
    BY <1>0, <2>1, UntoggledPut
  <2> QED
    BY <2>2 DEF UntoggledEng
<1>2. m = Send(u) /\ t = StartTransient(m, <<Caps>>, "cleanup") /\ SameHold(s.eng, e)
  BY <1>1 DEF AsideFlags
<1> HIDE DEF u, m
<1>3. /\ Board(m) /\ m.eng = e /\ m.capsWas = s.capsWas /\ HostSaw(s, m) /\ Pressed(s, m) = {}
      /\ Leases(m) = Leases(s) /\ Tapped(m, t, Caps, "cleanup")
  BY <1>0, <1>1, <1>2, TapSent
<1>4. /\ Board(t) /\ AsideTap(m.eng, t.eng) /\ t.capsWas = m.capsWas
      /\ t.eng.phase = "waiting" /\ t.eng.resume = "release" /\ t.eng.after = "cleanup"
      /\ HostSaw(m, t) /\ Pressed(m, t) = {Caps}
  BY <1>3 DEF Tapped
<1>5. /\ t.eng.mode = s.eng.mode /\ t.eng.entry = s.eng.entry /\ t.eng.neutral = s.eng.neutral
      /\ ~t.eng.toggled /\ t.eng.alt = s.eng.alt /\ t.eng.holds = s.eng.holds
      /\ t.capsWas = s.capsWas /\ m.eng.mode = s.eng.mode
  BY <1>1, <1>3, <1>4, ZenonT(40) DEF AsideFlags, SameHold, AsideTap
<1>6. (t.caps <=> ~s.caps) /\ ~t.garbled /\ (s.eng.mode # MacOS => ~t.open)
  <2>1. Caps # Digit /\ Caps # Trigger
    BY KeysAre
  <2>2. /\ t.caps <=> (IF Caps = Caps THEN ~s.caps ELSE s.caps)
        /\ ~t.garbled
        /\ s.eng.mode # MacOS /\ t.open => Caps = Trigger \/ (s.open /\ Caps \notin {Commit, Esc})
    BY <1>3, <1>4, <1>5, <2>1, TapRead
  <2>3. s.eng.mode # MacOS => ~s.open
    BY DEF Hosted
  <2> QED
    BY <2>1, <2>2, <2>3
<1>7. Hosted(t)
  <2>1. ~t.eng.neutral
    BY <1>5 DEF Hosted
  <2> QED
    BY <1>5, <1>6, <2>1 DEF Hosted
<1>8. Fits(s, s)
  BY DEF Fits
<1>9. Fits(s, t)
  BY <1>3, <1>8, FitsOn
<1>10. Placed(t)
  BY <1>4, WaitsForCleanup
<1> QED
  BY <1>4, <1>7, <1>9, <1>10 DEF Done

(* The owners of an engine are accounted for when only Option was dropped.    *)
OptionDropped(s, v) == IF s.eng.alt THEN Drop(v, Alt) ELSE v
NeutralIs(s) ==
  LET t == [s EXCEPT !.eng.mods = {}, !.eng.neutral = TRUE]
  IN IF t.eng.alt THEN Drop([t EXCEPT !.eng.alt = FALSE], Alt) ELSE t

NeutralFits(s, v, t) ==
  /\ Board(t) /\ t.eng = v.eng /\ t.live = s.live /\ t.refused = s.refused
  /\ t.capsWas = s.capsWas /\ HostSaw(s, t) /\ Pressed(s, t) = {} /\ Leases(t) = Leases(s)

LEMMA NeutralMoves ==
  ASSUME NEW s, Board(s), NEW v \in StateType, SameBoard(s, v), SameHost(s, v),
         v.eng.protected = s.eng.protected, v.eng.holds = s.eng.holds,
         v.eng.transient = s.eng.transient, ~v.eng.alt,
         NEW u, u = OptionDropped(s, v), NEW t, t = Send(u)
  PROVE  NeutralFits(s, v, t)
<1>0. Alt \in Mods /\ Alt \in Keys
  BY KeysAre
<1>1. /\ u \in StateType /\ u.eng = v.eng /\ SameHost(s, u)
      /\ u.live = s.live /\ u.refused = s.refused /\ u.capsWas = s.capsWas
      /\ \A m \in Keys \ {Alt} : u.ledger[m] = s.ledger[m]
      /\ u.ledger[Alt] = s.ledger[Alt] - One(s.eng.alt)
  <2>1. CASE s.eng.alt
    <3>1. u = Drop(v, Alt)
      BY <2>1 DEF OptionDropped
    <3>2. /\ u \in StateType /\ u.eng = v.eng /\ SameHost(v, u)
          /\ u.live = v.live /\ u.refused = v.refused /\ u.capsWas = v.capsWas
          /\ u.ledger[Alt] = v.ledger[Alt] - 1
          /\ \A m \in Keys \ {Alt} : u.ledger[m] = v.ledger[m]
      BY <1>0, <3>1, Drops
    <3> QED
      BY <2>1, <3>2 DEF SameBoard, SameHost, One
  <2>2. CASE ~s.eng.alt
    <3>1. u = v
      BY <2>2 DEF OptionDropped
    <3>2. s.ledger[Alt] \in Int
      BY <1>0, Typed DEF Board
    <3> QED
      BY <2>2, <3>1, <3>2 DEF SameBoard, SameHost, One
  <2> QED
    BY <2>1, <2>2
<1>2. s.ledger \in [Keys -> Int] /\ s.live \in [LiveKeys -> Int] /\ s.eng.transient \in Seq(Keys)
  BY Typed DEF Board
<1>3. Ledger(u)
  <2> SUFFICES ASSUME NEW k \in Keys
               PROVE  u.ledger[k] = Live(u, k) + One(k \in ToSet(u.eng.holds)) + Count(u.eng.transient, k)
                                      + One(u.eng.alt /\ k = Alt)
    BY DEF Ledger
  <2>1. s.ledger[k] = Live(s, k) + One(k \in ToSet(s.eng.holds)) + Count(s.eng.transient, k)
                        + One(s.eng.alt /\ k = Alt)
    BY DEF Board, Ledger
  <2>2. Live(u, k) = Live(s, k) /\ Live(s, k) \in Int
    BY <1>1, <1>2 DEF Live
  <2>3. /\ One(k \in ToSet(u.eng.holds)) = One(k \in ToSet(s.eng.holds))
        /\ One(k \in ToSet(s.eng.holds)) \in Int
    BY <1>1 DEF One
  <2>4. Count(u.eng.transient, k) = Count(s.eng.transient, k) /\ Count(s.eng.transient, k) \in Int
    BY <1>1, <1>2, CountIn
  <2>5. One(u.eng.alt /\ k = Alt) = 0
    BY <1>1 DEF One
  <2>6. u.ledger[k] = s.ledger[k] - One(s.eng.alt /\ k = Alt)
    <3>1. CASE k = Alt
      BY <1>1, <3>1 DEF One
    <3>2. CASE k # Alt
      BY <1>1, <1>2, <3>2 DEF One
    <3> QED
      BY <3>1, <3>2
  <2>7. One(s.eng.alt /\ k = Alt) \in Int
    BY DEF One
  <2> HIDE DEF One
  <2> QED
    BY <2>1, <2>2, <2>3, <2>4, <2>5, <2>6, <2>7
<1>4. Owned(u) \subseteq Owned(s) \cup Mods
  BY <1>0, <1>1 DEF Owned
<1>5. Leases(u) = Leases(s) /\ Once(u.eng.holds) /\ u.eng.protected = s.eng.protected
  BY <1>1 DEF Leases, Board
<1> DEFINE none == {}
<1>6. Leases(u) \subseteq Leases(s) \cup none /\ Owned(u) \subseteq Owned(s) \cup none \cup Mods
  BY <1>4, <1>5
<1>7. none = {}
  OBVIOUS
<1> HIDE DEF none
<1>8. /\ Board(t) /\ t.eng = u.eng /\ SameBoard(u, t)
      /\ HostSaw(s, t) /\ Pressed(s, t) \subseteq none /\ Leases(t) = Leases(u)
  BY <1>1, <1>3, <1>5, <1>6, BoardMoves
<1> QED
  BY <1>1, <1>5, <1>7, <1>8 DEF SameBoard, NeutralFits

NeutralEng(s, e) ==
  /\ e \in EngType /\ e.mods = {} /\ e.neutral /\ ~e.alt
  /\ e.phase = s.eng.phase /\ e.resume = s.eng.resume /\ e.after = s.eng.after
  /\ e.prog = s.eng.prog /\ e.taps = s.eng.taps /\ e.mode = s.eng.mode
  /\ e.protected = s.eng.protected /\ e.entry = s.eng.entry /\ e.escaped = s.eng.escaped
  /\ e.toggled = s.eng.toggled /\ e.holds = s.eng.holds /\ e.transient = s.eng.transient

NeutralFrom(s, u, e, v) == NeutralEng(s, e) /\ v = [s EXCEPT !.eng = e] /\ u = OptionDropped(s, v)

LEMMA NeutralPut ==
  ASSUME NEW s \in StateType, NEW u, u = NeutralIs(s)
  PROVE  \E e, v : NeutralFrom(s, u, e, v)
<1> DEFINE e == [s.eng EXCEPT !.mods = {}, !.neutral = TRUE, !.alt = FALSE]
           v == [s EXCEPT !.eng = e]
           t == [s EXCEPT !.eng.mods = {}, !.eng.neutral = TRUE]
<1>1. s.eng \in EngType /\ s.eng.alt \in BOOLEAN
  BY Typed
<1>2. NeutralEng(s, e)
  BY <1>1 DEF EngType, NeutralEng
<1>3. t.eng.alt = s.eng.alt
  BY <1>1 DEF EngType, StateType
<1>4. [t EXCEPT !.eng.alt = FALSE] = v
  BY <1>1 DEF EngType, StateType
<1>5. ~s.eng.alt => t = v
  <2> SUFFICES ASSUME ~s.eng.alt PROVE t = v
    OBVIOUS
  <2>1. s.eng.alt = FALSE
    BY <1>1
  <2> DEFINE f == [s.eng EXCEPT !.mods = {}, !.neutral = TRUE]
  <2>2. f = e
    BY <1>1, <2>1 DEF EngType
  <2>3. t = [s EXCEPT !.eng = f]
    BY DEF StateType
  <2> HIDE DEF e, f
  <2> QED
    BY <2>2, <2>3
<1>6. u = IF t.eng.alt THEN Drop([t EXCEPT !.eng.alt = FALSE], Alt) ELSE t
  BY DEF NeutralIs
<1> HIDE DEF t
<1>7. u = OptionDropped(s, v)
  BY <1>3, <1>4, <1>5, <1>6 DEF OptionDropped
<1>8. NeutralFrom(s, u, e, v)
  BY <1>2, <1>7 DEF NeutralFrom
<1> QED
  BY <1>8

(* A neutral report: no modifier of the entry's, no Option, nothing open.     *)
NeutralNow(s, t) ==
  /\ Board(t) /\ Hosted(t) /\ Fits(s, t) /\ t.eng.entry /\ t.eng.neutral
  /\ t.eng.phase = s.eng.phase /\ t.eng.prog = s.eng.prog /\ t.eng.taps = s.eng.taps
  /\ t.eng.holds = s.eng.holds /\ t.eng.transient = s.eng.transient

LEMMA NeutralSent ==
  ASSUME NEW s, Board(s), Hosted(s), s.eng.entry, ~s.eng.toggled, s.eng.mode # MacOS => ~s.open,
         NEW t, t = Neutral(s)
  PROVE  NeutralNow(s, t)
<1> DEFINE u == NeutralIs(s)
<1>0. s \in StateType
  BY DEF Board
<1>1. t = Send(u) /\ u = NeutralIs(s)
  BY DEF Neutral, NeutralIs
<1> HIDE DEF u
<1>10. PICK e, v : NeutralFrom(s, u, e, v)
  BY <1>0, <1>1, NeutralPut
<1>2. NeutralEng(s, e) /\ v = [s EXCEPT !.eng = e] /\ u = OptionDropped(s, v)
  BY <1>10 DEF NeutralFrom
<1>3. v \in StateType /\ v.eng = e /\ SameBoard(s, v) /\ SameHost(s, v)
  BY <1>0, <1>2, EngPut DEF NeutralEng
<1>4. /\ v.eng.protected = s.eng.protected /\ v.eng.holds = s.eng.holds
      /\ v.eng.transient = s.eng.transient /\ ~v.eng.alt
  BY <1>2, <1>3 DEF NeutralEng
<1>5. /\ Board(t) /\ t.eng = v.eng /\ t.live = s.live /\ t.refused = s.refused
      /\ t.capsWas = s.capsWas /\ HostSaw(s, t) /\ Pressed(s, t) = {} /\ Leases(t) = Leases(s)
  <2>1. NeutralFits(s, v, t)
    BY <1>1, <1>2, <1>3, <1>4, NeutralMoves
  <2> QED
    BY <2>1 DEF NeutralFits
<1>6. /\ t.eng.entry /\ t.eng.neutral /\ t.eng.mods = {} /\ ~t.eng.alt /\ ~t.eng.toggled
      /\ t.eng.mode = s.eng.mode /\ t.eng.phase = s.eng.phase /\ t.eng.prog = s.eng.prog
      /\ t.eng.taps = s.eng.taps /\ t.eng.holds = s.eng.holds /\ t.eng.transient = s.eng.transient
  BY <1>2, <1>3, <1>5 DEF NeutralEng
<1>7. (t.caps <=> s.caps) /\ ~t.garbled /\ ~t.open
  BY <1>5, <1>6 DEF HostSaw, Hosted
<1>8. Hosted(t)
  BY <1>5, <1>6, <1>7 DEF Hosted
<1>9. Fits(s, t)
  BY <1>5 DEF Fits, HostSaw, Pressed
<1> QED
  BY <1>5, <1>6, <1>8, <1>9 DEF NeutralNow

(* The live modifiers return.                                                *)
RestoredNow(s, t) ==
  /\ Board(t) /\ Hosted(t) /\ Fits(s, t) /\ ~t.eng.entry
  /\ t.eng.phase = s.eng.phase /\ t.eng.prog = s.eng.prog
  /\ t.eng.holds = s.eng.holds /\ t.eng.transient = s.eng.transient

LEMMA RestoredSent ==
  ASSUME NEW s, Board(s), Hosted(s), s.eng.entry, s.eng.neutral, NEW t, t = Restored(s)
  PROVE  RestoredNow(s, t)
<1> DEFINE e == [s.eng EXCEPT !.entry = FALSE]
           u == [s EXCEPT !.eng = e]
<1>0. s \in StateType /\ s.eng \in EngType
  BY Typed DEF Board
<1>1. t = Send(u)
  BY <1>0 DEF Restored, StateType
<1>2. /\ e \in EngType /\ SameHold(s.eng, e) /\ ~e.entry /\ e.mods = s.eng.mods
      /\ e.mode = s.eng.mode /\ e.phase = s.eng.phase /\ e.prog = s.eng.prog
      /\ e.toggled = s.eng.toggled
  BY <1>0 DEF EngType, SameHold
<1>3. u = [s EXCEPT !.eng = e]
  OBVIOUS
<1> HIDE DEF e, u
<1>4. /\ Board(t) /\ t.eng = e /\ SameBoard(s, t)
      /\ HostSaw(s, t) /\ Pressed(s, t) = {} /\ Leases(t) = Leases(s)
  BY <1>1, <1>2, <1>3, Shows
<1>5. /\ ~t.eng.entry /\ ~t.eng.toggled /\ ~t.eng.alt /\ t.eng.mode = s.eng.mode
      /\ t.eng.holds = s.eng.holds /\ t.eng.transient = s.eng.transient /\ t.capsWas = s.capsWas
      /\ t.eng.phase = s.eng.phase /\ t.eng.prog = s.eng.prog /\ ~s.eng.toggled
  BY <1>2, <1>4 DEF SameHold, Hosted, SameBoard
<1>6. (t.caps <=> s.caps) /\ ~t.garbled /\ ~t.open
  BY <1>4, <1>5 DEF HostSaw, Hosted
<1>7. Hosted(t)
  BY <1>5, <1>6 DEF Hosted
<1>8. Fits(s, t)
  BY <1>4 DEF Fits, HostSaw, Pressed
<1> QED
  BY <1>4, <1>5, <1>7, <1>8 DEF RestoredNow

LEMMA Unwinds ==
  ASSUME NEW s, Board(s), Hosted(s), s.eng.entry, s.eng.transient = <<>>, ~s.refused,
         s.eng.phase = "cleanup", NEW t, t = Unwind(s)
  PROVE  Done(s, t)
<1>1. CASE ~s.eng.escaped /\ s.eng.mode # MacOS
  <2>1. t = StartTransient(Send(EscapedIs(s)), <<Esc>>, "cleanup")
    BY <1>1, Zenon DEF Unwind, EscapedIs, UntoggledIs
  <2> QED
    BY <1>1, <2>1, SendsEscape
<1>2. CASE (s.eng.escaped \/ s.eng.mode = MacOS) /\ s.eng.toggled
  <2>1. t = StartTransient(Send(UntoggledIs(s)), <<Caps>>, "cleanup")
    BY <1>2, Zenon DEF Unwind, EscapedIs, UntoggledIs
  <2> QED
    BY <1>2, <2>1, TurnsCapsBack
<1>3. CASE (s.eng.escaped \/ s.eng.mode = MacOS) /\ ~s.eng.toggled
  <2>1. t = IF s.eng.neutral THEN Restored(s) ELSE Wait(Neutral(s), "cleanup")
    BY <1>3, Zenon DEF Unwind, EscapedIs, UntoggledIs
  <2>2. CASE s.eng.neutral
    <3>1. RestoredNow(s, t)
      BY <2>1, <2>2, RestoredSent
    <3>2. Placed(t)
      BY <3>1, PlacedCleanup DEF RestoredNow
    <3> QED
      BY <3>1, <3>2 DEF RestoredNow, Done
  <2>3. CASE ~s.eng.neutral
    <3> DEFINE v == Neutral(s)
               r == "cleanup"
    <3>1. v = Neutral(s) /\ t = Wait(v, r)
      BY <2>1, <2>3
    <3>2. s.eng.mode # MacOS => ~s.open
      BY <1>3 DEF Hosted
    <3> HIDE DEF v
    <3>3. NeutralNow(s, v)
      BY <1>3, <3>1, <3>2, NeutralSent
    <3>4. Stands(v, IF r = "release" THEN v.eng.after ELSE r)
      BY DEF Stands
    <3>5. r \in Phases \ {"idle", "waiting"} /\ r \in {"release", "cleanup"}
      BY DEF Phases
    <3> HIDE DEF r
    <3> QED
      BY <3>1, <3>3, <3>4, <3>5, GoesOn DEF NeutralNow
  <2> QED
    BY <2>2, <2>3
<1> QED
  BY <1>1, <1>2, <1>3

(* The entry is neutral before the live modifiers return.                     *)
LEMMA EndsEntry ==
  ASSUME NEW s, Board(s), Hosted(s), Placed(s), s.eng.phase = "finish",
         NEW t, t = Wait(Neutral(s), "restore")
  PROVE  Done(s, t)
<1>1. Stands(s, "finish") /\ s.eng.transient = <<>>
  BY DEF Placed, At, Goes
<1>2. ~s.eng.toggled /\ (s.eng.mode # MacOS => ~s.open)
  <2>1. PICK n \in 0 .. 5 : Left(s, n)
    BY <1>1 DEF Stands, Progress
  <2>2. n = Len(s.eng.taps) /\ Len(s.eng.taps) = 0
    <3>1. n = Len(s.eng.taps)
      BY <2>1, Zenon DEF Left
    <3>2. s.eng.taps = <<>>
      BY <1>1 DEF Stands
    <3> QED
      BY <3>1, <3>2
  <2>3. /\ s.eng.mode # MacOS /\ s.open => IF Under(s) THEN n \in {2, 3} ELSE n \in {1, 2}
        /\ s.eng.toggled <=> Under(s) /\ n \in 1 .. 4
    BY <2>1, Zenon DEF Left
  <2> QED
    BY <2>2, <2>3
<1> DEFINE v == Neutral(s)
           r == "restore"
<1>3. v = Neutral(s) /\ t = Wait(v, r) /\ s.eng.entry
  BY <1>1 DEF Stands
<1> HIDE DEF v
<1>4. NeutralNow(s, v)
  BY <1>2, <1>3, NeutralSent
<1>5. Stands(v, IF r = "release" THEN v.eng.after ELSE r) /\ v.eng.transient = <<>>
  BY <1>1, <1>4 DEF Stands, NeutralNow
<1>6. r \in Phases \ {"idle", "waiting"}
  BY DEF Phases
<1> HIDE DEF r
<1> QED
  BY <1>3, <1>4, <1>5, <1>6, GoesOn DEF NeutralNow

LEMMA Restores ==
  ASSUME NEW s, Board(s), Hosted(s), Placed(s), s.eng.phase = "restore",
         NEW t, t = Wait(Restored(s), "ready")
  PROVE  Done(s, t)
<1>1. Stands(s, "restore") /\ s.eng.transient = <<>>
  BY DEF Placed, At, Goes
<1> DEFINE v == Restored(s)
           r == "ready"
<1>3. v = Restored(s) /\ t = Wait(v, r) /\ s.eng.entry /\ s.eng.neutral
  BY <1>1 DEF Stands
<1> HIDE DEF v
<1>4. RestoredNow(s, v)
  BY <1>3, RestoredSent
<1>5. Stands(v, IF r = "release" THEN v.eng.after ELSE r) /\ v.eng.transient = <<>>
  BY <1>1, <1>4 DEF Stands, RestoredNow
<1>6. r \in Phases \ {"idle", "waiting"}
  BY DEF Phases
<1> HIDE DEF r
<1> QED
  BY <1>3, <1>4, <1>5, <1>6, GoesOn DEF RestoredNow

------------------------------------------------------------------------------
(* An entry begins.                                                          *)

LEMMA Joined ==
  ASSUME NEW S, NEW x \in Seq(S), NEW y \in Seq(S), NEW z \in Seq(S), Len(z) = Len(x) + Len(y),
         \A i \in 1 .. Len(x) : z[i] = x[i], \A i \in 1 .. Len(y) : z[Len(x) + i] = y[i]
  PROVE  x \o y = z
<1> DEFINE r == x \o y
<1>1. /\ r \in Seq(S) /\ Len(r) = Len(x) + Len(y)
      /\ \A i \in 1 .. Len(x) + Len(y) : r[i] = IF i <= Len(x) THEN x[i] ELSE y[i - Len(x)]
  BY ConcatProperties
<1>2. Len(x) \in Nat /\ Len(y) \in Nat
  BY InSeq
<1> HIDE DEF r
<1>3. ASSUME NEW i \in 1 .. Len(z) PROVE r[i] = z[i]
  <2>1. CASE i <= Len(x)
    BY <1>1, <1>2, <2>1
  <2>2. CASE i > Len(x)
    <3>1. i - Len(x) \in 1 .. Len(y) /\ Len(x) + (i - Len(x)) = i
      BY <1>2, <2>2
    <3>2. z[Len(x) + (i - Len(x))] = y[i - Len(x)]
      BY <3>1
    <3> QED
      BY <1>1, <1>2, <2>2, <3>1, <3>2
  <2> QED
    BY <1>2, <2>1, <2>2
<1> QED
  BY <1>1, <1>3, SeqEqual DEF r

LEMMA EntryTaps ==
  ASSUME NEW mode, NEW b \in BOOLEAN, NEW q, q = UnicodeTaps(mode, b)
  PROVE  /\ q \in Seq(TapType)
         /\ mode = MacOS => q = <<Tap(<<Digit>>, {Alt})>>
         /\ mode # MacOS /\ b => q = <<Tap(<<Caps>>, {}), Tap(<<Trigger>>, {}), Tap(<<Digit>>, {}),
                                       Tap(<<Commit>>, {}), Tap(<<Caps>>, {})>>
         /\ mode # MacOS /\ ~b => q = <<Tap(<<Trigger>>, {}), Tap(<<Digit>>, {}), Tap(<<Commit>>, {})>>
<1> DEFINE C == Tap(<<Caps>>, {})
           T == Tap(<<Trigger>>, {})
           D == Tap(<<Digit>>, {})
           E == Tap(<<Commit>>, {})
           A == Tap(<<Digit>>, {Alt})
<1>1. /\ C \in TapType /\ T \in TapType /\ D \in TapType /\ E \in TapType /\ A \in TapType
  <2>1. Caps \in Keys /\ Trigger \in Keys /\ Digit \in Keys /\ Commit \in Keys /\ Alt \in Mods
    BY KeysAre
  <2> QED
    BY <2>1 DEF Tap, TapType
<1>2. mode = MacOS => q = <<A>>
  BY DEF UnicodeTaps
<1>3. mode # MacOS /\ b => q = <<C>> \o <<T, D, E>> \o <<C>>
  BY DEF UnicodeTaps
<1>4. mode # MacOS /\ ~b => q = <<>> \o <<T, D, E>> \o <<>>
  BY DEF UnicodeTaps
<1> HIDE DEF C, T, D, E, A
<1>5. <<C>> \o <<T, D, E>> \o <<C>> = <<C, T, D, E, C>>
  <2> DEFINE x == <<C>>
             y == <<T, D, E>>
             z == <<C, T, D, E>>
             w == <<C, T, D, E, C>>
  <2>1. x \o y = z
    <3>1. x \in Seq(TapType) /\ y \in Seq(TapType) /\ z \in Seq(TapType)
      BY <1>1
    <3>2. Len(x) = 1 /\ Len(y) = 3 /\ Len(z) = 4
      OBVIOUS
    <3>3. x[1] = z[1] /\ y[1] = z[2] /\ y[2] = z[3] /\ y[3] = z[4]
      OBVIOUS
    <3> HIDE DEF x, y, z, w
    <3>4. Len(z) = Len(x) + Len(y) /\ (\A i \in 1 .. Len(x) : z[i] = x[i])
          /\ \A i \in 1 .. Len(y) : z[Len(x) + i] = y[i]
      BY <3>2, <3>3
    <3> QED
      BY <3>1, <3>4, Joined
  <2>2. z \o x = w
    <3>1. x \in Seq(TapType) /\ z \in Seq(TapType) /\ w \in Seq(TapType)
      BY <1>1
    <3>2. Len(x) = 1 /\ Len(z) = 4 /\ Len(w) = 5
      OBVIOUS
    <3>3. z[1] = w[1] /\ z[2] = w[2] /\ z[3] = w[3] /\ z[4] = w[4] /\ x[1] = w[5]
      OBVIOUS
    <3> HIDE DEF x, y, z, w
    <3>4. Len(w) = Len(z) + Len(x) /\ (\A i \in 1 .. Len(z) : w[i] = z[i])
          /\ \A i \in 1 .. Len(x) : w[Len(z) + i] = x[i]
      BY <3>2, <3>3
    <3> QED
      BY <3>1, <3>4, Joined
  <2>3. x \o y \o x = w
    <3> HIDE DEF x, y, z, w
    <3> QED
      BY <2>1, <2>2
  <2> QED
    BY <2>3
<1>6. <<>> \o <<T, D, E>> \o <<>> = <<T, D, E>>
  <2>1. <<T, D, E>> \in Seq(TapType)
    BY <1>1
  <2>2. \A r \in Seq(TapType) : <<>> \o r = r /\ r \o <<>> = r
    BY ConcatEmptySeq
  <2> DEFINE r == <<T, D, E>>
  <2> HIDE DEF r
  <2>3. <<>> \o r = r /\ r \o <<>> = r
    BY <2>1, <2>2 DEF r
  <2>4. <<>> \o r \o <<>> = r
    BY <2>3
  <2> QED
    BY <2>4 DEF r
<1>7. <<A>> \in Seq(TapType) /\ <<T, D, E>> \in Seq(TapType) /\ <<C, T, D, E, C>> \in Seq(TapType)
  BY <1>1
<1> QED
  BY <1>2, <1>3, <1>4, <1>5, <1>6, <1>7 DEF C, T, D, E, A

EntryIs(s) ==
  [s EXCEPT !.eng.taps = UnicodeTaps(s.eng.mode, s.eng.mode = Linux /\ s.caps),
            !.eng.escaped = FALSE, !.eng.neutral = FALSE, !.eng.entry = TRUE, !.eng.mods = {}]
EntryEng(s, u, e) ==
  /\ e \in EngType /\ u = [s EXCEPT !.eng = e] /\ SameHold(s.eng, e)
  /\ e.phase = s.eng.phase /\ e.prog = s.eng.prog /\ e.mode = s.eng.mode /\ e.toggled = s.eng.toggled
  /\ e.entry /\ ~e.escaped /\ ~e.neutral /\ e.mods = {}
  /\ \E b \in BOOLEAN : (b <=> s.eng.mode = Linux /\ s.caps) /\ e.taps = UnicodeTaps(s.eng.mode, b)

LEMMA EntryPut ==
  ASSUME NEW s \in StateType, NEW u, u = EntryIs(s)
  PROVE  \E e : EntryEng(s, u, e)
<1>1. s.eng \in EngType /\ s.caps \in BOOLEAN
  BY Typed
<1>2. PICK b \in BOOLEAN : b <=> s.eng.mode = Linux /\ s.caps
  OBVIOUS
<1>3. (s.eng.mode = Linux /\ s.caps) = b
  BY <1>1, <1>2
<1> DEFINE q == UnicodeTaps(s.eng.mode, b)
<1>4. u = [s EXCEPT !.eng.taps = q, !.eng.escaped = FALSE, !.eng.neutral = FALSE,
                    !.eng.entry = TRUE, !.eng.mods = {}]
  BY <1>3 DEF EntryIs
<1>5. q \in Seq(TapType)
  BY EntryTaps
<1>6. q = UnicodeTaps(s.eng.mode, b)
  OBVIOUS
<1> HIDE DEF q
<1> DEFINE e == [s.eng EXCEPT !.taps = q, !.escaped = FALSE, !.neutral = FALSE, !.entry = TRUE, !.mods = {}]
<1>7. e \in EngType /\ u = [s EXCEPT !.eng = e]
  BY <1>1, <1>4, <1>5, ZenonT(40) DEF EngType, StateType
<1>8. /\ SameHold(s.eng, e)
      /\ e.phase = s.eng.phase /\ e.prog = s.eng.prog /\ e.mode = s.eng.mode /\ e.toggled = s.eng.toggled
      /\ e.entry /\ ~e.escaped /\ ~e.neutral /\ e.mods = {} /\ e.taps = q
  BY <1>1 DEF EngType, SameHold
<1> HIDE DEF e
<1>9. EntryEng(s, u, e)
  BY <1>2, <1>6, <1>7, <1>8 DEF EntryEng
<1> QED
  BY <1>9

(* Every tap of the entry is still to be sent.                                *)
AllLeft(t) ==
  /\ t.eng.mode = MacOS => t.eng.taps = <<Tap(<<Digit>>, {Alt})>>
  /\ t.eng.mode # MacOS /\ Under(t) =>
        t.eng.taps = <<Tap(<<Caps>>, {}), Tap(<<Trigger>>, {}), Tap(<<Digit>>, {}),
                       Tap(<<Commit>>, {}), Tap(<<Caps>>, {})>>
  /\ t.eng.mode # MacOS /\ ~Under(t) =>
        t.eng.taps = <<Tap(<<Trigger>>, {}), Tap(<<Digit>>, {}), Tap(<<Commit>>, {})>>
  /\ ~t.eng.toggled /\ (t.eng.mode # MacOS => ~t.open)

LEMMA AllLeftFirst ==
  ASSUME NEW t, AllLeft(t) PROVE Progress(t)
<1>1. ASSUME t.eng.mode = MacOS PROVE Left(t, 1)
  <2>1. ~Under(t)
    BY <1>1 DEF Under, MacOS, Linux
  <2>2. Len(t.eng.taps) = 1 /\ t.eng.taps[1] = Tap(<<Digit>>, {Alt})
    BY <1>1 DEF AllLeft
  <2>3. FromEnd(t, 0) = Tap(<<Digit>>, {Alt})
    BY <1>1 DEF FromEnd
  <2>4. \A i \in 1 .. 1 : t.eng.taps[i] = FromEnd(t, 1 - i)
    BY <2>2, <2>3
  <2> QED
    BY <1>1, <2>1, <2>2, <2>4 DEF Left, AllLeft
<1>2. ASSUME t.eng.mode # MacOS, Under(t) PROVE Left(t, 5)
  <2>1. /\ Len(t.eng.taps) = 5 /\ t.eng.taps[1] = Tap(<<Caps>>, {}) /\ t.eng.taps[2] = Tap(<<Trigger>>, {})
        /\ t.eng.taps[3] = Tap(<<Digit>>, {}) /\ t.eng.taps[4] = Tap(<<Commit>>, {})
        /\ t.eng.taps[5] = Tap(<<Caps>>, {})
    BY <1>2 DEF AllLeft
  <2>2. /\ FromEnd(t, 4) = Tap(<<Caps>>, {}) /\ FromEnd(t, 3) = Tap(<<Trigger>>, {})
        /\ FromEnd(t, 2) = Tap(<<Digit>>, {}) /\ FromEnd(t, 1) = Tap(<<Commit>>, {})
        /\ FromEnd(t, 0) = Tap(<<Caps>>, {})
    BY <1>2 DEF FromEnd
  <2>3. ASSUME NEW i \in 1 .. 5 PROVE t.eng.taps[i] = FromEnd(t, 5 - i)
    <3>1. i \in {1, 2, 3, 4, 5}
      OBVIOUS
    <3> QED
      BY <2>1, <2>2, <3>1
  <2> QED
    BY <1>2, <2>1, <2>3 DEF Left, AllLeft
<1>3. ASSUME t.eng.mode # MacOS, ~Under(t) PROVE Left(t, 3)
  <2>1. /\ Len(t.eng.taps) = 3 /\ t.eng.taps[1] = Tap(<<Trigger>>, {})
        /\ t.eng.taps[2] = Tap(<<Digit>>, {}) /\ t.eng.taps[3] = Tap(<<Commit>>, {})
    BY <1>3 DEF AllLeft
  <2>2. /\ FromEnd(t, 2) = Tap(<<Trigger>>, {})
        /\ FromEnd(t, 1) = Tap(<<Digit>>, {}) /\ FromEnd(t, 0) = Tap(<<Commit>>, {})
    BY <1>3 DEF FromEnd
  <2>3. ASSUME NEW i \in 1 .. 3 PROVE t.eng.taps[i] = FromEnd(t, 3 - i)
    <3>1. i \in {1, 2, 3}
      OBVIOUS
    <3> QED
      BY <2>1, <2>2, <3>1
  <2> QED
    BY <1>3, <2>1, <2>3 DEF Left, AllLeft
<1> QED
  BY <1>1, <1>2, <1>3 DEF Progress

(* An entry that has begun and sent nothing but its modifiers.                *)
Begun(s, m) ==
  /\ Board(m) /\ Hosted(m) /\ AllLeft(m) /\ Leases(m) = Leases(s)
  /\ m.report \subseteq s.report /\ m.edges = s.edges
  /\ m.eng.entry /\ ~m.eng.escaped /\ ~m.eng.neutral /\ ~m.eng.alt
  /\ m.eng.mode = s.eng.mode /\ m.eng.phase = s.eng.phase /\ m.eng.prog = s.eng.prog
  /\ m.eng.holds = s.eng.holds /\ m.eng.transient = s.eng.transient

LEMMA BegunStands ==
  ASSUME NEW s, NEW m, Begun(s, m), Legal(s.eng.prog, ToSet(s.eng.holds))
  PROVE  Stands(m, "press")
BY AllLeftFirst DEF Begun, Stands

LEMMA EntryBegins ==
  ASSUME NEW s, Board(s), Hosted(s), ~s.eng.entry, ToSet(s.eng.holds) \subseteq Mods,
         NEW m, m = Send(EntryIs(s))
  PROVE  Begun(s, m)
<1> DEFINE u == EntryIs(s)
<1>0. s \in StateType
  BY DEF Board
<1>1. u = EntryIs(s) /\ m = Send(u)
  OBVIOUS
<1> HIDE DEF u
<1>2. PICK e : EntryEng(s, u, e)
  BY <1>0, <1>1, EntryPut
<1>3. /\ e \in EngType /\ u = [s EXCEPT !.eng = e] /\ SameHold(s.eng, e)
      /\ e.phase = s.eng.phase /\ e.prog = s.eng.prog /\ e.mode = s.eng.mode /\ e.toggled = s.eng.toggled
      /\ e.entry /\ ~e.escaped /\ ~e.neutral /\ e.mods = {}
  BY <1>2 DEF EntryEng
<1>4. /\ Board(m) /\ m.eng = e /\ SameBoard(s, m)
      /\ HostSaw(s, m) /\ Pressed(s, m) = {} /\ Leases(m) = Leases(s)
  BY <1>1, <1>3, Shows
<1>5. ~s.eng.alt /\ ~s.eng.toggled /\ ~s.open /\ (s.caps <=> s.capsWas)
  <2>1. s.capsWas \in BOOLEAN /\ s.caps \in BOOLEAN
    BY <1>0, Typed
  <2> QED
    BY <2>1 DEF Hosted
<1>6. /\ m.eng.entry /\ ~m.eng.escaped /\ ~m.eng.neutral /\ ~m.eng.alt /\ ~m.eng.toggled
      /\ m.eng.mode = s.eng.mode /\ m.eng.phase = s.eng.phase /\ m.eng.prog = s.eng.prog
      /\ m.eng.holds = s.eng.holds /\ m.eng.transient = s.eng.transient
      /\ m.eng.mods = {} /\ m.capsWas = s.capsWas /\ m.eng.taps = e.taps
  BY <1>3, <1>4, <1>5 DEF SameHold, SameBoard
<1>7. (m.caps <=> s.caps) /\ ~m.garbled /\ (m.eng.mode # MacOS => ~m.open)
      /\ m.report \subseteq s.report /\ m.edges = s.edges
  BY <1>4, <1>5, <1>6 DEF HostSaw, Hosted, Pressed
<1>8. Hosted(m)
  BY <1>5, <1>6, <1>7 DEF Hosted
<1>9. AllLeft(m)
  <2>1. PICK b \in BOOLEAN : (b <=> s.eng.mode = Linux /\ s.caps) /\ e.taps = UnicodeTaps(s.eng.mode, b)
    BY <1>2 DEF EntryEng
  <2>2. b <=> Under(m)
    BY <1>5, <1>6, <2>1 DEF Under
  <2> DEFINE q == e.taps
             mode == s.eng.mode
  <2>3. q = UnicodeTaps(mode, b)
    BY <2>1
  <2> HIDE DEF q, mode
  <2>4. /\ mode = MacOS => q = <<Tap(<<Digit>>, {Alt})>>
        /\ mode # MacOS /\ b => q = <<Tap(<<Caps>>, {}), Tap(<<Trigger>>, {}), Tap(<<Digit>>, {}),
                                      Tap(<<Commit>>, {}), Tap(<<Caps>>, {})>>
        /\ mode # MacOS /\ ~b => q = <<Tap(<<Trigger>>, {}), Tap(<<Digit>>, {}), Tap(<<Commit>>, {})>>
    BY <2>3, EntryTaps
  <2>5. m.eng.taps = q /\ m.eng.mode = mode
    BY <1>6 DEF q, mode
  <2> QED
    BY <1>6, <1>7, <2>2, <2>4, <2>5 DEF AllLeft
<1> QED
  BY <1>4, <1>6, <1>7, <1>8, <1>9 DEF Begun

(* Option goes out with the report that follows, and is kept.                 *)
OptionIs(u) == Take([u EXCEPT !.eng.alt = TRUE], Alt)

OptionShown(m) == [m EXCEPT !.eng.mods = {Alt}]

LEMMA ModsPut ==
  ASSUME NEW s, NEW m, Begun(s, m), m.eng.mode = MacOS, NEW u, u = OptionShown(m)
  PROVE  Begun(s, u)
<1> DEFINE e == [m.eng EXCEPT !.mods = {Alt}]
<1>0. m \in StateType /\ m.eng \in EngType /\ {Alt} \subseteq Mods
  BY Typed, KeysAre DEF Begun, Board
<1>1. e \in EngType /\ u = [m EXCEPT !.eng = e]
  BY <1>0 DEF EngType, StateType, OptionShown
<1>2. /\ SameHold(m.eng, e) /\ e.entry = m.eng.entry /\ e.escaped = m.eng.escaped
      /\ e.neutral = m.eng.neutral /\ e.toggled = m.eng.toggled /\ e.mode = m.eng.mode
      /\ e.phase = m.eng.phase /\ e.prog = m.eng.prog /\ e.taps = m.eng.taps
  BY <1>0 DEF EngType, SameHold
<1> HIDE DEF e
<1>3. u \in StateType /\ u.eng = e /\ SameBoard(m, u) /\ SameHost(m, u)
  BY <1>0, <1>1, EngPut
<1>4. Leases(u) = Leases(m) /\ Owned(u) = Owned(m)
  BY <1>2, <1>3 DEF Leases, Owned, SameBoard, SameHold
<1>5. Board(u)
  <2>1. Board(m)
    BY DEF Begun
  <2>2. Shown(u)
    BY <1>2, <1>3, <1>4, <2>1 DEF Board, Shown, SameHost, SameHold
  <2>3. Ledger(u)
    BY <1>2, <1>3, <2>1 DEF Board, Ledger, Live, SameBoard, SameHold
  <2> QED
    BY <1>2, <1>3, <2>1, <2>2, <2>3 DEF Board, SameHold
<1>6. Hosted(u)
  <2>1. Hosted(m) /\ ~u.eng.neutral /\ ~u.eng.escaped /\ u.eng.entry
    BY <1>2, <1>3 DEF Begun
  <2> QED
    BY <1>2, <1>3, <2>1 DEF Hosted, SameHost, SameBoard, SameHold
<1>7. AllLeft(u)
  <2>1. AllLeft(m)
    BY DEF Begun
  <2>2. u.eng.mode = MacOS /\ u.eng.taps = m.eng.taps /\ (u.eng.toggled <=> m.eng.toggled)
    BY <1>2, <1>3
  <2> QED
    BY <2>1, <2>2 DEF AllLeft
<1> QED
  BY <1>2, <1>3, <1>4, <1>5, <1>6, <1>7 DEF Begun, SameHost, SameHold

AltIs(u) == [u EXCEPT !.eng.alt = TRUE]
AltEng(u, v, e) ==
  /\ e \in EngType /\ v = [u EXCEPT !.eng = e] /\ e.alt
  /\ e.protected = u.eng.protected /\ e.holds = u.eng.holds /\ e.transient = u.eng.transient
  /\ e.entry = u.eng.entry /\ e.escaped = u.eng.escaped /\ e.neutral = u.eng.neutral
  /\ e.toggled = u.eng.toggled /\ e.mode = u.eng.mode /\ e.mods = u.eng.mods
  /\ e.phase = u.eng.phase /\ e.prog = u.eng.prog /\ e.taps = u.eng.taps

LEMMA AltPut ==
  ASSUME NEW u \in StateType, NEW v, v = AltIs(u)
  PROVE  \E e : AltEng(u, v, e)
<1> DEFINE e == [u.eng EXCEPT !.alt = TRUE]
<1>0. u.eng \in EngType
  BY Typed
<1>1. e \in EngType /\ v = [u EXCEPT !.eng = e]
  BY <1>0 DEF EngType, StateType, AltIs
<1>2. /\ e.alt
      /\ e.protected = u.eng.protected /\ e.holds = u.eng.holds /\ e.transient = u.eng.transient
      /\ e.entry = u.eng.entry /\ e.escaped = u.eng.escaped /\ e.neutral = u.eng.neutral
      /\ e.toggled = u.eng.toggled /\ e.mode = u.eng.mode /\ e.mods = u.eng.mods
      /\ e.phase = u.eng.phase /\ e.prog = u.eng.prog /\ e.taps = u.eng.taps
  BY <1>0 DEF EngType
<1> HIDE DEF e
<1>3. AltEng(u, v, e)
  BY <1>1, <1>2 DEF AltEng
<1> QED
  BY <1>3

(* On macOS the entry opens with Option, which the macro then owns.           *)
LEMMA OptionTaken ==
  ASSUME NEW s, NEW u, Begun(s, u), u.eng.mode = MacOS, Legal(s.eng.prog, ToSet(s.eng.holds)),
         NEW c, c = Send(OptionIs(u))
  PROVE  /\ Board(c) /\ Hosted(c) /\ Stands(c, "press") /\ c.eng.transient = s.eng.transient
         /\ c.report \subseteq s.report /\ c.edges = s.edges /\ Leases(c) = Leases(s)
<1> DEFINE v == AltIs(u)
           b == Take(v, Alt)
<1>0. Board(u) /\ u \in StateType /\ Alt \in Mods /\ Alt \in Keys /\ ~u.eng.alt
  BY KeysAre DEF Begun, Board
<1>1. v = AltIs(u) /\ b = Take(v, Alt) /\ c = Send(b)
  BY DEF OptionIs, AltIs
<1> HIDE DEF v, b
<1>2. PICK e : AltEng(u, v, e)
  BY <1>0, <1>1, AltPut
<1>3. /\ v \in StateType /\ v.eng = e /\ SameBoard(u, v) /\ SameHost(u, v)
  BY <1>0, <1>2, EngPut DEF AltEng
<1>4. /\ b \in StateType /\ b.eng = v.eng /\ SameHost(v, b)
      /\ b.live = v.live /\ b.refused = v.refused /\ b.capsWas = v.capsWas
      /\ b.ledger[Alt] = v.ledger[Alt] + 1
      /\ \A m \in Keys \ {Alt} : b.ledger[m] = v.ledger[m]
  BY <1>0, <1>1, <1>3, Takes
<1>5. /\ b.eng.alt /\ b.eng.protected = u.eng.protected /\ b.eng.holds = u.eng.holds
      /\ b.eng.transient = u.eng.transient
      /\ b.eng.entry = u.eng.entry /\ b.eng.escaped = u.eng.escaped /\ b.eng.neutral = u.eng.neutral
      /\ b.eng.toggled = u.eng.toggled /\ b.eng.mode = u.eng.mode /\ b.eng.mods = u.eng.mods
      /\ b.eng.prog = u.eng.prog /\ b.eng.taps = u.eng.taps
      /\ b.capsWas = u.capsWas /\ b.live = u.live /\ SameHost(u, b)
  BY <1>2, <1>3, <1>4 DEF AltEng, SameBoard, SameHost
<1>6. u.ledger \in [Keys -> Int] /\ u.live \in [LiveKeys -> Int] /\ u.eng.transient \in Seq(Keys)
  BY <1>0, Typed
<1>7. Ledger(b)
  <2> SUFFICES ASSUME NEW k \in Keys
               PROVE  b.ledger[k] = Live(b, k) + One(k \in ToSet(b.eng.holds)) + Count(b.eng.transient, k)
                                      + One(b.eng.alt /\ k = Alt)
    BY DEF Ledger
  <2>1. u.ledger[k] = Live(u, k) + One(k \in ToSet(u.eng.holds)) + Count(u.eng.transient, k)
                        + One(u.eng.alt /\ k = Alt)
    BY <1>0 DEF Board, Ledger
  <2>2. Live(b, k) = Live(u, k) /\ Live(u, k) \in Int
    BY <1>5, <1>6 DEF Live
  <2>3. /\ One(k \in ToSet(b.eng.holds)) = One(k \in ToSet(u.eng.holds))
        /\ One(k \in ToSet(u.eng.holds)) \in Int
    BY <1>5 DEF One
  <2>4. Count(b.eng.transient, k) = Count(u.eng.transient, k) /\ Count(u.eng.transient, k) \in Int
    BY <1>5, <1>6, CountIn
  <2>5. One(u.eng.alt /\ k = Alt) = 0
    BY <1>0 DEF One
  <2>6. b.ledger[k] = u.ledger[k] + One(b.eng.alt /\ k = Alt)
    <3>1. CASE k = Alt
      BY <1>3, <1>4, <1>5, <3>1 DEF One, SameBoard
    <3>2. CASE k # Alt
      BY <1>3, <1>4, <1>6, <3>2 DEF One, SameBoard
    <3> QED
      BY <3>1, <3>2
  <2>7. One(b.eng.alt /\ k = Alt) \in Int
    BY DEF One
  <2> HIDE DEF One
  <2> QED
    BY <2>1, <2>2, <2>3, <2>4, <2>5, <2>6, <2>7
<1> DEFINE none == {}
<1>8. Leases(b) \subseteq Leases(u) \cup none /\ Owned(b) \subseteq Owned(u) \cup none \cup Mods
      /\ Once(b.eng.holds)
  <2>1. Leases(b) = Leases(u)
    BY <1>5 DEF Leases
  <2>2. Owned(b) \subseteq Owned(u) \cup Mods
    BY <1>0, <1>3, <1>4 DEF Owned, SameBoard
  <2>3. Once(b.eng.holds)
    BY <1>0, <1>5 DEF Board
  <2> QED
    BY <2>1, <2>2, <2>3
<1>9. none = {}
  OBVIOUS
<1> HIDE DEF none
<1>10. /\ Board(c) /\ c.eng = b.eng /\ SameBoard(b, c)
       /\ HostSaw(u, c) /\ Pressed(u, c) \subseteq none /\ Leases(c) = Leases(b)
  BY <1>0, <1>1, <1>4, <1>5, <1>7, <1>8, BoardMoves
<1>11. /\ c.eng.entry = u.eng.entry /\ c.eng.escaped = u.eng.escaped /\ c.eng.neutral = u.eng.neutral
       /\ c.eng.toggled = u.eng.toggled /\ c.eng.mode = u.eng.mode /\ c.eng.taps = u.eng.taps
       /\ c.eng.prog = u.eng.prog /\ c.eng.holds = u.eng.holds /\ c.eng.transient = u.eng.transient
       /\ c.capsWas = u.capsWas
  BY <1>5, <1>10 DEF SameBoard
<1>12. (c.caps <=> u.caps) /\ ~c.garbled /\ c.report \subseteq u.report /\ c.edges = u.edges
  BY <1>9, <1>10 DEF HostSaw, Pressed, Begun, Hosted
<1>13. Hosted(c)
  BY <1>11, <1>12 DEF Hosted, Begun
<1>14. AllLeft(c)
  <2>1. AllLeft(u)
    BY DEF Begun
  <2> QED
    BY <1>11, <2>1 DEF AllLeft
<1>15. Stands(c, "press")
  BY <1>11, <1>14, AllLeftFirst DEF Stands, Begun
<1> QED
  <2>1. Leases(c) = Leases(u)
    BY <1>11 DEF Leases
  <2> QED
    BY <1>10, <1>11, <1>12, <1>13, <1>15, <2>1 DEF Begun

(* A Unicode entry is opened, or refused.                                     *)
LEMMA StartsEntry ==
  ASSUME NEW x, NEW s, Board(s), Hosted(s), ~s.eng.entry, ToSet(s.eng.holds) \subseteq Mods,
         s.eng.phase # "idle", s.eng.transient = <<>>, Fits(x, s),
         Legal(s.eng.prog, ToSet(s.eng.holds)), NEW t, t = StartUnicode(s)
  PROVE  Done(x, t)
<1> DEFINE m == Send(EntryIs(s))
           u == [m EXCEPT !.eng.mods = {Alt}]
           r == "press"
<1>1. /\ s.eng.mode = 0 => t = Fail(s)
      /\ s.eng.mode \notin {0, MacOS} => t = Wait(m, r)
      /\ s.eng.mode = MacOS /\ Refused(u, Alt) => t = Fail(u)
      /\ s.eng.mode = MacOS /\ ~Refused(u, Alt) => t = Wait(Send(OptionIs(u)), r)
  <2>1. MacOS # 0
    BY SMTT(30) DEF MacOS
  <2>2. t = CASE s.eng.mode = 0 -> Fail(s)
              [] s.eng.mode \notin {0, MacOS} -> Wait(m, r)
              [] s.eng.mode = MacOS /\ Refused(u, Alt) -> Fail(u)
              [] OTHER -> Wait(Send(OptionIs(u)), r)
    BY DEF StartUnicode, EntryIs, OptionIs
  <2> HIDE DEF m, u, r
  <2>3. s.eng.mode = 0 => t = Fail(s)
    BY <2>1, <2>2
  <2>4. s.eng.mode \notin {0, MacOS} => t = Wait(m, r)
    BY <2>1, <2>2
  <2>5. s.eng.mode = MacOS /\ Refused(u, Alt) => t = Fail(u)
    BY <2>1, <2>2
  <2>6. s.eng.mode = MacOS /\ ~Refused(u, Alt) => t = Wait(Send(OptionIs(u)), r)
    BY <2>1, <2>2
  <2> QED
    BY <2>3, <2>4, <2>5, <2>6
<1>2. m = Send(EntryIs(s)) /\ u = OptionShown(m)
  BY DEF OptionShown
<1>3. r \in Phases \ {"idle", "waiting"} /\ r \notin {"release", "cleanup"} /\ r = "press"
  BY DEF Phases
<1> HIDE DEF m, u, r
<1>4. Begun(s, m)
  BY <1>2, EntryBegins
<1>5. \A y : y.report \subseteq s.report /\ y.edges = s.edges /\ Leases(s) \subseteq Leases(y) => Fits(x, y)
  BY DEF Fits
<1>6. CASE s.eng.mode = 0
  BY <1>1, <1>6, Fails
<1>7. CASE s.eng.mode \notin {0, MacOS}
  <2>1. Board(m) /\ Hosted(m) /\ Fits(x, m) /\ m.eng.transient = <<>>
    BY <1>4, <1>5 DEF Begun
  <2>2. Stands(m, "press")
    BY <1>4, BegunStands
  <2>3. Stands(m, IF r = "release" THEN m.eng.after ELSE r) /\ t = Wait(m, r)
    BY <1>1, <1>3, <1>7, <2>2
  <2> QED
    BY <1>3, <2>1, <2>3, GoesOn
<1>8. CASE s.eng.mode = MacOS
  <2>1. Begun(s, u)
    <3>1. m.eng.mode = MacOS
      BY <1>4, <1>8 DEF Begun
    <3> QED
      BY <1>2, <1>4, <3>1, ModsPut
  <2>2. CASE Refused(u, Alt)
    <3>1. Board(u) /\ Hosted(u) /\ Fits(x, u) /\ u.eng.phase # "idle"
      BY <1>5, <2>1 DEF Begun
    <3> QED
      BY <1>1, <1>8, <2>2, <3>1, Fails
  <2>3. CASE ~Refused(u, Alt)
    <3> DEFINE c == Send(OptionIs(u))
    <3>1. c = Send(OptionIs(u)) /\ t = Wait(c, r)
      BY <1>1, <1>8, <2>3
    <3> HIDE DEF c
    <3>2. u.eng.mode = MacOS
      BY <1>8, <2>1 DEF Begun
    <3>3. /\ Board(c) /\ Hosted(c) /\ Stands(c, "press") /\ c.eng.transient = s.eng.transient
          /\ c.report \subseteq s.report /\ c.edges = s.edges /\ Leases(c) = Leases(s)
      BY <2>1, <3>1, <3>2, OptionTaken
    <3>4. Fits(x, c)
      BY <1>5, <3>3
    <3>5. Stands(c, IF r = "release" THEN c.eng.after ELSE r)
      BY <1>3, <3>3
    <3> QED
      BY <1>3, <3>1, <3>3, <3>4, <3>5, GoesOn
  <2> QED
    BY <2>2, <2>3
<1> QED
  BY <1>6, <1>7, <1>8

------------------------------------------------------------------------------
(* What the macro holds.                                                     *)

AsideHolds(e, f) ==
  /\ f.phase = e.phase /\ f.resume = e.resume /\ f.after = e.after
  /\ f.prog = e.prog /\ f.second = e.second /\ f.taps = e.taps
  /\ f.protected = e.protected /\ f.mode = e.mode /\ f.entry = e.entry /\ f.mods = e.mods
  /\ f.escaped = e.escaped /\ f.neutral = e.neutral /\ f.toggled = e.toggled /\ f.alt = e.alt
  /\ f.transient = e.transient
HoldsIs(s, q) == [s EXCEPT !.eng.holds = q]

LEMMA HoldsPut ==
  ASSUME NEW s \in StateType, NEW q \in Seq(Plain), NEW v, v = HoldsIs(s, q)
  PROVE  /\ v \in StateType /\ SameBoard(s, v) /\ SameHost(s, v)
         /\ AsideHolds(s.eng, v.eng) /\ v.eng.holds = q
<1> DEFINE e == [s.eng EXCEPT !.holds = q]
<1>1. v = [s EXCEPT !.eng = e]
  BY DEF StateType, HoldsIs
<1>2. e \in EngType /\ AsideHolds(s.eng, e) /\ e.holds = q
  BY Typed, ZenonT(40) DEF EngType, AsideHolds
<1> HIDE DEF e
<1> QED
  BY <1>1, <1>2, EngPut

(* One owner more or one fewer, with its report.                             *)
HoldsMoved(s, t, q) ==
  /\ Board(t) /\ AsideHolds(s.eng, t.eng) /\ t.eng.holds = q
  /\ t.live = s.live /\ t.refused = s.refused /\ t.capsWas = s.capsWas
  /\ HostSaw(s, t) /\ Leases(t) = ToSet(q) \cup ToSet(s.eng.transient)

LEMMA HoldsMove ==
  ASSUME NEW s, Board(s), NEW k \in Plain, NEW q \in Seq(Plain), Once(q), NEW d \in {1, -1},
         d = 1 => k \notin ToSet(s.eng.holds) /\ ToSet(q) = ToSet(s.eng.holds) \cup {k},
         d = -1 => k \in ToSet(s.eng.holds) /\ ToSet(q) = ToSet(s.eng.holds) \ {k},
         NEW b, b = (IF d = 1 THEN Take(HoldsIs(s, q), k) ELSE Drop(HoldsIs(s, q), k)),
         NEW t, t = Send(b)
  PROVE  HoldsMoved(s, t, q) /\ Pressed(s, t) \subseteq (IF d = 1 THEN {k} ELSE {})
<1> DEFINE v == HoldsIs(s, q)
<1>0. s \in StateType /\ k \in Keys /\ v = HoldsIs(s, q)
  BY DEF Board, Plain
<1>1. b = IF d = 1 THEN Take(v, k) ELSE Drop(v, k)
  OBVIOUS
<1> HIDE DEF v
<1>2. /\ v \in StateType /\ SameBoard(s, v) /\ SameHost(s, v)
      /\ AsideHolds(s.eng, v.eng) /\ v.eng.holds = q
  BY <1>0, HoldsPut
<1>3. /\ b \in StateType /\ b.eng = v.eng /\ SameHost(v, b)
      /\ b.live = v.live /\ b.refused = v.refused /\ b.capsWas = v.capsWas
      /\ b.ledger[k] = v.ledger[k] + d
      /\ \A m \in Keys \ {k} : b.ledger[m] = v.ledger[m]
  <2>0. v.ledger[k] \in Int
    BY <1>0, <1>2, Typed
  <2>1. CASE d = 1
    <3>1. b = Take(v, k)
      BY <1>1, <2>1
    <3> QED
      BY <1>0, <1>2, <2>1, <3>1, Takes
  <2>2. CASE d = -1
    <3>1. b = Drop(v, k)
      BY <1>1, <2>2
    <3>2. b.ledger[k] = v.ledger[k] - 1
      BY <1>0, <1>2, <3>1, Drops
    <3>3. b.ledger[k] = v.ledger[k] + d
      BY <2>0, <2>2, <3>2
    <3> QED
      BY <1>0, <1>2, <3>1, <3>3, Drops, SMTT(30)
  <2> QED
    BY <2>1, <2>2
<1>4. s.ledger \in [Keys -> Int] /\ s.live \in [LiveKeys -> Int] /\ s.eng.transient \in Seq(Keys)
  BY <1>0, Typed
<1>5. /\ b.eng.holds = q /\ b.eng.transient = s.eng.transient /\ b.eng.alt = s.eng.alt
      /\ b.eng.protected = s.eng.protected /\ b.live = s.live /\ SameHost(s, b)
  BY <1>2, <1>3 DEF AsideHolds, SameBoard, SameHost
<1>6. Ledger(b)
  <2> SUFFICES ASSUME NEW m \in Keys
               PROVE  b.ledger[m] = Live(b, m) + One(m \in ToSet(b.eng.holds)) + Count(b.eng.transient, m)
                                      + One(b.eng.alt /\ m = Alt)
    BY DEF Ledger
  <2>1. s.ledger[m] = Live(s, m) + One(m \in ToSet(s.eng.holds)) + Count(s.eng.transient, m)
                        + One(s.eng.alt /\ m = Alt)
    BY DEF Board, Ledger
  <2>2. Live(b, m) = Live(s, m) /\ Live(s, m) \in Int
    BY <1>4, <1>5 DEF Live
  <2>4. Count(b.eng.transient, m) = Count(s.eng.transient, m) /\ Count(s.eng.transient, m) \in Int
    BY <1>4, <1>5, CountIn
  <2>5. One(b.eng.alt /\ m = Alt) = One(s.eng.alt /\ m = Alt) /\ One(s.eng.alt /\ m = Alt) \in Int
    BY <1>5 DEF One
  <2>6. CASE m = k
    <3>1. b.ledger[m] = s.ledger[m] + d
      BY <1>2, <1>3, <2>6 DEF SameBoard
    <3>2. One(m \in ToSet(b.eng.holds)) = One(m \in ToSet(s.eng.holds)) + d
      <4>1. CASE d = 1
        BY <1>5, <2>6, <4>1 DEF One
      <4>2. CASE d = -1
        BY <1>5, <2>6, <4>2 DEF One
      <4> QED
        BY <4>1, <4>2
    <3>3. One(m \in ToSet(s.eng.holds)) \in Int
      BY DEF One
    <3> HIDE DEF One
    <3> QED
      BY <2>1, <2>2, <2>4, <2>5, <3>1, <3>2, <3>3
  <2>7. CASE m # k
    <3>1. b.ledger[m] = s.ledger[m]
      BY <1>2, <1>3, <2>7 DEF SameBoard
    <3>2. m \in ToSet(b.eng.holds) <=> m \in ToSet(s.eng.holds)
      BY <1>5, <2>7
    <3>3. One(m \in ToSet(b.eng.holds)) = One(m \in ToSet(s.eng.holds))
      BY <3>2 DEF One
    <3> QED
      BY <2>1, <2>2, <2>4, <2>5, <3>1, <3>3
  <2> QED
    BY <2>6, <2>7
<1> DEFINE new == IF d = 1 THEN {k} ELSE {}
<1>7. Leases(b) \subseteq Leases(s) \cup new
  BY <1>5 DEF Leases
<1>8. Owned(b) \subseteq Owned(s) \cup new \cup Mods
  <2>1. ASSUME NEW m \in Keys, b.ledger[m] > 0, m \notin new PROVE s.ledger[m] > 0
    <3>1. CASE m # k
      BY <1>2, <1>3, <2>1, <3>1 DEF SameBoard
    <3>2. CASE m = k
      <4>1. d = -1
        BY <2>1, <3>2
      <4> QED
        BY <1>0, <1>2, <1>3, <1>4, <2>1, <3>2, <4>1 DEF SameBoard
    <3> QED
      BY <3>1, <3>2
  <2> QED
    BY <2>1 DEF Owned
<1>9. new = IF d = 1 THEN {k} ELSE {}
  OBVIOUS
<1> HIDE DEF new
<1>10. Once(b.eng.holds)
  BY <1>5
<1>11. /\ Board(t) /\ t.eng = b.eng /\ SameBoard(b, t)
       /\ HostSaw(s, t) /\ Pressed(s, t) \subseteq new /\ Leases(t) = Leases(b)
  BY <1>3, <1>5, <1>6, <1>7, <1>8, <1>10, BoardMoves
<1>12. HoldsMoved(s, t, q)
  BY <1>2, <1>3, <1>5, <1>11 DEF HoldsMoved, SameBoard, Leases
<1> QED
  BY <1>9, <1>11, <1>12

(* Outside an entry a report leaves the host outside one.                    *)
LEMMA Outside ==
  ASSUME NEW s, NEW t, Hosted(s), ~s.eng.entry, HostSaw(s, t),
         Caps \notin Pressed(s, t), Trigger \notin Pressed(s, t),
         ~t.eng.entry, t.eng.alt = s.eng.alt, t.eng.toggled = s.eng.toggled, t.capsWas = s.capsWas
  PROVE  Hosted(t)
<1>1. (t.caps <=> s.caps) /\ ~t.garbled /\ ~t.open
  BY DEF HostSaw, Hosted
<1> QED
  BY <1>1 DEF Hosted

(* A step of the macro outside an entry; x is what it began from.            *)
Stepping(x, s) ==
  /\ Board(s) /\ Hosted(s) /\ ~s.eng.entry /\ s.eng.phase = "ready" /\ s.eng.transient = <<>>
  /\ s.report = x.report /\ s.edges = x.edges

LEMMA Plainly ==
  ASSUME NEW k \in Plain PROVE k \in Keys /\ k # Caps /\ k # Trigger
BY DEF Plain

LEMMA HoldsKey ==
  ASSUME NEW x, NEW s, Stepping(x, s), NEW k \in Plain, Legal(s.eng.prog, ToSet(s.eng.holds) \cup {k}),
         NEW t, t = Hold(s, k)
  PROVE  Done(x, t)
<1>0. /\ Board(s) /\ Hosted(s) /\ ~s.eng.entry /\ s.eng.phase = "ready" /\ s.eng.transient = <<>>
      /\ s.report = x.report /\ s.edges = x.edges /\ s \in StateType /\ Once(s.eng.holds)
  BY DEF Stepping, Board
<1>1. CASE k \in ToSet(s.eng.holds) \/ Refused(s, k)
  <2>1. t = Fail(s)
    BY <1>1 DEF Hold
  <2>2. Fits(x, s)
    BY <1>0 DEF Fits
  <2>3. s.eng.phase # "idle"
    BY <1>0
  <2> QED
    BY <1>0, <2>1, <2>2, <2>3, Fails
<1>2. CASE ~(k \in ToSet(s.eng.holds) \/ Refused(s, k))
  <2> DEFINE q == Append(s.eng.holds, k)
             d == 1
             b == IF d = 1 THEN Take(HoldsIs(s, q), k) ELSE Drop(HoldsIs(s, q), k)
             c == Send(b)
             r == "ready"
  <2>1. t = Wait(c, r)
    BY <1>2 DEF Hold, HoldsIs
  <2>2. q \in Seq(Plain) /\ Once(q) /\ ToSet(q) = ToSet(s.eng.holds) \cup {k}
    <3>1. s.eng.holds \in Seq(Plain)
      BY <1>0, Typed
    <3> QED
      BY <1>0, <1>2, <3>1, AppendIn
  <2>3. /\ b = (IF d = 1 THEN Take(HoldsIs(s, q), k) ELSE Drop(HoldsIs(s, q), k)) /\ c = Send(b)
        /\ d \in {1, -1} /\ d # -1 /\ (d = 1 => k \notin ToSet(s.eng.holds)) /\ d = 1
    BY <1>2
  <2>4. r \in Phases \ {"idle", "waiting"} /\ r = "ready"
    BY DEF Phases
  <2> HIDE DEF q, b, c, d, r
  <2>5. HoldsMoved(s, c, q) /\ Pressed(s, c) \subseteq (IF d = 1 THEN {k} ELSE {})
    BY <1>0, <2>2, <2>3, HoldsMove
  <2>6. /\ Board(c) /\ AsideHolds(s.eng, c.eng) /\ c.eng.holds = q /\ c.capsWas = s.capsWas
        /\ HostSaw(s, c) /\ Leases(c) = ToSet(q) \cup ToSet(s.eng.transient)
        /\ Pressed(s, c) \subseteq {k}
    BY <2>3, <2>5 DEF HoldsMoved
  <2>7. /\ ~c.eng.entry /\ c.eng.alt = s.eng.alt /\ c.eng.toggled = s.eng.toggled
        /\ c.eng.prog = s.eng.prog /\ c.eng.transient = <<>>
    BY <1>0, <2>6 DEF AsideHolds
  <2>8. Hosted(c)
    <3>1. k # Caps /\ k # Trigger
      BY Plainly
    <3>2. Caps \notin Pressed(s, c) /\ Trigger \notin Pressed(s, c)
      BY <2>6, <3>1
    <3> QED
      BY <1>0, <2>6, <2>7, <3>2, Outside
  <2>9. Fits(x, c)
    BY <1>0, <2>2, <2>6 DEF Fits, HostSaw, Pressed
  <2>10. Stands(c, IF r = "release" THEN c.eng.after ELSE r)
    <3>1. Legal(c.eng.prog, ToSet(c.eng.holds))
      BY <2>2, <2>6, <2>7
    <3> QED
      BY <2>4, <2>7, <3>1 DEF Stands
  <2> QED
    BY <2>1, <2>4, <2>6, <2>7, <2>8, <2>9, <2>10, GoesOn
<1> QED
  BY <1>1, <1>2

LEMMA LetsGo ==
  ASSUME NEW x, NEW s, Stepping(x, s), NEW k \in Plain, Legal(s.eng.prog, ToSet(s.eng.holds) \ {k}),
         NEW t, t = LetGo(s, k)
  PROVE  Done(x, t)
<1>0. /\ Board(s) /\ Hosted(s) /\ ~s.eng.entry /\ s.eng.phase = "ready" /\ s.eng.transient = <<>>
      /\ s.report = x.report /\ s.edges = x.edges /\ s \in StateType /\ Once(s.eng.holds)
  BY DEF Stepping, Board
<1>1. CASE k \notin ToSet(s.eng.holds)
  <2>1. t = Fail(s)
    BY <1>1 DEF LetGo
  <2>2. Fits(x, s)
    BY <1>0 DEF Fits
  <2>3. s.eng.phase # "idle"
    BY <1>0
  <2> QED
    BY <1>0, <2>1, <2>2, <2>3, Fails
<1>2. CASE k \in ToSet(s.eng.holds)
  <2> DEFINE at == CHOOSE i \in DOMAIN s.eng.holds : s.eng.holds[i] = k
             q == RemoveAt(s.eng.holds, at)
             d == -1
             b == IF d = 1 THEN Take(HoldsIs(s, q), k) ELSE Drop(HoldsIs(s, q), k)
             c == Send(b)
             r == "ready"
  <2>1. t = Wait(c, r)
    BY <1>2 DEF LetGo, HoldsIs
  <2>2. q \in Seq(Plain) /\ Once(q) /\ ToSet(q) = ToSet(s.eng.holds) \ {k}
    <3>1. s.eng.holds \in Seq(Plain)
      BY <1>0, Typed
    <3>2. at \in DOMAIN s.eng.holds /\ s.eng.holds[at] = k
      <4>1. \E i \in DOMAIN s.eng.holds : s.eng.holds[i] = k
        BY <1>2, <3>1, InSeq
      <4> QED
        BY <4>1, Zenon
    <3>3. q = RemoveAt(s.eng.holds, at)
      OBVIOUS
    <3> HIDE DEF at, q
    <3> QED
      BY <1>0, <3>1, <3>2, <3>3, RemoveAtIn
  <2>3. /\ b = (IF d = 1 THEN Take(HoldsIs(s, q), k) ELSE Drop(HoldsIs(s, q), k)) /\ c = Send(b)
        /\ d \in {1, -1} /\ d # 1 /\ (d = -1 => k \in ToSet(s.eng.holds))
    BY <1>2
  <2>4. r \in Phases \ {"idle", "waiting"} /\ r = "ready"
    BY DEF Phases
  <2> HIDE DEF at, q, b, c, d, r
  <2>5. HoldsMoved(s, c, q) /\ Pressed(s, c) \subseteq (IF d = 1 THEN {k} ELSE {})
    BY <1>0, <2>2, <2>3, HoldsMove
  <2>6. /\ Board(c) /\ AsideHolds(s.eng, c.eng) /\ c.eng.holds = q /\ c.capsWas = s.capsWas
        /\ HostSaw(s, c) /\ Pressed(s, c) = {}
    BY <2>3, <2>5 DEF HoldsMoved
  <2>7. /\ ~c.eng.entry /\ c.eng.alt = s.eng.alt /\ c.eng.toggled = s.eng.toggled
        /\ c.eng.prog = s.eng.prog /\ c.eng.transient = <<>>
    BY <1>0, <2>6 DEF AsideHolds
  <2>8. Hosted(c)
    BY <1>0, <2>6, <2>7, Outside
  <2>9. Fits(x, c)
    BY <1>0, <2>6 DEF Fits, HostSaw, Pressed
  <2>10. Stands(c, IF r = "release" THEN c.eng.after ELSE r)
    <3>1. Legal(c.eng.prog, ToSet(c.eng.holds))
      BY <2>2, <2>6, <2>7
    <3> QED
      BY <2>4, <2>7, <3>1 DEF Stands
  <2> QED
    BY <2>1, <2>4, <2>6, <2>7, <2>8, <2>9, <2>10, GoesOn
<1> QED
  BY <1>1, <1>2

------------------------------------------------------------------------------
(* The end of a macro.                                                       *)

LEMMA IdleIs ==
  /\ Idle \in EngType /\ Idle.phase = "idle" /\ ~Idle.protected /\ Idle.mode # MacOS /\ ~Idle.entry
  /\ ~Idle.alt /\ ~Idle.toggled /\ Idle.holds = <<>> /\ Idle.transient = <<>>
BY DEF Idle, EngType, Phases, MacOS

LEMMA NoneHeld ==
  ASSUME NEW q, q = <<>> PROVE ToSet(q) = {} /\ Once(q) /\ \A k : Count(q, k) = 0
<1>1. q \in Seq({}) /\ DOMAIN q = {}
  OBVIOUS
<1>2. ToSet(q) = {}
  BY <1>1 DEF ToSet
<1>3. ASSUME NEW k PROVE Count(q, k) = 0
  BY <1>1, CountIn
<1> QED
  BY <1>1, <1>2, <1>3 DEF Once

(* An idle engine in the place of one that holds nothing.                    *)
LEMMA IdlePut ==
  ASSUME NEW s \in StateType, Ledger(s), s.eng.holds = <<>>, s.eng.transient = <<>>, ~s.eng.alt,
         NEW t, t = [s EXCEPT !.eng = Idle]
  PROVE  /\ t \in StateType /\ t.eng = Idle /\ SameBoard(s, t) /\ SameHost(s, t)
         /\ Ledger(t) /\ Leases(t) = {} /\ Leases(s) = {} /\ Owned(t) = Owned(s) /\ Once(t.eng.holds)
<1> DEFINE e == Idle
<1>1. /\ e \in EngType /\ e.phase = "idle" /\ ~e.protected
      /\ ~e.alt /\ e.holds = <<>> /\ e.transient = <<>> /\ t = [s EXCEPT !.eng = e] /\ e = Idle
  BY IdleIs
<1> HIDE DEF e
<1>2. t \in StateType /\ t.eng = e /\ SameBoard(s, t) /\ SameHost(s, t)
  BY <1>1, EngPut
<1>3. /\ ToSet(t.eng.holds) = {} /\ ToSet(t.eng.transient) = {} /\ Once(t.eng.holds)
      /\ ToSet(s.eng.holds) = {} /\ ToSet(s.eng.transient) = {}
  BY <1>1, <1>2, NoneHeld
<1>4. Ledger(t)
  <2> SUFFICES ASSUME NEW k \in Keys
               PROVE  t.ledger[k] = Live(t, k) + One(k \in ToSet(t.eng.holds)) + Count(t.eng.transient, k)
                                      + One(t.eng.alt /\ k = Alt)
    BY DEF Ledger
  <2>1. s.ledger[k] = Live(s, k) + One(k \in ToSet(s.eng.holds)) + Count(s.eng.transient, k)
                        + One(s.eng.alt /\ k = Alt)
    BY DEF Ledger
  <2>2. Live(t, k) = Live(s, k) /\ t.ledger = s.ledger
    BY <1>2 DEF Live, SameBoard
  <2>3. One(k \in ToSet(t.eng.holds)) = One(k \in ToSet(s.eng.holds))
    BY <1>3
  <2>4. Count(t.eng.transient, k) = Count(s.eng.transient, k)
    BY <1>1, <1>2
  <2>5. One(t.eng.alt /\ k = Alt) = One(s.eng.alt /\ k = Alt)
    BY <1>1, <1>2 DEF One
  <2> QED
    BY <2>1, <2>2, <2>3, <2>4, <2>5
<1> QED
  BY <1>1, <1>2, <1>3, <1>4 DEF Leases, Owned, SameBoard

LEMMA PlacedIdle == ASSUME NEW t, t.eng = Idle PROVE Placed(t)
<1>1. t.eng.phase = "idle" /\ t.eng.transient = <<>>
  BY IdleIs
<1> QED
  BY <1>1 DEF Placed

(* What live owners still hold does not show again.                          *)
LEMMA Finishes ==
  ASSUME NEW x, NEW s, Board(s), Hosted(s), ~s.eng.entry, s.eng.holds = <<>>, s.eng.transient = <<>>,
         s.report = x.report, s.edges = x.edges, NEW t, t = Finish(s)
  PROVE  Done(x, t)
<1>0. s \in StateType /\ Ledger(s) /\ Shown(s) /\ ~s.eng.alt /\ ~s.eng.toggled /\ ~s.open
  BY DEF Board, Hosted
<1>1. CASE s.eng.protected
  <2> DEFINE capture == TRUE
             a == SendCapturing(s, capture)
             b == [a EXCEPT !.eng = Idle]
  <2>1. a = SendCapturing(s, capture) /\ b = [a EXCEPT !.eng = Idle] /\ t = Send(b)
        /\ capture \in BOOLEAN /\ capture
    BY <1>1 DEF Finish
  <2> HIDE DEF capture, a, b
  <2>2. /\ a \in StateType /\ Sent(s, a)
        /\ a.suppressed = IF s.eng.protected
                          THEN IF capture THEN Owned(s) \ Mods ELSE s.suppressed
                          ELSE IF capture THEN Owned(s) \ Mods ELSE s.suppressed \cap (Owned(s) \ Mods)
    BY <1>0, <2>1, Capturing
  <2>3. a.eng = s.eng /\ SameBoard(s, a) /\ Shown(a) /\ HostSaw(s, a) /\ a.suppressed = Owned(s) \ Mods
    BY <1>1, <2>1, <2>2 DEF Sent
  <2>4. Ledger(a)
    BY <1>0, <2>3 DEF Ledger, Live, SameBoard
  <2>5. /\ b \in StateType /\ b.eng = Idle /\ SameBoard(a, b) /\ SameHost(a, b)
        /\ Ledger(b) /\ Leases(b) = {} /\ Leases(a) = {} /\ Owned(b) = Owned(a) /\ Once(b.eng.holds)
    BY <1>0, <2>1, <2>2, <2>3, <2>4, IdlePut
  <2>6. Owned(a) = Owned(s)
    BY <2>3 DEF Owned, SameBoard
  <2>7. /\ t \in StateType /\ Sent(b, t)
        /\ t.suppressed = IF b.eng.protected THEN b.suppressed ELSE b.suppressed \cap (Owned(b) \ Mods)
    BY <2>1, <2>5, Sends
  <2>8. t.eng = Idle /\ SameBoard(b, t) /\ Shown(t) /\ HostSaw(b, t) /\ Owned(t) = Owned(b) /\ Leases(t) = {}
    BY <2>5, <2>7 DEF Sent, Owned, SameBoard, Leases
  <2>9. t.suppressed = Owned(t) \ Mods
    <3>1. ~b.eng.protected
      BY <2>5, IdleIs
    <3>2. b.suppressed = a.suppressed
      BY <2>5 DEF SameHost
    <3> QED
      BY <2>3, <2>5, <2>6, <2>7, <2>8, <3>1, <3>2
  <2>10. t.report = {}
    <3>1. ~t.eng.protected
      BY <2>8, IdleIs
    <3> QED
      BY <2>8, <2>9, <3>1 DEF Shown
  <2>11. a.report = {}
    BY <1>1, <2>3, <2>5 DEF Shown
  <2>12. Pressed(s, a) = {} /\ Pressed(b, t) = {}
    BY <2>10, <2>11 DEF Pressed
  <2>13. (a.caps <=> s.caps) /\ ~a.garbled /\ ~a.open /\ a.edges = s.edges
    BY <1>0, <2>3, <2>12 DEF HostSaw, Hosted
  <2>14. (t.caps <=> s.caps) /\ ~t.garbled /\ ~t.open /\ t.edges = s.edges
    <3>1. t.eng.mode # MacOS
      BY <2>8, IdleIs
    <3> QED
      BY <2>5, <2>8, <2>12, <2>13, <3>1 DEF HostSaw, SameHost
  <2>15. Ledger(t)
    BY <2>5, <2>8 DEF Ledger, Live, SameBoard
  <2>16. Board(t)
    BY <2>5, <2>7, <2>8, <2>15 DEF Board
  <2>17. Hosted(t)
    <3>1. ~t.eng.entry /\ ~t.eng.alt /\ ~t.eng.toggled
      BY <2>8, IdleIs
    <3>2. t.capsWas = s.capsWas
      BY <2>3, <2>5, <2>8 DEF SameBoard
    <3> QED
      BY <1>0, <2>14, <3>1, <3>2 DEF Hosted
  <2>18. Fits(x, t)
    BY <2>10, <2>14 DEF Fits
  <2> QED
    BY <2>8, <2>16, <2>17, <2>18, PlacedIdle DEF Done
<1>2. CASE ~s.eng.protected
  <2>1. t = [s EXCEPT !.eng = Idle]
    BY <1>2 DEF Finish
  <2>2. /\ t \in StateType /\ t.eng = Idle /\ SameBoard(s, t) /\ SameHost(s, t)
        /\ Ledger(t) /\ Leases(t) = {} /\ Leases(s) = {} /\ Owned(t) = Owned(s) /\ Once(t.eng.holds)
    BY <1>0, <2>1, IdlePut
  <2>3. ~t.eng.protected /\ ~t.eng.entry /\ ~t.eng.alt /\ ~t.eng.toggled
    BY <2>2, IdleIs
  <2>4. Shown(t)
    BY <1>0, <1>2, <2>2, <2>3 DEF Shown, SameHost
  <2>5. Hosted(t)
    BY <1>0, <2>2, <2>3 DEF Hosted, SameHost, SameBoard
  <2>6. Fits(x, t)
    BY <2>2 DEF Fits, SameHost
  <2> QED
    BY <2>2, <2>4, <2>5, <2>6, PlacedIdle DEF Done, Board
<1> QED
  BY <1>1, <1>2

------------------------------------------------------------------------------
(* The steps of a macro.                                                     *)

ProgIs(s, p) == [s EXCEPT !.eng.prog = p]
SecondIs(s, q) == [s EXCEPT !.eng.second = q]

LEMMA ProgPut ==
  ASSUME NEW s \in StateType, NEW p \in Seq(StepType), NEW v, v = ProgIs(s, p)
  PROVE  /\ Steady(s, v) /\ v.refused = s.refused /\ v.eng.phase = s.eng.phase /\ v.eng.prog = p
         /\ v.eng.second = s.eng.second /\ v.eng.taps = s.eng.taps
<1> DEFINE e == [s.eng EXCEPT !.prog = p]
<1>1. v = [s EXCEPT !.eng = e]
  BY DEF StateType, ProgIs
<1>2. /\ e \in EngType /\ e.phase = s.eng.phase /\ e.transient = s.eng.transient
      /\ e.prog = p /\ e.second = s.eng.second /\ e.taps = s.eng.taps
      /\ e.protected = s.eng.protected /\ e.mode = s.eng.mode /\ e.entry = s.eng.entry
      /\ e.mods = s.eng.mods /\ e.escaped = s.eng.escaped /\ e.neutral = s.eng.neutral
      /\ e.toggled = s.eng.toggled /\ e.alt = s.eng.alt /\ e.holds = s.eng.holds
  BY DEF StateType, EngType
<1> HIDE DEF e
<1>3. v \in StateType /\ v.eng = e /\ SameBoard(s, v) /\ SameHost(s, v)
  BY <1>1, <1>2, EngPut
<1> QED
  BY <1>2, <1>3 DEF Steady, SameBoard

LEMMA SecondPut ==
  ASSUME NEW s \in StateType, NEW q \in Seq(Plain), NEW v, v = SecondIs(s, q)
  PROVE  /\ Steady(s, v) /\ v.refused = s.refused /\ v.eng.phase = s.eng.phase
         /\ v.eng.prog = s.eng.prog /\ v.eng.taps = s.eng.taps
<1> DEFINE e == [s.eng EXCEPT !.second = q]
<1>1. v = [s EXCEPT !.eng = e]
  BY DEF StateType, SecondIs
<1>2. /\ e \in EngType /\ e.phase = s.eng.phase /\ e.transient = s.eng.transient
      /\ e.prog = s.eng.prog /\ e.taps = s.eng.taps
      /\ e.protected = s.eng.protected /\ e.mode = s.eng.mode /\ e.entry = s.eng.entry
      /\ e.mods = s.eng.mods /\ e.escaped = s.eng.escaped /\ e.neutral = s.eng.neutral
      /\ e.toggled = s.eng.toggled /\ e.alt = s.eng.alt /\ e.holds = s.eng.holds
  BY DEF StateType, EngType
<1> HIDE DEF e
<1>3. v \in StateType /\ v.eng = e /\ SameBoard(s, v) /\ SameHost(s, v)
  BY <1>1, <1>2, EngPut
<1> QED
  BY <1>2, <1>3 DEF Steady, SameBoard

LEMMA SecondStrikes ==
  ASSUME NEW s, Board(s), Hosted(s), Placed(s), s.eng.phase = "second",
         NEW t, t = SecondStroke(s)
  PROVE  Done(s, t)
<1>1. Stands(s, "second") /\ s.eng.transient = <<>>
  BY DEF Placed, At, Goes
<1>2. s \in StateType /\ ~s.eng.entry /\ Legal(s.eng.prog, ToSet(s.eng.holds))
  BY <1>1 DEF Stands, Board
<1> DEFINE none == <<>>
           v == SecondIs(s, none)
           keys == s.eng.second
           next == "ready"
<1>3. /\ none \in Seq(Plain) /\ v = SecondIs(s, none) /\ keys \in Seq(Plain) /\ next \in {"ready", "second"}
      /\ t = StartTransient(v, keys, next)
  <2>1. s.eng.second \in Seq(Plain)
    BY <1>2, Typed
  <2>2. t = StartTransient(v, keys, next)
    BY DEF SecondStroke, SecondIs
  <2> QED
    BY <2>1, <2>2
<1> HIDE DEF none, v, keys, next
<1>4. /\ Steady(s, v) /\ v.refused = s.refused /\ v.eng.phase = s.eng.phase
      /\ v.eng.prog = s.eng.prog /\ v.eng.taps = s.eng.taps
  BY <1>2, <1>3, SecondPut
<1>5. Leases(v) = Leases(s) /\ Board(v) /\ Hosted(v)
  BY <1>4, SteadyKeeps
<1>6. Fits(s, v) /\ ~v.eng.entry /\ v.eng.phase # "idle" /\ Legal(v.eng.prog, ToSet(v.eng.holds))
  BY <1>2, <1>4, <1>5 DEF Fits, Steady, SameHost
<1> QED
  BY <1>3, <1>5, <1>6, Chords

LEMMA WaitEnds ==
  ASSUME NEW s, Board(s), Hosted(s), Placed(s), s.eng.phase = "waiting",
         NEW t, t = [s EXCEPT !.eng.phase = s.eng.resume]
  PROVE  Done(s, t)
<1> DEFINE p == s.eng.resume
<1>0. s \in StateType /\ p \in Phases \ {"idle", "waiting"} /\ t = PhaseIs(s, p) /\ p \in Phases
  BY Typed DEF Board, PhaseIs
<1>1. p = s.eng.resume
  OBVIOUS
<1> HIDE DEF p
<1>2. /\ Steady(s, t) /\ t.eng.phase = p
      /\ t.eng.resume = s.eng.resume /\ t.eng.after = s.eng.after
      /\ t.eng.prog = s.eng.prog /\ t.eng.second = s.eng.second /\ t.eng.taps = s.eng.taps
  <2>1. PhasedAt(s, t, p)
    BY <1>0, PhasePut
  <2> QED
    BY <2>1 DEF PhasedAt
<1>3. Board(t) /\ Hosted(t) /\ Leases(t) = Leases(s)
  BY <1>2, SteadyKeeps
<1>4. At(t) = At(s) /\ Goes(t) = Goes(s)
  BY <1>0, <1>1, <1>2 DEF At, Goes
<1>5. \A g : Stands(s, g) => Stands(t, g)
  BY <1>2, StandsOn
<1>6. Placed(t)
  BY <1>0, <1>2, <1>4, <1>5 DEF Placed, Steady
<1>7. Fits(s, t)
  BY <1>2 DEF Fits, Steady, SameHost
<1> QED
  BY <1>3, <1>6, <1>7 DEF Done

LEMMA StepIs ==
  ASSUME NEW step \in StepType
  PROVE  /\ step.op \in {"down", "up", "tap", "char", "entry", "delay"}
         /\ step.key \in Plain /\ step.keys \in Seq(Plain) /\ step.second \in Seq(Plain)
BY DEF StepType

LEMMA LegalStep ==
  ASSUME NEW step \in StepType, NEW h, NEW k, StepLegal(step, h, k)
  PROVE  /\ step.op = "down" => k = h \cup {step.key}
         /\ step.op = "up" => k = h \ {step.key}
         /\ step.op = "entry" => h \subseteq Mods
         /\ step.op \notin {"down", "up"} => k = h
<1>1. step.op \in {"down", "up", "tap", "char", "entry", "delay"}
  BY StepIs
<1> QED
  BY <1>1, Zenon DEF StepLegal

(* What a step does, its place in the macro already past.                     *)
StepDone(v, step) ==
  CASE step.op = "down" -> Hold(v, step.key)
    [] step.op = "up" -> LetGo(v, step.key)
    [] step.op = "tap" -> StartTransient(v, step.keys, "ready")
    [] step.op = "char" ->
         StartTransient(SecondIs(v, step.second), step.keys, IF step.second = <<>> THEN "ready" ELSE "second")
    [] step.op = "entry" -> StartUnicode(v)
    [] step.op = "delay" -> Wait(v, "ready")

LEMMA StepDoes ==
  ASSUME NEW v, NEW step \in StepType, NEW t, t = StepDone(v, step)
  PROVE  /\ step.op = "down" => t = Hold(v, step.key)
         /\ step.op = "up" => t = LetGo(v, step.key)
         /\ step.op = "tap" => t = StartTransient(v, step.keys, "ready")
         /\ step.op = "char" =>
               t = StartTransient(SecondIs(v, step.second), step.keys,
                                  IF step.second = <<>> THEN "ready" ELSE "second")
         /\ step.op = "entry" => t = StartUnicode(v)
         /\ step.op = "delay" => t = Wait(v, "ready")
BY DEF StepDone

LEMMA StepRuns ==
  ASSUME NEW x, NEW v, Stepping(x, v), NEW step \in StepType, NEW h, StepLegal(step, ToSet(v.eng.holds), h),
         Legal(v.eng.prog, h), NEW t, t = StepDone(v, step)
  PROVE  Done(x, t)
<1>0. /\ Board(v) /\ Hosted(v) /\ ~v.eng.entry /\ v.eng.phase # "idle" /\ v.eng.transient = <<>>
      /\ v \in StateType /\ Fits(x, v)
  BY DEF Stepping, Board, Fits
<1>1. /\ step.op \in {"down", "up", "tap", "char", "entry", "delay"}
      /\ step.key \in Plain /\ step.keys \in Seq(Plain) /\ step.second \in Seq(Plain)
  BY StepIs
<1>2. /\ step.op = "down" => h = ToSet(v.eng.holds) \cup {step.key}
      /\ step.op = "up" => h = ToSet(v.eng.holds) \ {step.key}
      /\ step.op = "entry" => ToSet(v.eng.holds) \subseteq Mods
      /\ step.op \notin {"down", "up"} => h = ToSet(v.eng.holds)
  BY LegalStep
<1>3. /\ step.op = "down" => t = Hold(v, step.key)
      /\ step.op = "up" => t = LetGo(v, step.key)
      /\ step.op = "tap" => t = StartTransient(v, step.keys, "ready")
      /\ step.op = "char" =>
            t = StartTransient(SecondIs(v, step.second), step.keys,
                               IF step.second = <<>> THEN "ready" ELSE "second")
      /\ step.op = "entry" => t = StartUnicode(v)
      /\ step.op = "delay" => t = Wait(v, "ready")
  BY StepDoes
<1> DEFINE r == "ready"
<1>4. r \in Phases \ {"idle", "waiting"} /\ r = "ready" /\ r \in {"ready", "second"}
  BY DEF Phases
<1> HIDE DEF r
<1>5. CASE step.op = "down"
  <2>1. Legal(v.eng.prog, ToSet(v.eng.holds) \cup {step.key}) /\ t = Hold(v, step.key)
    BY <1>2, <1>3, <1>5
  <2> QED
    BY <1>1, <2>1, HoldsKey
<1>6. CASE step.op = "up"
  <2>1. Legal(v.eng.prog, ToSet(v.eng.holds) \ {step.key}) /\ t = LetGo(v, step.key)
    BY <1>2, <1>3, <1>6
  <2> QED
    BY <1>1, <2>1, LetsGo
<1>7. CASE step.op = "tap"
  <2>1. Legal(v.eng.prog, ToSet(v.eng.holds)) /\ t = StartTransient(v, step.keys, r)
    BY <1>2, <1>3, <1>4, <1>7
  <2> QED
    BY <1>0, <1>1, <1>4, <2>1, Chords
<1>8. CASE step.op = "char"
  <2> DEFINE w == SecondIs(v, step.second)
             next == IF step.second = <<>> THEN "ready" ELSE "second"
  <2>1. /\ w = SecondIs(v, step.second) /\ next \in {"ready", "second"}
        /\ t = StartTransient(w, step.keys, next)
    BY <1>3, <1>8
  <2> HIDE DEF w, next
  <2>2. /\ Steady(v, w) /\ w.refused = v.refused /\ w.eng.phase = v.eng.phase
        /\ w.eng.prog = v.eng.prog /\ w.eng.taps = v.eng.taps
    BY <1>0, <1>1, <2>1, SecondPut
  <2>3. Leases(w) = Leases(v) /\ Board(w) /\ Hosted(w)
    BY <1>0, <2>2, SteadyKeeps
  <2>4. Fits(x, w) /\ ~w.eng.entry /\ w.eng.phase # "idle" /\ Legal(w.eng.prog, ToSet(w.eng.holds))
    BY <1>0, <1>2, <1>8, <2>2, <2>3 DEF Fits, Steady, SameHost
  <2> QED
    BY <1>1, <2>1, <2>3, <2>4, Chords
<1>9. CASE step.op = "entry"
  <2>1. ToSet(v.eng.holds) \subseteq Mods /\ Legal(v.eng.prog, ToSet(v.eng.holds)) /\ t = StartUnicode(v)
    BY <1>2, <1>3, <1>9
  <2> QED
    BY <1>0, <2>1, StartsEntry
<1>10. CASE step.op = "delay"
  <2>1. Legal(v.eng.prog, ToSet(v.eng.holds)) /\ t = Wait(v, r)
    BY <1>2, <1>3, <1>4, <1>10
  <2>2. Stands(v, IF r = "release" THEN v.eng.after ELSE r)
    BY <1>0, <1>4, <2>1 DEF Stands
  <2> QED
    BY <1>0, <1>4, <2>1, <2>2, GoesOn
<1> QED
  BY <1>1, <1>5, <1>6, <1>7, <1>8, <1>9, <1>10

LEMMA Executes ==
  ASSUME NEW s, Board(s), Hosted(s), Placed(s), s.eng.phase = "ready", NEW loads \in BOOLEAN,
         NEW t, t = ExecuteReady(s, loads)
  PROVE  Done(s, t)
<1>1. Stands(s, "ready") /\ s.eng.transient = <<>>
  BY DEF Placed, At, Goes
<1>2. /\ s \in StateType /\ ~s.eng.entry /\ Legal(s.eng.prog, ToSet(s.eng.holds))
      /\ s.eng.prog \in Seq(StepType) /\ s.eng.phase # "idle" /\ Fits(s, s)
  <2>1. s \in StateType
    BY DEF Board
  <2> QED
    BY <1>1, <2>1, Typed DEF Stands, Fits
<1>3. CASE s.eng.prog = <<>>
  <2>1. t = IF s.eng.holds = <<>> THEN Finish(s) ELSE Fail(s)
    BY <1>3 DEF ExecuteReady
  <2>2. CASE s.eng.holds = <<>>
    BY <1>1, <1>2, <2>1, <2>2, Finishes
  <2>3. CASE s.eng.holds # <<>>
    BY <1>2, <2>1, <2>3, Fails
  <2> QED
    BY <2>2, <2>3
<1>4. CASE s.eng.prog # <<>>
  <2> DEFINE step == Head(s.eng.prog)
             p == Tail(s.eng.prog)
             v == ProgIs(s, p)
  <2>1. t = IF step.window /\ ~loads THEN Fail(s) ELSE StepDone(v, step)
    BY <1>4, Zenon DEF ExecuteReady, StepDone, ProgIs, SecondIs
  <2>2. /\ step \in StepType /\ p \in Seq(StepType)
        /\ \E h : StepLegal(step, ToSet(s.eng.holds), h) /\ Legal(p, h)
    BY <1>2, <1>4, LegalTail
  <2>3. v = ProgIs(s, p)
    OBVIOUS
  <2> HIDE DEF step, v, p
  <2>4. /\ Steady(s, v) /\ v.refused = s.refused /\ v.eng.phase = s.eng.phase
        /\ v.eng.prog = p /\ v.eng.second = s.eng.second /\ v.eng.taps = s.eng.taps
    BY <1>2, <2>2, <2>3, ProgPut
  <2>5. Leases(v) = Leases(s) /\ Board(v) /\ Hosted(v)
    BY <2>4, SteadyKeeps
  <2>6. Stepping(s, v)
    BY <1>1, <1>2, <2>4, <2>5 DEF Stepping, Steady, SameHost
  <2>7. CASE step.window /\ ~loads
    BY <1>2, <2>1, <2>7, Fails
  <2>8. CASE ~(step.window /\ ~loads)
    <3>1. t = StepDone(v, step)
      BY <2>1, <2>8
    <3>2. PICK h : StepLegal(step, ToSet(s.eng.holds), h) /\ Legal(p, h)
      BY <2>2
    <3>3. StepLegal(step, ToSet(v.eng.holds), h) /\ Legal(v.eng.prog, h)
      BY <2>4, <3>2 DEF Steady
    <3> QED
      BY <2>2, <2>6, <3>1, <3>3, StepRuns
  <2> QED
    BY <2>7, <2>8
<1> QED
  BY <1>3, <1>4

------------------------------------------------------------------------------
(* The keys of a tap go up.                                                  *)

Given(s, t) ==
  /\ Board(t) /\ Hosted(t) /\ AsideTaps(s.eng, t.eng) /\ t.capsWas = s.capsWas
  /\ t.report \subseteq s.report /\ t.edges = s.edges
  /\ t.eng.mode # MacOS /\ t.open => s.open

(* A report that presses nothing keeps the host where it was.                *)
LEMMA Quiet ==
  ASSUME NEW s, NEW t, Hosted(s), HostSaw(s, t), Pressed(s, t) = {}, AsideTaps(s.eng, t.eng),
         t.capsWas = s.capsWas
  PROVE  Hosted(t) /\ (t.eng.mode # MacOS /\ t.open => s.open)
<1>1. /\ t.caps <=> s.caps
      /\ ~t.garbled
      /\ t.eng.mode # MacOS /\ t.open => s.open
      /\ t.eng.mode = MacOS /\ t.open => (t.eng.entry /\ Alt \in t.eng.mods) \/ (s.open /\ ~t.eng.entry)
  BY DEF HostSaw, Hosted
<1> QED
  BY <1>1 DEF Hosted, AsideTaps

LEMMA GivenMore ==
  ASSUME NEW s, NEW a, Given(s, a), a.eng.transient # <<>>, NEW b, b = ReleaseLast(a)
  PROVE  Given(s, b) /\ Len(b.eng.transient) = Len(a.eng.transient) - 1
<1>1. /\ Board(b) /\ AsideTaps(a.eng, b.eng)
      /\ Len(b.eng.transient) = Len(a.eng.transient) - 1
      /\ b.live = a.live /\ b.refused = a.refused /\ b.capsWas = a.capsWas
      /\ HostSaw(a, b) /\ Pressed(a, b) = {} /\ Leases(b) \subseteq Leases(a)
  BY GivesTap DEF Given
<1>2. Hosted(b) /\ (b.eng.mode # MacOS /\ b.open => a.open)
  BY <1>1, Quiet DEF Given
<1>3. b.report \subseteq a.report /\ b.edges = a.edges
  BY <1>1 DEF HostSaw, Pressed
<1>4. AsideTaps(s.eng, b.eng)
  BY <1>1 DEF Given, AsideTaps
<1>5. b.eng.mode = a.eng.mode
  BY <1>1 DEF AsideTaps
<1> QED
  BY <1>1, <1>2, <1>3, <1>4, <1>5 DEF Given

LEMMA AllGivenBack ==
  ASSUME NEW s, Board(s), Hosted(s), NEW t, t = AllGiven(s)
  PROVE  Given(s, t) /\ t.eng.transient = <<>>
<1> DEFINE n == Len(s.eng.transient)
<1>0. s \in StateType /\ s.eng.transient \in Seq(Keys)
  BY Typed DEF Board
<1>1. n \in Nat
  BY <1>0, InSeq
<1>2. PICK g : g[0] = s /\ g[n] = t /\ \A i \in 1 .. n : g[i] = Does("give", <<>>, g[i - 1], i)
  <2>1. Ran("give", <<>>, s, n, t)
    BY <1>1, GivenRan
  <2> QED
    BY <2>1 DEF Ran
<1>8. n = Len(s.eng.transient)
  OBVIOUS
<1> HIDE DEF n
<1>3. \A i \in 1 .. n : g[i] = ReleaseLast(g[i - 1])
  BY <1>2 DEF Does
<1> DEFINE T == {i \in 0 .. n : Given(s, g[i]) /\ Len(g[i].eng.transient) = n - i}
<1>4. Given(s, g[0]) /\ Len(g[0].eng.transient) = n - 0
  <2>1. Given(s, s)
    BY DEF Given, AsideTaps
  <2> QED
    BY <1>1, <1>2, <1>8, <2>1
<1>5. ASSUME NEW i \in 1 .. n, i - 1 \in T PROVE i \in T
  <2> DEFINE a == g[i - 1]
             b == g[i]
  <2>1. Given(s, a) /\ Len(a.eng.transient) = n - (i - 1) /\ i \in 0 .. n
    BY <1>1, <1>5
  <2>2. b = ReleaseLast(a)
    BY <1>1, <1>3
  <2> HIDE DEF a, b
  <2>3. a.eng.transient # <<>>
    <3>1. n - (i - 1) # 0
      BY <1>1, <1>5
    <3>2. a.eng.transient \in Seq(Keys)
      BY <2>1, Typed DEF Given, Board
    <3> QED
      BY <2>1, <3>1, <3>2, InSeq
  <2>4. Given(s, b) /\ Len(b.eng.transient) = Len(a.eng.transient) - 1
    BY <2>1, <2>2, <2>3, GivenMore
  <2>5. Len(b.eng.transient) = n - i
    BY <1>1, <1>5, <2>1, <2>4
  <2> QED
    BY <2>1, <2>4, <2>5 DEF b
<1>6. 0 \in T
  BY <1>1, <1>4
<1> HIDE DEF T
<1>7. n \in T
  BY <1>1, <1>5, <1>6, Upto
<1>9. Given(s, t) /\ Len(t.eng.transient) = n - n
  BY <1>2, <1>7 DEF T
<1>10. t.eng.transient \in Seq(Keys)
  BY <1>9, Typed DEF Given, Board
<1>11. Len(t.eng.transient) = 0
  BY <1>1, <1>9
<1> QED
  BY <1>9, <1>10, <1>11, InSeq

(* Where the engine stands holds on while the host's entry only closes.       *)
LEMMA StandsStill ==
  ASSUME NEW s, NEW t, NEW g, Stands(s, g),
         t.eng.prog = s.eng.prog, t.eng.taps = s.eng.taps, t.eng.mode = s.eng.mode,
         t.eng.entry = s.eng.entry, t.eng.escaped = s.eng.escaped, t.eng.neutral = s.eng.neutral,
         t.eng.toggled = s.eng.toggled, t.eng.holds = s.eng.holds, t.capsWas = s.capsWas,
         t.eng.mode # MacOS /\ t.open => s.open
  PROVE  Stands(t, g)
<1>1. Progress(s) => Progress(t)
  <2>1. (Under(s) <=> Under(t)) /\ \A d : FromEnd(s, d) = FromEnd(t, d)
    BY DEF Under, FromEnd
  <2>2. ASSUME NEW n \in 0 .. 5, Left(s, n) PROVE Left(t, n)
    <3>1. t.eng.mode # MacOS /\ t.open => IF Under(t) THEN n \in {2, 3} ELSE n \in {1, 2}
      BY <2>1, <2>2 DEF Left
    <3>2. /\ n = Len(t.eng.taps) /\ (t.eng.mode # MacOS /\ ~Under(t) => n <= 3)
          /\ t.eng.toggled <=> Under(t) /\ n \in 1 .. 4
      BY <2>1, <2>2 DEF Left
    <3>3. \A i \in 1 .. n : t.eng.taps[i] = FromEnd(t, n - i)
      BY <2>1, <2>2 DEF Left
    <3> QED
      BY <3>1, <3>2, <3>3 DEF Left
  <2> QED
    BY <2>2 DEF Progress
<1> QED
  BY <1>1 DEF Stands

ModsGone(s) == [s EXCEPT !.eng.mods = {}]
ModsGoneEng(s, u, e) ==
  /\ e \in EngType /\ u = [s EXCEPT !.eng = e] /\ AsideFlags(s.eng, e) /\ e.mods = {}
  /\ e.entry = s.eng.entry /\ e.neutral = s.eng.neutral /\ e.escaped = s.eng.escaped
  /\ e.toggled = s.eng.toggled

LEMMA ModsGonePut ==
  ASSUME NEW s \in StateType, NEW u, u = ModsGone(s)
  PROVE  \E e : ModsGoneEng(s, u, e)
<1> DEFINE e == [s.eng EXCEPT !.mods = {}]
<1>1. s.eng \in EngType
  BY Typed
<1>2. e \in EngType /\ u = [s EXCEPT !.eng = e]
  BY <1>1 DEF EngType, StateType, ModsGone
<1>3. /\ AsideFlags(s.eng, e) /\ e.mods = {}
      /\ e.entry = s.eng.entry /\ e.neutral = s.eng.neutral /\ e.escaped = s.eng.escaped
      /\ e.toggled = s.eng.toggled
  BY <1>1 DEF EngType, AsideFlags, SameHold
<1> HIDE DEF e
<1>4. ModsGoneEng(s, u, e)
  BY <1>2, <1>3 DEF ModsGoneEng
<1> QED
  BY <1>4

LEMMA ModsShown ==
  ASSUME NEW s, NEW a, Given(s, a), a.eng.entry, a.eng.mode # MacOS, a.eng.transient = <<>>,
         NEW m, m = Send(ModsGone(a))
  PROVE  /\ Board(m) /\ Hosted(m) /\ m.report \subseteq s.report /\ m.edges = s.edges
         /\ m.capsWas = s.capsWas /\ m.eng.transient = <<>>
         /\ m.eng.prog = s.eng.prog /\ m.eng.taps = s.eng.taps /\ m.eng.mode = s.eng.mode
         /\ m.eng.entry = s.eng.entry /\ m.eng.escaped = s.eng.escaped /\ m.eng.neutral = s.eng.neutral
         /\ m.eng.toggled = s.eng.toggled /\ m.eng.holds = s.eng.holds
         /\ m.eng.mode # MacOS /\ m.open => s.open
<1> DEFINE u == ModsGone(a)
<1>0. Board(a) /\ a \in StateType /\ Hosted(a) /\ u = ModsGone(a) /\ m = Send(u)
  BY DEF Given, Board
<1> HIDE DEF u
<1>1. PICK e : ModsGoneEng(a, u, e)
  BY <1>0, ModsGonePut
<1>2. /\ e \in EngType /\ u = [a EXCEPT !.eng = e] /\ AsideFlags(a.eng, e) /\ SameHold(a.eng, e)
      /\ e.entry = a.eng.entry /\ e.neutral = a.eng.neutral /\ e.escaped = a.eng.escaped
      /\ e.toggled = a.eng.toggled
  BY <1>1 DEF ModsGoneEng, AsideFlags
<1>3. /\ Board(m) /\ m.eng = e /\ SameBoard(a, m)
      /\ HostSaw(a, m) /\ Pressed(a, m) = {} /\ Leases(m) = Leases(a)
  BY <1>0, <1>2, Shows
<1>4. /\ m.eng.prog = a.eng.prog /\ m.eng.taps = a.eng.taps /\ m.eng.mode = a.eng.mode
      /\ m.eng.entry = a.eng.entry /\ m.eng.escaped = a.eng.escaped /\ m.eng.neutral = a.eng.neutral
      /\ m.eng.toggled = a.eng.toggled /\ m.eng.holds = a.eng.holds
      /\ m.eng.transient = <<>> /\ m.eng.alt = a.eng.alt /\ m.capsWas = a.capsWas
  BY <1>2, <1>3 DEF AsideFlags, SameHold, SameBoard
<1>5. /\ m.caps <=> a.caps
      /\ ~m.garbled /\ m.report \subseteq a.report /\ m.edges = a.edges
      /\ m.open => a.open
  BY <1>0, <1>3, <1>4 DEF HostSaw, Hosted, Pressed
<1>6. Hosted(m)
  BY <1>0, <1>4, <1>5 DEF Hosted
<1> QED
  BY <1>3, <1>4, <1>5, <1>6 DEF Given, AsideTaps

LEMMA Releases ==
  ASSUME NEW s, Board(s), Hosted(s), Placed(s), s.eng.phase = "release",
         NEW t, t = ReleaseTransients(s)
  PROVE  Done(s, t)
<1> DEFINE a == AllGiven(s)
           m == IF a.eng.entry /\ a.eng.mode # MacOS THEN Send(ModsGone(a)) ELSE a
           r == s.eng.after
<1>0. s \in StateType /\ r \in {"ready", "second", "press", "cleanup"} /\ Stands(s, r)
  <2>1. s \in StateType
    BY DEF Board
  <2>2. Stands(s, s.eng.after)
    BY DEF Placed, At, Goes
  <2> QED
    BY <2>1, <2>2, Typed
<1>1. Given(s, a) /\ a.eng.transient = <<>>
  BY AllGivenBack
<1>2. t = Wait(m, a.eng.after) /\ r = s.eng.after
  BY Zenon DEF ReleaseTransients, AllGiven, ModsGone
<1>3. m = IF a.eng.entry /\ a.eng.mode # MacOS THEN Send(ModsGone(a)) ELSE a
  OBVIOUS
<1> HIDE DEF a, m, r
<1>4. a.eng.after = r
  BY <1>1, <1>2 DEF Given, AsideTaps
<1>5. /\ Board(m) /\ Hosted(m) /\ m.report \subseteq s.report /\ m.edges = s.edges
      /\ m.capsWas = s.capsWas /\ m.eng.transient = <<>>
      /\ m.eng.prog = s.eng.prog /\ m.eng.taps = s.eng.taps /\ m.eng.mode = s.eng.mode
      /\ m.eng.entry = s.eng.entry /\ m.eng.escaped = s.eng.escaped /\ m.eng.neutral = s.eng.neutral
      /\ m.eng.toggled = s.eng.toggled /\ m.eng.holds = s.eng.holds
      /\ m.eng.mode # MacOS /\ m.open => s.open
  <2>1. CASE a.eng.entry /\ a.eng.mode # MacOS
    <3>1. m = Send(ModsGone(a))
      BY <1>3, <2>1
    <3> QED
      BY <1>1, <2>1, <3>1, ModsShown
  <2>2. CASE ~(a.eng.entry /\ a.eng.mode # MacOS)
    <3>1. m = a
      BY <1>3, <2>2
    <3> QED
      BY <1>1, <3>1 DEF Given, AsideTaps
  <2> QED
    BY <2>1, <2>2
<1>6. Stands(m, r)
  BY <1>0, <1>5, StandsStill
<1>7. Fits(s, m)
  BY <1>5 DEF Fits
<1>8. r \in Phases \ {"idle", "waiting"} /\ r # "release"
  BY <1>0 DEF Phases
<1>9. Stands(m, IF r = "release" THEN m.eng.after ELSE r) /\ t = Wait(m, r)
  BY <1>2, <1>4, <1>6, <1>8
<1> QED
  BY <1>5, <1>7, <1>8, <1>9, GoesOn

------------------------------------------------------------------------------
(* Clean-up, and every transition.                                           *)

LEMMA CleansOne ==
  ASSUME NEW s, Board(s), Hosted(s), ~s.refused, s.eng.phase = "cleanup",
         NEW t, t = CleanupOne(s)
  PROVE  Done(s, t)
<1>0. /\ s \in StateType /\ s.eng.holds \in Seq(Plain) /\ s.eng.transient \in Seq(Keys)
      /\ s.eng.entry \in BOOLEAN /\ Once(s.eng.holds) /\ s.eng.phase # "idle"
  <2>1. s \in StateType /\ Once(s.eng.holds)
    BY DEF Board
  <2> QED
    BY <2>1, Typed
<1>1. CASE s.eng.transient # <<>>
  <2>1. t = ReleaseLast(s)
    BY <1>1 DEF CleanupOne
  <2>2. Given(s, s)
    BY DEF Given, AsideTaps
  <2>3. Given(s, t)
    BY <1>1, <2>1, <2>2, GivenMore
  <2>4. t.eng.phase = "cleanup" /\ Board(t) /\ Hosted(t) /\ Fits(s, t)
    BY <2>3 DEF Given, AsideTaps, Fits
  <2> QED
    BY <2>4, PlacedCleanup DEF Done
<1>2. CASE s.eng.transient = <<>> /\ s.eng.entry
  <2>1. t = Unwind(s)
    BY <1>2 DEF CleanupOne
  <2> QED
    BY <1>2, <2>1, Unwinds
<1>3. CASE s.eng.transient = <<>> /\ ~s.eng.entry /\ s.eng.holds # <<>>
  <2> DEFINE q == Front(s.eng.holds)
             k == Last(s.eng.holds)
             d == -1
             b == IF d = 1 THEN Take(HoldsIs(s, q), k) ELSE Drop(HoldsIs(s, q), k)
  <2>1. t = Send(b)
    <3>1. t = Send(Drop(HoldsIs(s, q), k))
      BY <1>3 DEF CleanupOne, HoldsIs
    <3>2. b = Drop(HoldsIs(s, q), k)
      OBVIOUS
    <3> HIDE DEF b
    <3> QED
      BY <3>1, <3>2
  <2>2. /\ q \in Seq(Plain) /\ Once(q) /\ k \in Plain /\ k \in ToSet(s.eng.holds)
        /\ ToSet(q) = ToSet(s.eng.holds) \ {k}
    <3> DEFINE h == s.eng.holds
    <3>1. h \in Seq(Plain) /\ h # <<>> /\ Once(h) /\ q = Front(h) /\ k = Last(h) /\ h = s.eng.holds
      BY <1>0, <1>3
    <3> HIDE DEF h, q, k
    <3>2. /\ Front(h) \in Seq(Plain) /\ Last(h) \in Plain /\ Last(h) \in ToSet(h)
          /\ ToSet(h) = ToSet(Front(h)) \cup {Last(h)}
          /\ Once(Front(h)) /\ Last(h) \notin ToSet(Front(h))
      BY <3>1, FrontIn
    <3> QED
      BY <3>1, <3>2
  <2>3. /\ b = (IF d = 1 THEN Take(HoldsIs(s, q), k) ELSE Drop(HoldsIs(s, q), k))
        /\ d \in {1, -1} /\ d # 1 /\ (d = -1 => k \in ToSet(s.eng.holds))
    BY <2>2
  <2> HIDE DEF q, k, b, d
  <2>4. HoldsMoved(s, t, q) /\ Pressed(s, t) \subseteq (IF d = 1 THEN {k} ELSE {})
    BY <2>1, <2>2, <2>3, HoldsMove
  <2>5. /\ Board(t) /\ AsideHolds(s.eng, t.eng) /\ t.capsWas = s.capsWas
        /\ HostSaw(s, t) /\ Pressed(s, t) = {}
    BY <2>3, <2>4 DEF HoldsMoved
  <2>6. /\ ~t.eng.entry /\ t.eng.alt = s.eng.alt /\ t.eng.toggled = s.eng.toggled
        /\ t.eng.phase = "cleanup"
    BY <1>3, <2>5 DEF AsideHolds
  <2>7. Hosted(t)
    BY <1>3, <2>5, <2>6, Outside
  <2>8. Fits(s, t)
    BY <2>5 DEF Fits, HostSaw, Pressed
  <2> QED
    BY <2>5, <2>6, <2>7, <2>8, PlacedCleanup DEF Done
<1>4. CASE s.eng.transient = <<>> /\ ~s.eng.entry /\ s.eng.holds = <<>>
  <2>1. t = Finish(s)
    BY <1>4 DEF CleanupOne
  <2> QED
    BY <1>4, <2>1, Finishes
<1> QED
  BY <1>0, <1>1, <1>2, <1>3, <1>4

LEMMA PhaseSplit ==
  ASSUME NEW s, NEW loads, s.eng.phase \in Phases, s.eng.phase # "idle", NEW t, t = Transition(s, loads)
  PROVE  \/ s.eng.phase = "waiting" /\ t = [s EXCEPT !.eng.phase = s.eng.resume]
         \/ s.eng.phase = "ready" /\ t = ExecuteReady(s, loads)
         \/ s.eng.phase = "release" /\ t = ReleaseTransients(s)
         \/ s.eng.phase = "second" /\ t = SecondStroke(s)
         \/ s.eng.phase = "press" /\ t = UnicodePress(s)
         \/ s.eng.phase = "finish" /\ t = Wait(Neutral(s), "restore")
         \/ s.eng.phase = "restore" /\ t = Wait(Restored(s), "ready")
         \/ s.eng.phase = "cleanup" /\ t = CleanupOne(s)
BY DEF Transition, Phases

LEMMA Transits ==
  ASSUME NEW s, Board(s), Hosted(s), Placed(s), ~s.refused, s.eng.phase # "idle",
         NEW loads \in BOOLEAN, NEW t, t = Transition(s, loads)
  PROVE  Done(s, t)
<1>0. s.eng.phase \in Phases
  <2>1. s \in StateType
    BY DEF Board
  <2> QED
    BY <2>1, Typed
<1>1. CASE s.eng.phase = "waiting" /\ t = [s EXCEPT !.eng.phase = s.eng.resume]
  BY <1>1, WaitEnds
<1>2. CASE s.eng.phase = "ready" /\ t = ExecuteReady(s, loads)
  BY <1>2, Executes
<1>3. CASE s.eng.phase = "release" /\ t = ReleaseTransients(s)
  BY <1>3, Releases
<1>4. CASE s.eng.phase = "second" /\ t = SecondStroke(s)
  BY <1>4, SecondStrikes
<1>5. CASE s.eng.phase = "press" /\ t = UnicodePress(s)
  <2>1. Stands(s, "press") /\ s.eng.transient = <<>>
    BY <1>5 DEF Placed, At, Goes
  <2>2. CASE s.eng.taps = <<>>
    <3>1. t = [s EXCEPT !.eng.phase = "finish"]
      BY <1>5, <2>2 DEF UnicodePress
    <3> QED
      BY <2>1, <2>2, <3>1, PressesLast
  <2>3. CASE s.eng.taps # <<>>
    BY <1>5, <2>1, <2>3, PressesOne
  <2> QED
    BY <2>2, <2>3
<1>6. CASE s.eng.phase = "finish" /\ t = Wait(Neutral(s), "restore")
  BY <1>6, EndsEntry
<1>7. CASE s.eng.phase = "restore" /\ t = Wait(Restored(s), "ready")
  BY <1>7, Restores
<1>8. CASE s.eng.phase = "cleanup" /\ t = CleanupOne(s)
  BY <1>8, CleansOne
<1> QED
  BY <1>0, <1>1, <1>2, <1>3, <1>4, <1>5, <1>6, <1>7, <1>8, PhaseSplit

------------------------------------------------------------------------------
(* Steps.                                                                    *)

NowIs(s) == [s EXCEPT !.edges = {}]
BecameIs(s) == [s EXCEPT !.edges = @ \ s.report, !.refused = FALSE]

(* Alike but for what the host saw within the step.                          *)
Alike(s, t) ==
  /\ t \in StateType /\ t.eng = s.eng /\ t.ledger = s.ledger /\ t.live = s.live
  /\ t.report = s.report /\ t.suppressed = s.suppressed
  /\ t.caps = s.caps /\ t.capsWas = s.capsWas /\ t.open = s.open /\ t.garbled = s.garbled

(* What the host sees pressed is a lease's, or somebody presses it now.      *)
Pressing(s, t) ==
  (t.report \ s.report) \cup t.edges \subseteq Leases(t) \cup {k \in LiveKeys : t.live[k] > s.live[k]}
Sound(s) == Board(s) /\ Hosted(s) /\ Placed(s)
Keeps(s, t) == Sound(t) /\ ~t.refused /\ Pressing(s, t)

LEMMA AlikeKeeps ==
  ASSUME NEW s, NEW t, Alike(s, t), Sound(s)
  PROVE  Sound(t) /\ Leases(t) = Leases(s)
<1>1. Leases(t) = Leases(s) /\ Owned(t) = Owned(s)
  BY DEF Alike, Leases, Owned
<1>2. Board(s) /\ Hosted(s) /\ Placed(s)
  BY DEF Sound
<1>3. Shown(t)
  BY <1>1, <1>2 DEF Board, Shown, Alike
<1>4. Ledger(t)
  BY <1>2 DEF Board, Ledger, Live, Alike
<1>5. Board(t)
  BY <1>2, <1>3, <1>4 DEF Board, Alike
<1>6. Hosted(t)
  BY <1>2 DEF Hosted, Alike
<1>7. At(t) = At(s) /\ Goes(t) = Goes(s)
  BY DEF Alike, At, Goes
<1>8. Stands(s, Goes(s)) => Stands(t, Goes(t))
  BY <1>7, StandsStill DEF Alike
<1>9. Placed(t)
  BY <1>2, <1>7, <1>8 DEF Placed, Alike
<1> QED
  BY <1>1, <1>5, <1>6, <1>9 DEF Sound

LEMMA NowKeeps ==
  ASSUME NEW s, Sound(s), NEW n, n = NowIs(s)
  PROVE  /\ Sound(n) /\ n \in StateType /\ n.eng = s.eng /\ n.report = s.report /\ n.edges = {}
         /\ n.ledger = s.ledger /\ n.live = s.live /\ n.refused = s.refused
<1>1. s \in StateType
  BY DEF Sound, Board
<1>2. /\ Alike(s, n) /\ n.edges = {} /\ n.refused = s.refused
  BY <1>1 DEF NowIs, Alike, StateType
<1> QED
  BY <1>2, AlikeKeeps DEF Alike

LEMMA BecameKeeps ==
  ASSUME NEW s, NEW r, Sound(r), NEW t, t = BecameIs(r), Pressing(s, r)
  PROVE  Keeps(s, t)
<1>1. r \in StateType
  BY DEF Sound, Board
<1>2. Alike(r, t) /\ t.edges = r.edges \ r.report /\ ~t.refused
  BY <1>1 DEF BecameIs, Alike, StateType
<1>3. Sound(t) /\ Leases(t) = Leases(r)
  BY <1>2, AlikeKeeps
<1>4. Pressing(s, t)
  BY <1>2, <1>3 DEF Pressing, Alike
<1> QED
  BY <1>2, <1>3, <1>4 DEF Keeps

(* What a step of the engine comes to.                                       *)
LEMMA DoneKeeps ==
  ASSUME NEW s, Sound(s), NEW n, n = NowIs(s), NEW r, Done(n, r), NEW t, t = BecameIs(r)
  PROVE  Keeps(s, t)
<1>1. n.report = s.report /\ n.edges = {}
  BY NowKeeps
<1>2. Sound(r) /\ Pressing(s, r)
  BY <1>1 DEF Done, Sound, Fits, Pressing
<1> QED
  BY <1>2, BecameKeeps

LEMMA NowDone ==
  ASSUME NEW s, Sound(s), NEW n, n = NowIs(s)
  PROVE  Done(n, n)
<1>1. Sound(n)
  BY NowKeeps
<1> QED
  BY <1>1 DEF Done, Sound, Fits

------------------------------------------------------------------------------
(* The rest of the keyboard takes and returns a usage.                       *)

LiveStep(s, u, k, d) ==
  /\ u \in StateType /\ u.eng = s.eng /\ SameHost(s, u) /\ u.capsWas = s.capsWas /\ u.refused = s.refused
  /\ u.ledger[k] = s.ledger[k] + d /\ \A m \in Keys \ {k} : u.ledger[m] = s.ledger[m]
  /\ u.live[k] = s.live[k] + d /\ \A m \in LiveKeys \ {k} : u.live[m] = s.live[m]

(* The report after it, and what it may press.                               *)
LiveNews(k, d) == IF d = 1 THEN {k} ELSE {}
LiveShown(s, u, k, d) == IF s.ledger[k] = (IF d = 1 THEN 0 ELSE 1) THEN Send(u) ELSE u

LEMMA LiveLedger ==
  ASSUME NEW s, Board(s), NEW k \in LiveKeys, NEW d \in {1, -1}, NEW u, LiveStep(s, u, k, d)
  PROVE  Ledger(u) /\ Leases(u) = Leases(s) /\ Once(u.eng.holds)
<1>1. s \in StateType /\ k \in Keys /\ u.eng = s.eng
  BY KeysAssumption DEF Board, LiveStep
<1>2. ASSUME NEW m \in Keys
      PROVE  u.ledger[m] = Live(u, m) + One(m \in ToSet(u.eng.holds)) + Count(u.eng.transient, m)
                            + One(u.eng.alt /\ m = Alt)
  <2> DEFINE a == One(m \in ToSet(s.eng.holds))
             b == Count(s.eng.transient, m)
             c == One(s.eng.alt /\ m = Alt)
  <2>1. s.ledger[m] = Live(s, m) + a + b + c
    BY DEF Board, Ledger
  <2>2. a \in Int /\ b \in Int /\ c \in Int /\ Live(s, m) \in Int
    <3>1. s.eng.transient \in Seq(Keys) /\ s.live \in [LiveKeys -> Int]
      BY <1>1, Typed
    <3> QED
      BY <3>1, CountIn DEF One, Live
  <2> HIDE DEF a, b, c
  <2>3. u.ledger[m] = Live(u, m) + a + b + c
    <3>1. CASE m = k
      <4>1. Live(s, m) = s.live[k] /\ Live(u, m) = u.live[k]
        BY <3>1 DEF Live
      <4>2. u.ledger[m] = s.ledger[m] + d /\ u.live[k] = s.live[k] + d
        BY <3>1 DEF LiveStep
      <4> QED
        BY <2>1, <2>2, <4>1, <4>2
    <3>2. CASE m # k
      <4>1. Live(u, m) = Live(s, m) /\ u.ledger[m] = s.ledger[m]
        BY <3>2 DEF Live, LiveStep
      <4> QED
        BY <2>1, <4>1
    <3> QED
      BY <3>1, <3>2
  <2> QED
    BY <1>1, <2>3 DEF a, b, c
<1> QED
  BY <1>1, <1>2 DEF Ledger, Leases, Board

LEMMA LiveOwned ==
  ASSUME NEW s, Board(s), NEW k \in LiveKeys, NEW d \in {1, -1}, NEW u, LiveStep(s, u, k, d)
  PROVE  /\ Owned(u) \subseteq Owned(s) \cup LiveNews(k, d)
         /\ s.ledger[k] # (IF d = 1 THEN 0 ELSE 1) => Owned(u) = Owned(s)
<1>1. k \in Keys /\ s.ledger[k] \in Int
  <2>1. s \in StateType /\ k \in Keys
    BY KeysAssumption DEF Board
  <2> QED
    BY <2>1, Typed
<1>2. ASSUME NEW m \in Keys, m # k PROVE m \in Owned(u) <=> m \in Owned(s)
  BY <1>2 DEF Owned, LiveStep
<1>3. u.ledger[k] = s.ledger[k] + d
  BY DEF LiveStep
<1>4. Owned(u) \subseteq Keys /\ Owned(s) \subseteq Keys
  BY DEF Owned
<1>5. k \in Owned(u) => k \in Owned(s) \cup LiveNews(k, d)
  BY <1>1, <1>3 DEF Owned, LiveNews
<1>6. s.ledger[k] # (IF d = 1 THEN 0 ELSE 1) => (k \in Owned(u) <=> k \in Owned(s))
  BY <1>1, <1>3 DEF Owned
<1> QED
  BY <1>2, <1>4, <1>5, <1>6

(* A live usage is none of those that steer an entry.                        *)
LEMMA LiveHosted ==
  ASSUME NEW s, NEW t, Hosted(s), HostSaw(s, t), Special \cap Pressed(s, t) = {},
         t.eng = s.eng, t.capsWas = s.capsWas
  PROVE  Hosted(t) /\ (t.eng.mode # MacOS /\ t.open => s.open)
<1>0. Caps \notin Pressed(s, t) /\ Digit \notin Pressed(s, t) /\ Trigger \notin Pressed(s, t)
  BY DEF Special
<1>1. /\ t.caps <=> s.caps
      /\ ~t.garbled
      /\ t.eng.mode # MacOS /\ t.open => s.open
      /\ t.eng.mode = MacOS /\ t.open => (t.eng.entry /\ Alt \in t.eng.mods) \/ (s.open /\ ~t.eng.entry)
  BY <1>0 DEF HostSaw, Hosted
<1> QED
  BY <1>1 DEF Hosted

LEMMA LiveMoves ==
  ASSUME NEW s, Sound(s), NEW k \in LiveKeys, NEW d \in {1, -1}, NEW u, LiveStep(s, u, k, d),
         NEW t, t = LiveShown(s, u, k, d)
  PROVE  /\ Sound(t) /\ t.live[k] = s.live[k] + d
         /\ t.report \subseteq s.report \cup LiveNews(k, d) /\ t.edges \subseteq s.edges \cup LiveNews(k, d)
<1>0. Board(s) /\ Hosted(s) /\ Placed(s) /\ u \in StateType /\ u.eng = s.eng /\ SameHost(s, u)
  BY DEF Sound, LiveStep
<1>1. Ledger(u) /\ Leases(u) = Leases(s) /\ Once(u.eng.holds)
  BY <1>0, LiveLedger
<1>2. /\ Owned(u) \subseteq Owned(s) \cup LiveNews(k, d)
      /\ s.ledger[k] # (IF d = 1 THEN 0 ELSE 1) => Owned(u) = Owned(s)
  BY <1>0, LiveOwned
<1>3. CASE s.ledger[k] # (IF d = 1 THEN 0 ELSE 1)
  <2>1. t = u /\ Owned(u) = Owned(s)
    BY <1>2, <1>3 DEF LiveShown
  <2>2. Shown(u)
    BY <1>0, <1>1, <2>1 DEF Board, Shown, SameHost
  <2>3. Board(u) /\ Hosted(u)
    BY <1>0, <1>1, <2>2 DEF Board, Hosted, SameHost, LiveStep
  <2>4. Stands(s, Goes(s)) => Stands(u, Goes(s))
    BY <1>0, StandsStill DEF LiveStep, SameHost
  <2>5. Placed(u)
    BY <1>0, <2>4 DEF Placed, At, Goes
  <2> QED
    BY <1>0, <2>1, <2>3, <2>5 DEF Sound, LiveStep, SameHost
<1>4. CASE s.ledger[k] = (IF d = 1 THEN 0 ELSE 1)
  <2> DEFINE new == LiveNews(k, d)
  <2>1. t = Send(u) /\ u.eng.protected = s.eng.protected
    BY <1>0, <1>4 DEF LiveShown
  <2>2. Leases(u) \subseteq Leases(s) \cup new /\ Owned(u) \subseteq Owned(s) \cup new \cup Mods
    BY <1>1, <1>2
  <2>3. new \cap Special = {}
    BY KeysAssumption DEF LiveNews, Special
  <2> HIDE DEF new
  <2>4. /\ Board(t) /\ t.eng = u.eng /\ SameBoard(u, t)
        /\ HostSaw(s, t) /\ Pressed(s, t) \subseteq new
    BY <1>0, <1>1, <2>1, <2>2, BoardMoves
  <2>5. t.eng = s.eng /\ t.capsWas = s.capsWas /\ t.live = u.live
    BY <1>0, <2>4 DEF SameBoard, LiveStep
  <2>6. Hosted(t) /\ (t.eng.mode # MacOS /\ t.open => s.open)
    BY <1>0, <2>3, <2>4, <2>5, LiveHosted
  <2>7. Stands(s, Goes(s)) => Stands(t, Goes(s))
    BY <2>5, <2>6, StandsStill
  <2>8. Placed(t)
    BY <1>0, <2>5, <2>7 DEF Placed, At, Goes
  <2>9. t.report \subseteq s.report \cup new /\ t.edges \subseteq s.edges \cup new
    BY <2>4 DEF HostSaw, Pressed
  <2>10. t.live[k] = s.live[k] + d
    BY <2>5 DEF LiveStep
  <2> QED
    BY <2>4, <2>6, <2>8, <2>9, <2>10 DEF Sound, new
<1> QED
  BY <1>3, <1>4

LEMMA LiveKeeps ==
  ASSUME NEW s, Sound(s), NEW n, n = NowIs(s), NEW k \in LiveKeys, NEW d \in {1, -1},
         NEW u, LiveStep(n, u, k, d), NEW r, r = LiveShown(n, u, k, d), NEW t, t = BecameIs(r)
  PROVE  Keeps(s, t)
<1>1. /\ Sound(n) /\ n \in StateType /\ n.report = s.report /\ n.edges = {} /\ n.live = s.live
  BY NowKeeps
<1>2. /\ Sound(r) /\ r.live[k] = n.live[k] + d
      /\ r.report \subseteq n.report \cup LiveNews(k, d) /\ r.edges \subseteq n.edges \cup LiveNews(k, d)
  BY <1>1, LiveMoves
<1>3. n.live[k] \in Int
  BY <1>1, Typed
<1>4. Pressing(s, r)
  <2>1. LiveNews(k, d) \subseteq {m \in LiveKeys : r.live[m] > s.live[m]}
    BY <1>1, <1>2, <1>3 DEF LiveNews
  <2> QED
    BY <1>1, <1>2, <2>1 DEF Pressing
<1> QED
  BY <1>2, <1>4, BecameKeeps

------------------------------------------------------------------------------
(* A macro starts.                                                           *)

StartEng(e, prog, mode, protects) ==
  /\ e \in EngType /\ e.phase = "ready" /\ e.prog = prog /\ e.mode = mode /\ (e.protected <=> protects)
  /\ ~e.entry /\ ~e.alt /\ ~e.toggled /\ e.holds = <<>> /\ e.transient = <<>>

LEMMA StartPut ==
  ASSUME NEW prog \in Seq(StepType), NEW mode \in 0 .. 3, NEW p \in BOOLEAN,
         NEW e, e = [Idle EXCEPT !.phase = "ready", !.prog = prog, !.mode = mode, !.protected = p]
  PROVE  StartEng(e, prog, mode, p)
<1> DEFINE i == Idle
<1>1. /\ i \in EngType /\ ~i.entry /\ ~i.alt /\ ~i.toggled /\ i.holds = <<>> /\ i.transient = <<>>
      /\ e = [i EXCEPT !.phase = "ready", !.prog = prog, !.mode = mode, !.protected = p]
  BY IdleIs
<1> HIDE DEF i
<1>2. e \in EngType
  BY <1>1, ZenonT(40) DEF EngType, Phases
<1>3. /\ e.phase = "ready" /\ e.prog = prog /\ e.mode = mode /\ e.protected = p /\ e.entry = i.entry
      /\ e.alt = i.alt /\ e.toggled = i.toggled /\ e.holds = i.holds /\ e.transient = i.transient
  BY <1>1 DEF EngType
<1> QED
  BY <1>1, <1>2, <1>3 DEF StartEng

LEMMA ProtectsIs == ASSUME NEW bank PROVE Protects(bank) \in BOOLEAN
BY DEF Protects

(* The engine the windows leave, and its first report.                       *)
StartIs(n, bank, mode) ==
  [n EXCEPT !.eng = [Idle EXCEPT !.phase = "ready", !.prog = bank.steps,
                                 !.mode = IF NeedsUnicode(bank) THEN mode ELSE 0,
                                 !.protected = Protects(bank)]]

LEMMA StartBoard ==
  ASSUME NEW n, Sound(n), n.eng = Idle, NEW e, NEW prog, NEW mode, NEW p, StartEng(e, prog, mode, p),
         Legal(prog, {}), NEW u, u = [n EXCEPT !.eng = e]
  PROVE  /\ u \in StateType /\ u.eng = e /\ SameBoard(n, u) /\ SameHost(n, u)
         /\ Ledger(u) /\ Once(u.eng.holds) /\ Leases(u) = {} /\ Leases(n) = {} /\ Owned(u) = Owned(n)
         /\ Hosted(u) /\ Stands(u, "ready")
<1>1. n \in StateType /\ Ledger(n) /\ Hosted(n)
  BY DEF Sound, Board
<1>2. /\ e \in EngType /\ e.holds = <<>> /\ e.transient = <<>> /\ ~e.alt /\ ~e.entry /\ ~e.toggled
      /\ e.prog = prog
  BY DEF StartEng
<1>3. u \in StateType /\ u.eng = e /\ SameBoard(n, u) /\ SameHost(n, u)
  BY <1>1, <1>2, EngPut
<1>4. /\ ~n.eng.entry /\ ~n.eng.alt /\ ~n.eng.toggled /\ n.eng.holds = <<>> /\ n.eng.transient = <<>>
  BY IdleIs
<1>5. /\ ToSet(u.eng.holds) = {} /\ ToSet(u.eng.transient) = {} /\ Once(u.eng.holds)
      /\ ToSet(n.eng.holds) = {} /\ ToSet(n.eng.transient) = {}
  BY <1>2, <1>3, <1>4, NoneHeld
<1>6. Ledger(u)
  <2> SUFFICES ASSUME NEW k \in Keys
               PROVE  u.ledger[k] = Live(u, k) + One(k \in ToSet(u.eng.holds)) + Count(u.eng.transient, k)
                                      + One(u.eng.alt /\ k = Alt)
    BY DEF Ledger
  <2>1. n.ledger[k] = Live(n, k) + One(k \in ToSet(n.eng.holds)) + Count(n.eng.transient, k)
                        + One(n.eng.alt /\ k = Alt)
    BY <1>1 DEF Ledger
  <2>2. Live(u, k) = Live(n, k) /\ u.ledger = n.ledger
    BY <1>3 DEF Live, SameBoard
  <2>3. One(k \in ToSet(u.eng.holds)) = One(k \in ToSet(n.eng.holds))
    BY <1>5
  <2>4. Count(u.eng.transient, k) = Count(n.eng.transient, k)
    BY <1>2, <1>3, <1>4
  <2>5. One(u.eng.alt /\ k = Alt) = One(n.eng.alt /\ k = Alt)
    BY <1>2, <1>3, <1>4 DEF One
  <2> QED
    BY <2>1, <2>2, <2>3, <2>4, <2>5
<1>7. Hosted(u)
  BY <1>1, <1>2, <1>3, <1>4 DEF Hosted, SameHost, SameBoard
<1>8. Stands(u, "ready")
  <2>1. Legal(u.eng.prog, ToSet(u.eng.holds))
    BY <1>2, <1>3, <1>5
  <2> QED
    BY <1>2, <1>3, <2>1 DEF Stands
<1> QED
  BY <1>3, <1>5, <1>6, <1>7, <1>8 DEF Leases, Owned, SameBoard

LEMMA Starts ==
  ASSUME NEW n, Sound(n), n.eng.phase = "idle", NEW bank \in BankType, NEW mode \in 0 .. 3,
         Legal(bank.steps, {}), NEW t, t = StartWindows(n, bank, mode)
  PROVE  Done(n, t)
<1> DEFINE host == IF NeedsUnicode(bank) THEN mode ELSE 0
           p == Protects(bank)
           e == [Idle EXCEPT !.phase = "ready", !.prog = bank.steps, !.mode = host, !.protected = p]
           u == [n EXCEPT !.eng = e]
           m == Send(u)
           r == "ready"
           prog == bank.steps
<1>1. t = IF p THEN Wait(m, r) ELSE u
  BY Zenon DEF StartWindows
<1>2. /\ u = [n EXCEPT !.eng = e] /\ m = Send(u) /\ r = "ready" /\ r \in Phases \ {"idle", "waiting"}
      /\ prog = bank.steps
  BY DEF Phases
<1>3. p \in BOOLEAN /\ host \in 0 .. 3 /\ prog \in Seq(StepType)
  <2>1. p \in BOOLEAN
    BY ProtectsIs
  <2>2. prog \in Seq(StepType)
    BY DEF BankType
  <2>3. host \in 0 .. 3
    OBVIOUS
  <2> QED
    BY <2>1, <2>2, <2>3
<1>4. e = [Idle EXCEPT !.phase = "ready", !.prog = prog, !.mode = host, !.protected = p]
  OBVIOUS
<1> HIDE DEF host, p, e, u, m, r, prog
<1>5. StartEng(e, prog, host, p)
  BY <1>3, <1>4, StartPut
<1>6. Board(n) /\ Hosted(n) /\ n.eng = Idle
  BY DEF Sound, Placed
<1>7. /\ u \in StateType /\ u.eng = e /\ SameBoard(n, u) /\ SameHost(n, u)
      /\ Ledger(u) /\ Once(u.eng.holds) /\ Leases(u) = {} /\ Leases(n) = {} /\ Owned(u) = Owned(n)
      /\ Hosted(u) /\ Stands(u, "ready")
  BY <1>2, <1>5, <1>6, StartBoard
<1>8. /\ e.phase = "ready" /\ (e.protected <=> p) /\ ~e.entry /\ e.transient = <<>> /\ e \in EngType
      /\ ~n.eng.protected
  BY <1>5, <1>6, IdleIs DEF StartEng
<1>9. CASE ~p
  <2>1. t = u
    BY <1>1, <1>9
  <2>2. Shown(u)
    BY <1>6, <1>7, <1>8, <1>9 DEF Shown, Board, SameHost
  <2>3. Placed(u)
    BY <1>7, <1>8 DEF Placed, At, Goes
  <2>4. Fits(n, u)
    BY <1>7 DEF Fits, SameHost
  <2> QED
    BY <1>7, <2>1, <2>2, <2>3, <2>4 DEF Done, Board
<1>10. CASE p
  <2>1. t = Wait(m, r)
    BY <1>1, <1>10
  <2>2. /\ m \in StateType /\ m.eng = e /\ SameBoard(u, m) /\ Shown(m) /\ HostSaw(u, m)
    BY <1>2, <1>7, Sends DEF Sent
  <2>3. Leases(m) = {} /\ m.report = {}
    BY <1>7, <1>8, <1>10, <2>2 DEF Leases, Shown
  <2>4. Pressed(u, m) = {} /\ m.edges = n.edges
    BY <1>7, <2>2, <2>3 DEF Pressed, HostSaw, SameHost
  <2>5. Hosted(m)
    <3>1. /\ ~u.eng.entry /\ Caps \notin Pressed(u, m) /\ Trigger \notin Pressed(u, m) /\ ~m.eng.entry
          /\ m.eng.alt = u.eng.alt /\ m.eng.toggled = u.eng.toggled /\ m.capsWas = u.capsWas
      BY <1>7, <1>8, <2>2, <2>4 DEF SameBoard
    <3> QED
      BY <1>7, <2>2, <3>1, Outside
  <2>6. Ledger(m) /\ Once(m.eng.holds)
    BY <1>7, <2>2 DEF Ledger, Live, SameBoard
  <2>7. Stands(m, IF r = "release" THEN m.eng.after ELSE r)
    BY <1>2, <1>7, <1>8, <2>2 DEF Stands
  <2>8. Board(m) /\ Fits(n, m) /\ m.eng.transient = <<>>
    BY <1>8, <2>2, <2>3, <2>4, <2>6 DEF Board, Fits
  <2> QED
    BY <1>2, <2>1, <2>5, <2>7, <2>8, GoesOn
<1> QED
  BY <1>3, <1>9, <1>10

------------------------------------------------------------------------------
(* The invariant.                                                            *)

SlotType == [bank : Programs, invalid : BOOLEAN, moved : BOOLEAN]

EngineInv == Sound(st) /\ ~st.refused /\ slot \in SlotType

LEMMA Initially == Init => EngineInv
<1> SUFFICES ASSUME Init PROVE EngineInv
  OBVIOUS
<1>1. PICK caps \in BOOLEAN :
        st = [eng |-> Idle, ledger |-> [k \in Keys |-> 0], live |-> [k \in LiveKeys |-> 0],
              report |-> {}, suppressed |-> {}, refused |-> FALSE,
              caps |-> caps, capsWas |-> caps, open |-> FALSE, garbled |-> FALSE, edges |-> {}]
  BY DEF Init
<1> DEFINE e == Idle
<1>2. /\ st \in StateType /\ st.eng = e /\ st.report = {} /\ st.suppressed = {} /\ ~st.refused
      /\ (st.caps <=> st.capsWas) /\ ~st.open /\ ~st.garbled
      /\ st.ledger = [k \in Keys |-> 0] /\ st.live = [k \in LiveKeys |-> 0]
  <2>1. e \in EngType
    BY IdleIs
  <2> HIDE DEF e
  <2> QED
    BY <1>1, <2>1 DEF StateType, e
<1>3. /\ ~e.protected /\ ~e.entry /\ ~e.alt /\ ~e.toggled /\ e.holds = <<>> /\ e.transient = <<>>
      /\ e = Idle
  BY IdleIs
<1> HIDE DEF e
<1>4. ToSet(st.eng.holds) = {} /\ Once(st.eng.holds) /\ ToSet(st.eng.transient) = {}
      /\ \A k : Count(st.eng.transient, k) = 0
  BY <1>2, <1>3, NoneHeld
<1>5. Ledger(st)
  BY <1>2, <1>3, <1>4 DEF Ledger, Live, One
<1>6. Shown(st)
  <2>1. Owned(st) = {} /\ Leases(st) = {}
    BY <1>2, <1>4 DEF Owned, Leases
  <2> QED
    BY <1>2, <1>3, <2>1 DEF Shown
<1>7. Board(st)
  BY <1>2, <1>4, <1>5, <1>6 DEF Board
<1>8. Hosted(st)
  BY <1>2, <1>3 DEF Hosted
<1>9. Placed(st)
  BY <1>2, <1>3, PlacedIdle
<1>10. slot \in SlotType
  BY DEF Init, SlotType
<1> QED
  BY <1>2, <1>7, <1>8, <1>9, <1>10 DEF EngineInv, Sound

NextKeeps == Keeps(st, st') /\ slot' \in SlotType

LEMMA NowIsNow == Now = NowIs(st)
BY DEF Now, NowIs

LEMMA Becoming == ASSUME NEW s, Becomes(s) PROVE st' = BecameIs(s)
BY DEF Becomes, BecameIs

LEMMA Scans == ASSUME EngineInv, NEW loads \in BOOLEAN, Scan(loads) PROVE NextKeeps
<1> DEFINE n == NowIs(st)
           r == Transition(n, loads)
<1>1. Sound(st) /\ n = NowIs(st) /\ r = Transition(n, loads) /\ ~st.refused /\ st.eng.phase # "idle"
  BY DEF EngineInv, Scan
<1>2. st' = BecameIs(r) /\ slot' = slot
  BY NowIsNow, Becoming DEF Scan
<1> HIDE DEF n, r
<1>3. Sound(n) /\ n.eng = st.eng /\ n.refused = st.refused
  BY <1>1, NowKeeps
<1>4. Done(n, r)
  <2>1. Board(n) /\ Hosted(n) /\ Placed(n) /\ ~n.refused /\ n.eng.phase # "idle"
    BY <1>1, <1>3 DEF Sound
  <2> QED
    BY <1>1, <2>1, Transits
<1>5. Keeps(st, st')
  BY <1>1, <1>2, <1>4, DoneKeeps
<1> QED
  BY <1>2, <1>5 DEF NextKeeps, EngineInv

LEMMA Cancels == ASSUME EngineInv, Cancel PROVE NextKeeps
<1> DEFINE n == NowIs(st)
           how == "cancelled"
           r == BeginCleanup(n, how)
<1>1. /\ Sound(st) /\ n = NowIs(st) /\ how \in {"error", "cancelled"} /\ r = BeginCleanup(n, how)
      /\ st.eng.phase # "idle"
  BY DEF EngineInv, Cancel
<1>2. st' = BecameIs(r) /\ slot' = slot
  BY NowIsNow, Becoming DEF Cancel
<1> HIDE DEF n, r, how
<1>3. Sound(n) /\ n.eng = st.eng
  BY <1>1, NowKeeps
<1>4. Done(n, n)
  BY <1>1, NowDone
<1>5. Done(n, r)
  BY <1>1, <1>3, <1>4, CleansUp DEF Done
<1>6. Keeps(st, st')
  BY <1>1, <1>2, <1>5, DoneKeeps
<1> QED
  BY <1>2, <1>6 DEF NextKeeps, EngineInv

LEMMA Plays == ASSUME EngineInv, NEW mode \in Hosts, Play(mode) PROVE NextKeeps
<1> DEFINE n == NowIs(st)
           tries == st.eng.phase = "idle" /\ ~KnownInvalid
           fails == tries /\ ~slot.bank.decodes /\ Preflight(slot.bank.steps, mode).ok
           starts == tries /\ slot.bank.decodes /\ slot.bank.steps # <<>> /\ Passes(slot.bank.steps, mode)
           r == IF starts THEN StartWindows(n, slot.bank, mode) ELSE n
<1>1. Sound(st) /\ n = NowIs(st) /\ slot \in SlotType
  BY DEF EngineInv
<1>2. st' = BecameIs(r)
  <2>1. Becomes(IF starts THEN StartWindows(Now, slot.bank, mode) ELSE Now)
    BY DEF Play
  <2>2. Becomes(r)
    BY <2>1, NowIsNow
  <2> HIDE DEF r
  <2> QED
    BY <2>2, Becoming
<1>3. slot' \in SlotType
  <2> DEFINE bad == KnownInvalid \/ fails
  <2>1. slot' = [slot EXCEPT !.moved = FALSE, !.invalid = bad]
    BY DEF Play
  <2>2. bad \in BOOLEAN
    OBVIOUS
  <2> HIDE DEF bad
  <2> QED
    BY <1>1, <2>1, <2>2 DEF SlotType
<1>4. r = (IF starts THEN StartWindows(n, slot.bank, mode) ELSE n)
  OBVIOUS
<1>5. starts => st.eng.phase = "idle" /\ Passes(slot.bank.steps, mode)
  OBVIOUS
<1> HIDE DEF n, r, starts, tries, fails
<1>6. Sound(n) /\ n.eng = st.eng
  BY <1>1, NowKeeps
<1>7. Done(n, r)
  <2>1. CASE starts
    <3>1. slot.bank \in BankType /\ mode \in 0 .. 3 /\ slot.bank.steps \in Seq(StepType)
      BY <1>1, ProgramsAssumption DEF SlotType, BankType
    <3>2. Legal(slot.bank.steps, {})
      BY <1>5, <2>1, <3>1, PassesLegal
    <3> QED
      BY <1>4, <1>5, <1>6, <2>1, <3>1, <3>2, Starts
  <2>2. CASE ~starts
    BY <1>1, <1>4, <2>2, NowDone
  <2> QED
    BY <2>1, <2>2
<1>8. Keeps(st, st')
  BY <1>1, <1>2, <1>7, DoneKeeps
<1> QED
  BY <1>3, <1>8 DEF NextKeeps

LEMMA Publishes == ASSUME EngineInv, NEW bank \in Programs, Publish(bank) PROVE NextKeeps
<1> DEFINE n == NowIs(st)
<1>1. Sound(st) /\ n = NowIs(st) /\ slot \in SlotType /\ ~st.refused
  BY DEF EngineInv
<1>2. st' = n /\ slot' = [slot EXCEPT !.bank = bank, !.moved = TRUE]
  BY NowIsNow DEF Publish
<1> HIDE DEF n
<1>3. Sound(n) /\ n.report = st.report /\ n.edges = {} /\ n.refused = st.refused
  BY <1>1, NowKeeps
<1>4. slot' \in SlotType
  BY <1>1, <1>2 DEF SlotType
<1>5. Keeps(st, st')
  BY <1>1, <1>2, <1>3 DEF Keeps, Pressing
<1> QED
  BY <1>4, <1>5 DEF NextKeeps

LiveIs(n, k, d) == [n EXCEPT !.live[k] = @ + d]

LEMMA LiveTaken ==
  ASSUME NEW n \in StateType, NEW k \in LiveKeys, NEW u, u = Take(LiveIs(n, k, 1), k)
  PROVE  LiveStep(n, u, k, 1)
<1> DEFINE v == LiveIs(n, k, 1)
<1>0. k \in Keys /\ n.live \in [LiveKeys -> Int]
  BY KeysAssumption, Typed
<1>1. /\ v \in StateType /\ v.eng = n.eng /\ SameHost(n, v) /\ v.capsWas = n.capsWas
      /\ v.refused = n.refused /\ v.ledger = n.ledger
      /\ v.live[k] = n.live[k] + 1 /\ \A m \in LiveKeys \ {k} : v.live[m] = n.live[m]
  BY <1>0 DEF StateType, SameHost, LiveIs
<1>2. u = Take(v, k)
  OBVIOUS
<1> HIDE DEF v
<1>3. /\ u \in StateType /\ u.eng = v.eng /\ SameHost(v, u)
      /\ u.live = v.live /\ u.refused = v.refused /\ u.capsWas = v.capsWas
      /\ u.ledger[k] = v.ledger[k] + 1
      /\ \A m \in Keys \ {k} : u.ledger[m] = v.ledger[m]
  BY <1>0, <1>1, <1>2, Takes, SMTT(30)
<1> QED
  BY <1>1, <1>3 DEF LiveStep, SameHost

LEMMA LiveDropped ==
  ASSUME NEW n \in StateType, NEW k \in LiveKeys, NEW u, u = Drop(LiveIs(n, k, -1), k)
  PROVE  LiveStep(n, u, k, -1)
<1> DEFINE v == LiveIs(n, k, -1)
<1>0. k \in Keys /\ n.live \in [LiveKeys -> Int] /\ n.ledger \in [Keys -> Int]
  BY KeysAssumption, Typed
<1>1. /\ v \in StateType /\ v.eng = n.eng /\ SameHost(n, v) /\ v.capsWas = n.capsWas
      /\ v.refused = n.refused /\ v.ledger = n.ledger
      /\ v.live[k] = n.live[k] + -1 /\ \A m \in LiveKeys \ {k} : v.live[m] = n.live[m]
  BY <1>0 DEF StateType, SameHost, LiveIs
<1>2. u = Drop(v, k)
  OBVIOUS
<1> HIDE DEF v
<1>3. /\ u \in StateType /\ u.eng = v.eng /\ SameHost(v, u)
      /\ u.live = v.live /\ u.refused = v.refused /\ u.capsWas = v.capsWas
      /\ u.ledger[k] = v.ledger[k] - 1
      /\ \A m \in Keys \ {k} : u.ledger[m] = v.ledger[m]
  BY <1>0, <1>1, <1>2, Drops, SMTT(30)
<1>4. u.ledger[k] = n.ledger[k] + -1 /\ u.live[k] = n.live[k] + -1
  BY <1>0, <1>1, <1>3
<1> QED
  BY <1>1, <1>3, <1>4 DEF LiveStep, SameHost

LEMMA LiveTakes == ASSUME EngineInv, NEW k \in LiveKeys, LiveTake(k) PROVE NextKeeps
<1> DEFINE n == NowIs(st)
           d == 1
           u == Take(LiveIs(n, k, d), k)
           r == IF st.ledger[k] = 0 THEN Send(u) ELSE u
<1>1. /\ Sound(st) /\ n = NowIs(st) /\ d \in {1, -1} /\ d = 1 /\ slot \in SlotType
      /\ u = Take(LiveIs(n, k, d), k) /\ r = IF st.ledger[k] = 0 THEN Send(u) ELSE u
  BY DEF EngineInv
<1>2. st' = BecameIs(r) /\ slot' = slot
  <2>1. Becomes(r)
    BY NowIsNow DEF LiveIs, LiveTake
  <2> HIDE DEF r
  <2> QED
    BY <2>1, Becoming DEF LiveTake
<1> HIDE DEF n, u, r, d
<1>3. n \in StateType /\ n.ledger = st.ledger
  BY <1>1, NowKeeps
<1>4. LiveStep(n, u, k, d)
  BY <1>1, <1>3, LiveTaken
<1>5. r = LiveShown(n, u, k, d)
  BY <1>1, <1>3 DEF LiveShown
<1>6. Keeps(st, st')
  BY <1>1, <1>2, <1>4, <1>5, LiveKeeps
<1> QED
  BY <1>1, <1>2, <1>6 DEF NextKeeps

LEMMA LiveDrops == ASSUME EngineInv, NEW k \in LiveKeys, LiveDrop(k) PROVE NextKeeps
<1> DEFINE n == NowIs(st)
           d == -1
           u == Drop(LiveIs(n, k, d), k)
           r == IF st.ledger[k] = 1 THEN Send(u) ELSE u
<1>1. /\ Sound(st) /\ n = NowIs(st) /\ d \in {1, -1} /\ d = -1 /\ d # 1 /\ slot \in SlotType
      /\ u = Drop(LiveIs(n, k, d), k) /\ r = IF st.ledger[k] = 1 THEN Send(u) ELSE u
  BY DEF EngineInv
<1>2. st' = BecameIs(r) /\ slot' = slot
  <2>1. Becomes(r)
    BY NowIsNow DEF LiveIs, LiveDrop
  <2> HIDE DEF r
  <2> QED
    BY <2>1, Becoming DEF LiveDrop
<1> HIDE DEF n, u, r, d
<1>3. n \in StateType /\ n.ledger = st.ledger
  BY <1>1, NowKeeps
<1>4. LiveStep(n, u, k, d)
  BY <1>1, <1>3, LiveDropped
<1>5. r = LiveShown(n, u, k, d)
  BY <1>1, <1>3 DEF LiveShown
<1>6. Keeps(st, st')
  BY <1>1, <1>2, <1>4, <1>5, LiveKeeps
<1> QED
  BY <1>1, <1>2, <1>6 DEF NextKeeps

LEMMA Nexts == ASSUME EngineInv, Next PROVE NextKeeps
<1>1. CASE \E loads \in BOOLEAN : Scan(loads)
  BY <1>1, Scans
<1>2. CASE Cancel
  BY <1>2, Cancels
<1>3. CASE \E mode \in Hosts : Play(mode)
  BY <1>3, Plays
<1>4. CASE \E bank \in Programs : Publish(bank)
  BY <1>4, Publishes
<1>5. CASE \E k \in LiveKeys : LiveTake(k) \/ LiveDrop(k)
  BY <1>5, LiveTakes, LiveDrops
<1> QED
  BY <1>1, <1>2, <1>3, <1>4, <1>5 DEF Next

(* The engine's books balance in every state: each usage's owners are the    *)
(* keyboard's, the macro's holds, its tap's keys and an entry's Option; the   *)
(* report shows what those owners should; the host's Caps Lock and entry are  *)
(* where the engine's phase says; what is left of the macro stays balanced.   *)
THEOREM EngineAccounted == Spec => []EngineInv
<1>1. Init => EngineInv
  BY Initially
<1>2. EngineInv /\ [Next]_vars => EngineInv'
  <2> SUFFICES ASSUME EngineInv, [Next]_vars PROVE EngineInv'
    OBVIOUS
  <2>1. CASE Next
    <3>1. NextKeeps
      BY <2>1, Nexts
    <3> QED
      BY <3>1 DEF NextKeeps, Keeps, EngineInv, Sound, Board, Hosted, Placed
  <2>2. CASE UNCHANGED vars
    BY <2>2 DEF vars, EngineInv
  <2> QED
    BY <2>1, <2>2
<1> QED
  BY <1>1, <1>2, PTL DEF Spec

LEMMA NothingLeft == EngineInv => NothingLeftBehind
<1> SUFFICES ASSUME EngineInv PROVE NothingLeftBehind
  OBVIOUS
<1>1. Board(st) /\ Hosted(st) /\ Placed(st) /\ Ledger(st)
  BY DEF EngineInv, Sound, Board
<1>2. ASSUME st.eng.phase = "idle"
      PROVE  /\ \A k \in Keys : st.ledger[k] = IF k \in LiveKeys THEN st.live[k] ELSE 0
             /\ st.caps = st.capsWas
  <2>1. st.eng = Idle
    BY <1>1, <1>2 DEF Placed
  <2>2. st.eng.holds = <<>> /\ st.eng.transient = <<>> /\ ~st.eng.alt /\ ~st.eng.toggled
    BY <2>1, IdleIs
  <2>3. ToSet(st.eng.holds) = {} /\ \A k : Count(st.eng.transient, k) = 0
    BY <2>2, NoneHeld
  <2>4. ASSUME NEW k \in Keys PROVE st.ledger[k] = IF k \in LiveKeys THEN st.live[k] ELSE 0
    <3>1. st.ledger[k] = Live(st, k) + One(k \in ToSet(st.eng.holds)) + Count(st.eng.transient, k)
                           + One(st.eng.alt /\ k = Alt)
      BY <1>1 DEF Ledger
    <3>2. Live(st, k) \in Int
      <4>1. st \in StateType
        BY <1>1 DEF Board
      <4>2. st.live \in [LiveKeys -> Int]
        BY <4>1, Typed
      <4> QED
        BY <4>2 DEF Live
    <3>3. st.ledger[k] = Live(st, k)
      BY <2>2, <2>3, <3>1, <3>2 DEF One
    <3> QED
      BY <3>3 DEF Live
  <2>5. st.caps = st.capsWas
    <3>1. st.caps <=> st.capsWas
      BY <1>1, <2>2 DEF Hosted
    <3>2. st.caps \in BOOLEAN /\ st.capsWas \in BOOLEAN
      BY <1>1, Typed DEF Board
    <3> QED
      BY <3>1, <3>2
  <2> QED
    BY <2>4, <2>5
<1> QED
  BY <1>1, <1>2 DEF NothingLeftBehind, Hosted

(* However a macro ends, a usage refused half-way through a chord or an       *)
(* entry cut short included, every owner it took has been given back and no   *)
(* one else's, Caps Lock is as it was, and the host is outside an entry.      *)
THEOREM MacroLeavesNothing == Spec => []NothingLeftBehind
BY EngineAccounted, NothingLeft, PTL

(* No step of the engine presses on the host but what the macro takes or      *)
(* somebody presses now, whatever was down when the macro began.              *)
THEOREM MacroPressesNothingOld == Spec => NoStaleEdge
<1> DEFINE Fresh == (st'.report \ st.report) \cup st'.edges
                      \subseteq ToSet(st'.eng.holds) \cup ToSet(st'.eng.transient)
                                 \cup {k \in LiveKeys : st'.live[k] > st.live[k]}
<1>1. EngineInv /\ [Next]_vars => [Fresh]_vars
  <2> SUFFICES ASSUME EngineInv, Next PROVE Fresh
    OBVIOUS
  <2>1. NextKeeps
    BY Nexts
  <2> QED
    BY <2>1 DEF NextKeeps, Keeps, Pressing, Leases
<1> QED
  BY <1>1, EngineAccounted, PTL DEF Spec, NoStaleEdge

------------------------------------------------------------------------------
(* Publication.  Committing a copy is decided by the generation alone, so the *)
(* invariant says what an unchanged generation tells: nothing was published   *)
(* meanwhile (GroupCopy), or only into the other slot (SlotCopy).             *)

Writing(s) == writer # None /\ writer.shape = s

\* A group's generation is odd exactly while it is being stored.
OddInFlight == Writing("group") <=> gen["group"] % 2 = 1

\* What readers may copy holds the packet last published.
SelectedIsCurrent ==
    /\ ~Writing("group") => store["group"] = Whole(current["group"])
    /\ store[Place("slot", gen["slot"])] = Whole(current["slot"])

\* What the writer has stored so far.
StoredSoFar ==
    writer # None =>
        \A f \in Fields \ writer.left : store[Target][f] = writer.packet

\* How far the group's generation has moved since it was observed.
Moved == IF Writing("group") THEN 2 * met - 1 ELSE 2 * met

GroupCopy ==
    Copying("group") =>
        /\ met <= During["group"]
        /\ Writing("group") => met > 0
        /\ \/ gen["group"] = reader.observed + Moved
           \/ gen["group"] = reader.observed + Moved - Gens
        /\ met = 0 => /\ current["group"] = reader.then
                      /\ \A f \in Fields \ reader.left : reader.staged[f] = reader.then

SlotCopy ==
    Copying("slot") =>
        /\ Writing("slot") => met = 1
        /\ met <= 1
        /\ \/ gen["slot"] = reader.observed
           \/ met = 1 /\ ~Writing("slot") /\ gen["slot"] = Advance(reader.observed)
        /\ store[Place("slot", reader.observed)] = Whole(reader.then)
        /\ \A f \in Fields \ reader.left : reader.staged[f] = reader.then

\* An attempt on a slot leaves a whole packet behind, settled or not.
Attempted ==
    /\ reader.phase = "copy" => reader.tries < Attempts
    /\ reader.phase = "observe" /\ reader.shape = "slot" /\ reader.tries > 0 =>
          reader.staged = Whole(reader.then)

PublicationInv == /\ TypeOK /\ OddInFlight /\ SelectedIsCurrent /\ StoredSoFar
        /\ GroupCopy /\ SlotCopy /\ Attempted

-----------------------------------------------------------------------------
(* What stepping a generation does, and that the pieces have their types.  *)

\* The next generation is one, of the other parity and another slot.
LEMMA AdvanceFacts ==
    ASSUME NEW g \in 0 .. Gens - 1
    PROVE  /\ Advance(g) \in 0 .. Gens - 1
           /\ (Advance(g) % 2 = 1) <=> ~(g % 2 = 1)
           /\ Place("slot", Advance(g)) # Place("slot", g)
           /\ Place("slot", g) \in {"even", "odd"}
           /\ Advance(g) = g + 1 \/ Advance(g) = g + 1 - Gens
<1>1. Gens \in Nat /\ Gens > 0 /\ Gens % 2 = 0 /\ g \in Nat /\ g < Gens
  BY PublicationAssumption
<1>2. g % 2 = 0 \/ g % 2 = 1
  BY <1>1
<1>3. CASE g + 1 = Gens
  <2>1. g % 2 = 1
    BY <1>1, <1>3
  <2> QED
    BY <1>1, <1>3, <2>1 DEF Advance, Place
<1>4. CASE g + 1 # Gens
  <2>1. Advance(g) = g + 1 /\ g + 1 \in 0 .. Gens - 1
    BY <1>1, <1>4 DEF Advance
  <2>2. ((g + 1) % 2 = 1) <=> ~(g % 2 = 1)
    BY <1>1
  <2>3. (g + 1) % 2 = 0 \/ (g + 1) % 2 = 1
    BY <1>1
  <2>4. (Advance(g) % 2 = 1) <=> ~(g % 2 = 1)
    BY <2>1, <2>2
  <2>5. Advance(g) % 2 = 0 \/ Advance(g) % 2 = 1
    BY <2>1, <2>3
  <2>6. Place("slot", Advance(g)) # Place("slot", g)
    BY <1>2, <2>4, <2>5 DEF Place
  <2>7. Place("slot", g) \in {"even", "odd"}
    BY DEF Place
  <2>8. Advance(g) \in 0 .. Gens - 1
    BY <2>1
  <2> QED
    BY <2>1, <2>4, <2>6, <2>7, <2>8
<1> QED
  BY <1>3, <1>4

\* A packet in every field is a content.
LEMMA WholeIsContent == ASSUME NEW p \in Packets PROVE Whole(p) \in Contents
BY DEF Whole, Contents

LEMMA IdleIsRead == NoRead \in ReadType
BY WholeIsContent, PublicationAssumption DEF NoRead, ReadType, Shapes

\* A publication in progress is not None.
LEMMA WritingIsSome ==
    ASSUME NEW s \in Shapes, NEW p \in Packets, NEW fs \in SUBSET Fields
    PROVE  [shape |-> s, packet |-> p, left |-> fs] # None
BY PublicationAssumption

\* A checked copy is over: committed, or to be tried again.
LEMMA CheckLeavesCopy == ASSUME reader \in ReadType, Check PROVE reader'.phase # "copy"
<1>1. CASE Settled
  <2>1. reader' = NoRead
    BY <1>1 DEF Check
  <2> QED
    BY <2>1 DEF NoRead
<1>2. CASE ~Settled
  <2>1. reader' = [reader EXCEPT !.phase = "observe", !.tries = NextTry]
    BY <1>2 DEF Check
  <2>2. reader'.phase = "observe"
    BY <2>1 DEF ReadType
  <2> QED
    BY <2>2
<1> QED
  BY <1>1, <1>2

-----------------------------------------------------------------------------
(* The initial state and the types.                                        *)

LEMMA InitIInv == PublicationInit => PublicationInv
<1> SUFFICES ASSUME PublicationInit PROVE PublicationInv
  OBVIOUS
<1>1. TypeOK
  BY WholeIsContent, IdleIsRead, PublicationAssumption DEF PublicationInit, TypeOK, Shapes
<1>2. OddInFlight /\ SelectedIsCurrent /\ StoredSoFar
  BY DEF PublicationInit, OddInFlight, SelectedIsCurrent, StoredSoFar, Writing, Shapes, Places, Place
<1>3. GroupCopy /\ SlotCopy /\ Attempted
  BY DEF PublicationInit, GroupCopy, SlotCopy, Attempted, Copying, NoRead
<1> QED
  BY <1>1, <1>2, <1>3 DEF PublicationInv

\* The types survive every step.
LEMMA TypeStep == ASSUME TypeOK, Attempted, [PublicationNext]_sharedVars PROVE TypeOK'
<1> USE DEF TypeOK
<1>1. ASSUME NEW s \in Shapes, NEW p \in Packets, Begin(s, p) PROVE TypeOK'
  <2>1. gen' \in [Shapes -> 0 .. Gens - 1]
    BY <1>1, AdvanceFacts DEF Begin
  <2> QED
    BY <1>1, <2>1 DEF Begin, Writes
<1>2. ASSUME NEW f \in Fields, Store(f) PROVE TypeOK'
  <2>1. writer \in Writes
    BY <1>2 DEF Store
  <2>2. Target \in Places /\ writer.packet \in Packets
    BY <2>1 DEF Target, Place, Places, Writes
  <2>3. store' \in [Places -> Contents]
    BY <1>2, <2>2 DEF Store, Contents
  <2>4. writer' \in Writes
    BY <1>2, <2>1 DEF Store, Writes
  <2> QED
    BY <1>2, <2>3, <2>4 DEF Store
<1>3. CASE End
  <2>1. writer \in Writes
    BY <1>3 DEF End
  <2>2. writer.shape \in Shapes /\ writer.packet \in Packets
    BY <2>1 DEF Writes
  <2>3. gen' \in [Shapes -> 0 .. Gens - 1]
    BY <1>3, <2>2, AdvanceFacts DEF End
  <2> QED
    BY <1>3, <2>2, <2>3 DEF End
<1>4. ASSUME NEW s \in Shapes, ReadBegin(s) PROVE TypeOK'
  BY <1>4, IdleIsRead, PublicationAssumption DEF ReadBegin, ReadType, NoRead
<1>5. CASE Observe
  <2>1. reader.shape \in Shapes /\ reader.tries + 1 \in 0 .. Attempts
    BY <1>5, PublicationAssumption DEF Observe, ReadType
  <2>2. reader' \in ReadType
    BY <1>5, <2>1, ZenonT(40) DEF Observe, ReadType
  <2> QED
    BY <1>5, <2>2 DEF Observe
<1>6. ASSUME NEW f \in Fields, Copy(f) PROVE TypeOK'
  <2>1. Place(reader.shape, reader.observed) \in Places
    BY DEF Place, Places
  <2>2. store[Place(reader.shape, reader.observed)][f] \in Packets
    BY <2>1 DEF Contents
  <2>3. reader' \in ReadType
    BY <1>6, <2>2 DEF Copy, ReadType, Contents
  <2> QED
    BY <1>6, <2>3 DEF Copy
<1>7. CASE Check
  <2>1. reader.staged \in Contents /\ reader.shape \in Shapes
    BY DEF ReadType
  <2>2. NextTry \in 0 .. Attempts
    BY <1>7, PublicationAssumption DEF Check, NextTry, Attempted, ReadType
  <2>3. reader' \in ReadType
    BY <1>7, <2>2, IdleIsRead DEF Check, ReadType
  <2>4. copy' \in [Shapes -> Contents]
    BY <1>7, <2>1 DEF Check, CommitCopy
  <2> QED
    BY <1>7, <2>3, <2>4 DEF Check
<1>8. CASE GiveUp
  <2>1. reader.staged \in Contents /\ reader.shape \in Shapes
    BY DEF ReadType
  <2>2. copy' \in [Shapes -> Contents]
    BY <1>8, <2>1 DEF GiveUp, CommitCopy
  <2> QED
    BY <1>8, <2>2, IdleIsRead DEF GiveUp
<1>9. CASE UNCHANGED sharedVars
  BY <1>9, SMTT(30) DEF sharedVars
<1> QED
  BY <1>1, <1>2, <1>3, <1>4, <1>5, <1>6, <1>7, <1>8, <1>9 DEF PublicationNext, Publishing, Read

-----------------------------------------------------------------------------
(* The writer's side of the invariant.                                     *)

\* Parity, the selected places and what has been stored survive every step
\* of the writer; the reader's steps touch none of their variables.
LEMMA WriterStep ==
    ASSUME TypeOK, OddInFlight, SelectedIsCurrent, StoredSoFar, [PublicationNext]_sharedVars
    PROVE  OddInFlight' /\ SelectedIsCurrent' /\ StoredSoFar'
<1> DEFINE Kept == OddInFlight' /\ SelectedIsCurrent' /\ StoredSoFar'
<1>0. "group" \in Shapes /\ "slot" \in Shapes /\ gen["group"] \in 0 .. Gens - 1
      /\ gen["slot"] \in 0 .. Gens - 1
  BY DEF TypeOK, Shapes
<1>1. ASSUME NEW s \in Shapes, NEW p \in Packets, Begin(s, p) PROVE Kept
  <2>1. writer = None /\ writer' # None /\ writer' = [shape |-> s, packet |-> p, left |-> Fields]
    BY <1>1, WritingIsSome DEF Begin
  <2>2. StoredSoFar'
    BY <2>1 DEF StoredSoFar
  <2>3. UNCHANGED <<store, current>> /\ gen'["slot"] = gen["slot"]
    BY <1>1, <1>0 DEF Begin, TypeOK
  <2>4. SelectedIsCurrent'
    BY <2>1, <2>3 DEF SelectedIsCurrent, Writing
  <2>5. OddInFlight'
    <3>1. CASE s = "group"
      <4>1. gen'["group"] = Advance(gen["group"])
        BY <1>1, <1>0, <3>1 DEF Begin, TypeOK
      <4> QED
        BY <1>0, <2>1, <3>1, <4>1, AdvanceFacts DEF OddInFlight, Writing
    <3>2. CASE s = "slot"
      <4>1. gen' = gen
        BY <1>1, <3>2 DEF Begin
      <4> QED
        BY <2>1, <3>2, <4>1 DEF OddInFlight, Writing
    <3> QED
      BY <3>1, <3>2 DEF Shapes
  <2> QED
    BY <2>2, <2>4, <2>5
<1>2. ASSUME NEW f \in Fields, Store(f) PROVE Kept
  <2>1. writer \in Writes /\ f \in writer.left
    BY <1>2 DEF Store, TypeOK
  <2>2. writer' = [writer EXCEPT !.left = @ \ {f}] /\ writer' # None
    BY <1>2, <2>1, WritingIsSome DEF Store, Writes
  <2>3. writer'.shape = writer.shape /\ writer'.packet = writer.packet
        /\ writer'.left = writer.left \ {f}
    BY <2>1, <2>2 DEF Writes
  <2>4. gen' = gen /\ current' = current
    BY <1>2 DEF Store
  <2>5. Target' = Target /\ Target \in Places
    BY <2>3, <2>4 DEF Target, Place, Places
  <2>6. store' = [store EXCEPT ![Target][f] = writer.packet]
    BY <1>2 DEF Store
  <2>7. OddInFlight'
    BY <1>2, <2>2, <2>3, <2>4 DEF OddInFlight, Writing, Store
  <2>8. StoredSoFar'
    <3> SUFFICES ASSUME NEW e \in Fields \ writer'.left
                 PROVE  store'[Target][e] = writer.packet
      BY <2>3, <2>5 DEF StoredSoFar
    <3>1. store[Target] \in Contents
      BY <2>5 DEF TypeOK
    <3>2. CASE e = f
      BY <2>5, <2>6, <3>1, <3>2 DEF TypeOK, Contents
    <3>3. CASE e # f
      <4>1. store[Target][e] = writer.packet
        BY <1>2, <2>3, <3>3 DEF StoredSoFar, Store
      <4> QED
        BY <2>5, <2>6, <3>1, <3>3, <4>1 DEF TypeOK, Contents
    <3> QED
      BY <3>2, <3>3
  <2>9. SelectedIsCurrent'
    <3>1. CASE writer.shape = "group"
      <4>1. Target = "group"
        BY <3>1 DEF Target, Place
      <4>2. store'[Place("slot", gen["slot"])] = store[Place("slot", gen["slot"])]
        BY <2>6, <4>1, <1>0, AdvanceFacts DEF TypeOK, Places
      <4> QED
        BY <2>2, <2>3, <2>4, <3>1, <4>2 DEF SelectedIsCurrent, Writing
    <3>2. CASE writer.shape = "slot"
      <4>1. Target # Place("slot", gen["slot"]) /\ Target # "group"
        BY <3>2, <1>0, AdvanceFacts DEF Target
      <4>2. /\ store'[Place("slot", gen["slot"])] = store[Place("slot", gen["slot"])]
            /\ store'["group"] = store["group"]
        BY <2>6, <4>1, <1>0, AdvanceFacts DEF TypeOK, Places
      <4> QED
        BY <2>3, <2>4, <3>2, <4>2 DEF SelectedIsCurrent, Writing
    <3> QED
      BY <2>1, <3>1, <3>2 DEF Writes, Shapes
  <2> QED
    BY <2>7, <2>8, <2>9
<1>3. CASE End
  <2>1. writer \in Writes /\ writer.left = {} /\ writer # None /\ writer' = None /\ store' = store
    BY <1>3 DEF End, TypeOK
  <2>2. store[Target] = Whole(writer.packet)
    <3>1. Target \in Places
      BY DEF Target, Place, Places
    <3>2. store[Target] \in Contents
      BY <3>1 DEF TypeOK
    <3> QED
      BY <2>1, <3>2 DEF StoredSoFar, Whole, Contents
  <2>3. StoredSoFar'
    BY <2>1 DEF StoredSoFar
  <2>4. ~Writing("group")' /\ ~Writing("slot")'
    BY <2>1 DEF Writing
  <2>5. CASE writer.shape = "group"
    <3>1. /\ gen'["group"] = Advance(gen["group"]) /\ gen'["slot"] = gen["slot"]
          /\ current'["group"] = writer.packet /\ current'["slot"] = current["slot"]
      BY <1>3, <1>0, <2>5 DEF End, TypeOK
    <3>2. gen["group"] % 2 = 1
      BY <2>1, <2>5 DEF OddInFlight, Writing
    <3>3. OddInFlight'
      BY <2>4, <3>1, <3>2, <1>0, AdvanceFacts DEF OddInFlight
    <3>4. Target = "group"
      BY <2>5 DEF Target, Place
    <3>5. SelectedIsCurrent'
      BY <2>1, <2>2, <3>1, <3>4 DEF SelectedIsCurrent
    <3> QED
      BY <2>3, <3>3, <3>5
  <2>6. CASE writer.shape = "slot"
    <3>1. /\ gen'["slot"] = Advance(gen["slot"]) /\ gen'["group"] = gen["group"]
          /\ current'["slot"] = writer.packet /\ current'["group"] = current["group"]
      BY <1>3, <1>0, <2>6 DEF End, TypeOK
    <3>2. ~Writing("group")
      BY <2>6 DEF Writing
    <3>3. OddInFlight'
      BY <2>4, <3>1, <3>2 DEF OddInFlight
    <3>4. Target = Place("slot", Advance(gen["slot"]))
      BY <2>6 DEF Target
    <3>5. SelectedIsCurrent'
      BY <2>1, <2>2, <3>1, <3>2, <3>4 DEF SelectedIsCurrent
    <3> QED
      BY <2>3, <3>3, <3>5
  <2> QED
    BY <2>1, <2>5, <2>6 DEF Writes, Shapes
<1>4. CASE UNCHANGED <<gen, store, writer, current>>
  BY <1>4 DEF OddInFlight, SelectedIsCurrent, StoredSoFar, Writing, Target
<1> QED
  BY <1>1, <1>2, <1>3, <1>4
  DEF PublicationNext, Publishing, Read, ReadBegin, Observe, Copy, Check, GiveUp, sharedVars

-----------------------------------------------------------------------------
(* The copy of a group.                                                    *)

\* Every step of the writer moves the generation on, and the bound keeps it
\* from coming round.
LEMMA GroupStep ==
    ASSUME PublicationInv, [PublicationNext]_sharedVars
    PROVE  GroupCopy'
<1> USE DEF PublicationInv
<1>0. /\ "group" \in Shapes /\ gen["group"] \in 0 .. Gens - 1
      /\ met \in Nat /\ reader \in ReadType /\ reader.observed \in 0 .. Gens - 1
      /\ Gens \in Nat /\ During["group"] \in Nat /\ 2 * During["group"] < Gens
  BY PublicationAssumption DEF TypeOK, Shapes, ReadType
<1>1. ASSUME NEW s \in Shapes, NEW p \in Packets, Begin(s, p) PROVE GroupCopy'
  <2>1. /\ writer = None /\ reader' = reader /\ current' = current
        /\ writer' = [shape |-> s, packet |-> p, left |-> Fields] /\ writer' # None
    BY <1>1, WritingIsSome DEF Begin
  <2>2. CASE Copying("group") /\ s = "group"
    <3>1. met < During["group"] /\ met' = met + 1
      BY <1>1, <2>2 DEF Begin
    <3>2. gen'["group"] = Advance(gen["group"])
      BY <1>1, <2>2 DEF Begin, TypeOK
    <3>3. Moved = 2 * met /\ Moved' = 2 * met + 1
      BY <1>0, <2>1, <2>2, <3>1 DEF Moved, Writing
    <3>4. gen["group"] = reader.observed + 2 * met \/ gen["group"] = reader.observed + 2 * met - Gens
      BY <2>2, <3>3 DEF GroupCopy
    <3>5. Advance(gen["group"]) = gen["group"] + 1 \/ Advance(gen["group"]) = gen["group"] + 1 - Gens
      BY <1>0, AdvanceFacts
    <3>6. Advance(gen["group"]) \in 0 .. Gens - 1
      BY <1>0, AdvanceFacts
    <3>7. \/ gen'["group"] = reader.observed + (2 * met + 1)
          \/ gen'["group"] = reader.observed + (2 * met + 1) - Gens
      BY <1>0, <3>1, <3>2, <3>4, <3>5, <3>6
    <3>8. met' <= During["group"] /\ met' > 0 /\ met' # 0
      BY <1>0, <3>1
    <3> QED
      BY <2>1, <3>3, <3>7, <3>8 DEF GroupCopy, Copying
  <2>3. CASE Copying("group") /\ s # "group"
    <3>1. met' = met /\ gen' = gen
      BY <1>1, <2>3 DEF Begin, Copying
    <3>2. ~Writing("group") /\ ~Writing("group")'
      BY <2>1, <2>3 DEF Writing
    <3> QED
      BY <2>1, <2>3, <3>1, <3>2 DEF GroupCopy, Copying, Moved
  <2>4. CASE ~Copying("group")
    BY <2>1, <2>4 DEF GroupCopy, Copying
  <2> QED
    BY <2>2, <2>3, <2>4
<1>2. ASSUME NEW f \in Fields, Store(f) PROVE GroupCopy'
  <2>1. writer \in Writes /\ f \in writer.left
    BY <1>2 DEF Store, TypeOK
  <2>2. writer' # None /\ writer'.shape = writer.shape
    BY <1>2, <2>1, WritingIsSome DEF Store, Writes
  <2>3. Writing("group")' <=> Writing("group")
    BY <1>2, <2>2 DEF Writing, Store
  <2> QED
    BY <1>2, <2>3 DEF Store, GroupCopy, Copying, Moved
<1>3. CASE End
  <2>1. writer # None /\ writer' = None /\ met' = met /\ reader' = reader /\ ~Writing("group")'
    BY <1>3 DEF End, Writing
  <2>2. CASE Copying("group") /\ Writing("group")
    <3>1. gen'["group"] = Advance(gen["group"])
      <4>1. gen' = [gen EXCEPT !["group"] = Advance(@)]
        BY <1>3, <2>2 DEF End, Writing
      <4> QED
        BY <1>0, <4>1 DEF TypeOK
    <3>2. met > 0 /\ met <= During["group"]
          /\ \/ gen["group"] = reader.observed + (2 * met - 1)
             \/ gen["group"] = reader.observed + (2 * met - 1) - Gens
      BY <2>2 DEF GroupCopy, Moved
    <3>3. Advance(gen["group"]) = gen["group"] + 1 \/ Advance(gen["group"]) = gen["group"] + 1 - Gens
      BY <1>0, AdvanceFacts
    <3>4. Advance(gen["group"]) \in 0 .. Gens - 1
      BY <1>0, AdvanceFacts
    <3>5. \/ gen'["group"] = reader.observed + 2 * met
          \/ gen'["group"] = reader.observed + 2 * met - Gens
      BY <1>0, <3>1, <3>2, <3>3, <3>4
    <3>6. Moved' = 2 * met
      BY <2>1 DEF Moved
    <3>7. met' # 0 /\ met' <= During["group"]
      BY <1>0, <2>1, <3>2
    <3> QED
      BY <2>1, <3>5, <3>6, <3>7 DEF GroupCopy
  <2>3. CASE Copying("group") /\ ~Writing("group")
    <3>1. writer.shape # "group"
      BY <2>1, <2>3 DEF Writing
    <3>2. gen'["group"] = gen["group"] /\ current'["group"] = current["group"]
      BY <1>0, <1>3, <3>1 DEF End, TypeOK
    <3> QED
      BY <2>1, <2>3, <3>2 DEF GroupCopy, Copying, Moved
  <2>4. CASE ~Copying("group")
    BY <2>1, <2>4 DEF GroupCopy, Copying
  <2> QED
    BY <2>2, <2>3, <2>4
<1>4. ASSUME NEW s \in Shapes, ReadBegin(s) PROVE GroupCopy'
  BY <1>4 DEF ReadBegin, GroupCopy, Copying, NoRead
<1>5. CASE Observe
  <2>1. CASE reader'.phase = "copy" /\ reader'.shape = "group"
    <3>1. reader.shape = "group" /\ ~InFlight(gen["group"])
      BY <1>0, <1>5, <2>1 DEF Observe, ReadType
    <3>2. reader' = [reader EXCEPT !.phase = "copy", !.observed = gen["group"],
                                   !.left = Fields, !.then = current["group"]]
      BY <1>5, <3>1 DEF Observe
    <3>3. reader'.observed = gen["group"] /\ reader'.left = Fields /\ reader'.then = current["group"]
      BY <1>0, <3>2 DEF ReadType
    <3>4. ~Writing("group") /\ gen' = gen /\ writer' = writer /\ current' = current
      BY <1>5, <3>1 DEF Observe, InFlight, OddInFlight
    <3>5. met' = 0
      BY <1>5, <3>1, <3>4 DEF Observe, Writing
    <3>6. Moved' = 0 /\ ~Writing("group")'
      BY <3>4, <3>5 DEF Moved, Writing
    <3>7. gen["group"] = gen["group"] + 0 /\ met' <= During["group"]
      BY <1>0, <3>5
    <3> QED
      BY <3>3, <3>4, <3>5, <3>6, <3>7 DEF GroupCopy
  <2> QED
    BY <2>1 DEF GroupCopy, Copying
<1>6. ASSUME NEW f \in Fields, Copy(f) PROVE GroupCopy'
  <2>1. CASE Copying("group")
    <3>1. UNCHANGED <<gen, writer, met, current>>
      BY <1>6 DEF Copy
    <3>2. /\ reader'.observed = reader.observed /\ reader'.then = reader.then
          /\ reader'.left = reader.left \ {f}
          /\ reader'.staged = [reader.staged EXCEPT ![f] = store["group"][f]]
      BY <1>0, <1>6, <2>1 DEF Copy, Copying, ReadType, Place
    <3>3. ASSUME met = 0 PROVE \A e \in Fields \ reader'.left : reader'.staged[e] = reader'.then
      <4>1. ~Writing("group") /\ current["group"] = reader.then
        BY <2>1, <3>3, <1>0 DEF GroupCopy
      <4>2. store["group"][f] = reader.then
        BY <4>1 DEF SelectedIsCurrent, Whole
      <4>3. reader.staged \in Contents
        BY <1>0 DEF ReadType
      <4>4. \A e \in Fields \ reader.left : reader.staged[e] = reader.then
        BY <2>1, <3>3 DEF GroupCopy
      <4> QED
        BY <3>2, <4>2, <4>3, <4>4 DEF Contents
    <3>4. Moved' = Moved /\ (Writing("group")' <=> Writing("group"))
      BY <3>1 DEF Moved, Writing
    <3> QED
      BY <2>1, <3>1, <3>2, <3>3, <3>4 DEF GroupCopy
  <2>2. CASE ~Copying("group")
    BY <1>0, <1>6, <2>2 DEF Copy, GroupCopy, Copying, ReadType
  <2> QED
    BY <2>1, <2>2
<1>7. CASE Check
  BY <1>0, <1>7, CheckLeavesCopy DEF GroupCopy, Copying
<1>8. CASE GiveUp
  BY <1>8 DEF GiveUp, GroupCopy, Copying, NoRead
<1>9. CASE UNCHANGED sharedVars
  BY <1>9 DEF sharedVars, GroupCopy, Copying, Moved, Writing
<1> QED
  BY <1>1, <1>2, <1>3, <1>4, <1>5, <1>6, <1>7, <1>8, <1>9 DEF PublicationNext, Publishing, Read

-----------------------------------------------------------------------------
(* The copy of a slot.                                                     *)

\* At most one publication meets a copy, and it fills the other slot.
LEMMA SlotStep ==
    ASSUME PublicationInv, [PublicationNext]_sharedVars
    PROVE  SlotCopy'
<1> USE DEF PublicationInv
<1> DEFINE Selected == Place("slot", reader.observed)
<1>0. /\ "slot" \in Shapes /\ gen["slot"] \in 0 .. Gens - 1
      /\ met \in Nat /\ reader \in ReadType /\ reader.observed \in 0 .. Gens - 1
      /\ During["slot"] \in Nat /\ During["slot"] < 2
  BY PublicationAssumption DEF TypeOK, Shapes, ReadType
<1>00. Selected \in {"even", "odd"}
  BY <1>0, AdvanceFacts
<1>1. ASSUME NEW s \in Shapes, NEW p \in Packets, Begin(s, p) PROVE SlotCopy'
  <2>1. /\ writer = None /\ reader' = reader /\ store' = store
        /\ writer' = [shape |-> s, packet |-> p, left |-> Fields]
    BY <1>1 DEF Begin
  <2>2. gen'["slot"] = gen["slot"]
    BY <1>1, <1>0 DEF Begin, TypeOK
  <2>3. CASE Copying("slot") /\ s = "slot"
    <3>1. met < During["slot"] /\ met' = met + 1
      BY <1>1, <2>3 DEF Begin
    <3>2. met = 0 /\ met' = 1
      BY <1>0, <3>1
    <3>3. gen["slot"] = reader.observed
      BY <2>3, <3>2 DEF SlotCopy
    <3> QED
      BY <2>1, <2>2, <2>3, <3>2, <3>3 DEF SlotCopy, Copying
  <2>4. CASE Copying("slot") /\ s # "slot"
    <3>1. met' = met
      BY <1>1, <2>4 DEF Begin, Copying
    <3>2. ~Writing("slot") /\ ~Writing("slot")'
      BY <2>1, <2>4 DEF Writing
    <3> QED
      BY <2>1, <2>2, <2>4, <3>1, <3>2 DEF SlotCopy, Copying
  <2>5. CASE ~Copying("slot")
    BY <2>1, <2>5 DEF SlotCopy, Copying
  <2> QED
    BY <2>3, <2>4, <2>5
<1>2. ASSUME NEW f \in Fields, Store(f) PROVE SlotCopy'
  <2>1. writer \in Writes /\ f \in writer.left
    BY <1>2 DEF Store, TypeOK
  <2>2. writer' # None /\ writer'.shape = writer.shape
    BY <1>2, <2>1, WritingIsSome DEF Store, Writes
  <2>3. Writing("slot")' <=> Writing("slot")
    BY <1>2, <2>2 DEF Writing, Store
  <2>4. gen' = gen /\ met' = met /\ reader' = reader
    BY <1>2 DEF Store
  <2>5. CASE Copying("slot")
    <3>1. Target # Selected
      <4>1. CASE writer.shape = "group"
        BY <4>1, <1>00 DEF Target, Place
      <4>2. CASE writer.shape = "slot"
        <5>1. Writing("slot")
          BY <1>2, <4>2 DEF Writing, Store
        <5>2. gen["slot"] = reader.observed
          BY <2>5, <5>1 DEF SlotCopy
        <5> QED
          BY <1>0, <4>2, <5>2, AdvanceFacts DEF Target
      <4> QED
        BY <2>1, <4>1, <4>2 DEF Writes, Shapes
    <3>2. store' = [store EXCEPT ![Target][f] = writer.packet]
      BY <1>2 DEF Store
    <3>3. store'[Selected] = store[Selected]
      BY <1>00, <3>1, <3>2 DEF TypeOK, Places
    <3> QED
      BY <2>3, <2>4, <2>5, <3>3 DEF SlotCopy, Copying
  <2>6. CASE ~Copying("slot")
    BY <2>4, <2>6 DEF SlotCopy, Copying
  <2> QED
    BY <2>5, <2>6
<1>3. CASE End
  <2>1. /\ writer # None /\ writer' = None /\ met' = met /\ reader' = reader
        /\ store' = store /\ ~Writing("slot")'
    BY <1>3 DEF End, Writing
  <2>2. CASE Copying("slot") /\ Writing("slot")
    <3>1. gen'["slot"] = Advance(gen["slot"])
      <4>1. gen' = [gen EXCEPT !["slot"] = Advance(@)]
        BY <1>3, <2>2 DEF End, Writing
      <4> QED
        BY <1>0, <4>1 DEF TypeOK
    <3>2. met = 1 /\ gen["slot"] = reader.observed
      BY <2>2 DEF SlotCopy
    <3> QED
      BY <2>1, <2>2, <3>1, <3>2 DEF SlotCopy, Copying
  <2>3. CASE Copying("slot") /\ ~Writing("slot")
    <3>1. writer.shape # "slot"
      BY <2>1, <2>3 DEF Writing
    <3>2. gen'["slot"] = gen["slot"]
      BY <1>0, <1>3, <3>1 DEF End, TypeOK
    <3> QED
      BY <2>1, <2>3, <3>2 DEF SlotCopy, Copying
  <2>4. CASE ~Copying("slot")
    BY <2>1, <2>4 DEF SlotCopy, Copying
  <2> QED
    BY <2>2, <2>3, <2>4
<1>4. ASSUME NEW s \in Shapes, ReadBegin(s) PROVE SlotCopy'
  BY <1>4 DEF ReadBegin, SlotCopy, Copying, NoRead
<1>5. CASE Observe
  <2>1. CASE reader'.phase = "copy" /\ reader'.shape = "slot"
    <3>1. reader.shape = "slot"
      BY <1>0, <1>5, <2>1 DEF Observe, ReadType
    <3>2. reader' = [reader EXCEPT !.phase = "copy", !.observed = gen["slot"],
                                   !.left = Fields, !.then = current["slot"]]
      BY <1>5, <3>1 DEF Observe
    <3>3. reader'.observed = gen["slot"] /\ reader'.left = Fields /\ reader'.then = current["slot"]
      BY <1>0, <3>2 DEF ReadType
    <3>4. gen' = gen /\ writer' = writer /\ store' = store
      BY <1>5 DEF Observe
    <3>5. met' = IF Writing("slot") THEN 1 ELSE 0
      BY <1>5, <3>1 DEF Observe, Writing
    <3>6. store'[Place("slot", reader'.observed)] = Whole(reader'.then)
      BY <3>3, <3>4 DEF SelectedIsCurrent
    <3>7. (Writing("slot")' => met' = 1) /\ met' <= 1
      BY <3>4, <3>5 DEF Writing
    <3> QED
      BY <3>3, <3>4, <3>6, <3>7 DEF SlotCopy
  <2> QED
    BY <2>1 DEF SlotCopy, Copying
<1>6. ASSUME NEW f \in Fields, Copy(f) PROVE SlotCopy'
  <2>1. CASE Copying("slot")
    <3>1. UNCHANGED <<gen, writer, met, store>> /\ (Writing("slot")' <=> Writing("slot"))
      BY <1>6 DEF Copy, Writing
    <3>2. /\ reader'.observed = reader.observed /\ reader'.then = reader.then
          /\ reader'.left = reader.left \ {f}
          /\ reader'.staged = [reader.staged EXCEPT ![f] = store[Selected][f]]
      BY <1>0, <1>6, <2>1 DEF Copy, Copying, ReadType
    <3>3. store[Selected][f] = reader.then
      BY <2>1 DEF SlotCopy, Whole
    <3>4. reader.staged \in Contents
      BY <1>0 DEF ReadType
    <3>5. \A e \in Fields \ reader'.left : reader'.staged[e] = reader'.then
      BY <2>1, <3>2, <3>3, <3>4 DEF Contents, SlotCopy
    <3> QED
      BY <2>1, <3>1, <3>2, <3>5 DEF SlotCopy
  <2>2. CASE ~Copying("slot")
    BY <1>0, <1>6, <2>2 DEF Copy, SlotCopy, Copying, ReadType
  <2> QED
    BY <2>1, <2>2
<1>7. CASE Check
  BY <1>0, <1>7, CheckLeavesCopy DEF SlotCopy, Copying
<1>8. CASE GiveUp
  BY <1>8 DEF GiveUp, SlotCopy, Copying, NoRead
<1>9. CASE UNCHANGED sharedVars
  BY <1>9 DEF sharedVars, SlotCopy, Copying, Writing
<1> QED
  BY <1>1, <1>2, <1>3, <1>4, <1>5, <1>6, <1>7, <1>8, <1>9 DEF PublicationNext, Publishing, Read

-----------------------------------------------------------------------------
(* What a finished copy holds.                                             *)

\* A slot's copy is the packet it was pointed at, settled or not.
LEMMA CopiedSlotIsWhole ==
    ASSUME SlotCopy, reader \in ReadType, Copying("slot"), reader.left = {}
    PROVE  reader.staged = Whole(reader.then)
<1>1. \A f \in Fields : reader.staged[f] = reader.then
  BY DEF SlotCopy
<1>2. reader.staged \in [Fields -> Packets]
  BY DEF ReadType, Contents
<1> QED
  BY <1>1, <1>2 DEF Whole

\* A group whose generation has not moved met no publication.
LEMMA SettledGroupIsWhole ==
    ASSUME PublicationInv, Copying("group"), reader.left = {}, Settled
    PROVE  reader.staged = Whole(reader.then)
<1> USE DEF PublicationInv
<1>0. /\ met \in Nat /\ reader \in ReadType /\ reader.observed \in Nat
      /\ Gens \in Nat /\ During["group"] \in Nat /\ 2 * During["group"] < Gens
      /\ Gens > 0
  BY PublicationAssumption DEF TypeOK, Shapes, ReadType
<1>1. gen["group"] = reader.observed
  BY DEF Settled, Copying
<1>2. Moved = 0 \/ Moved = Gens
  <2>1. Moved \in Int
    BY <1>0 DEF Moved
  <2>2. \/ gen["group"] = reader.observed + Moved
        \/ gen["group"] = reader.observed + Moved - Gens
    BY DEF GroupCopy
  <2> QED
    BY <1>0, <1>1, <2>1, <2>2
<1>3. met <= During["group"] /\ (Writing("group") => met > 0)
  BY DEF GroupCopy
<1>4. met = 0
  <2>1. CASE Writing("group")
    <3>1. Moved = 2 * met - 1 /\ met > 0
      BY <1>3, <2>1 DEF Moved
    <3> QED
      BY <1>0, <1>2, <1>3, <3>1
  <2>2. CASE ~Writing("group")
    <3>1. Moved = 2 * met
      BY <2>2 DEF Moved
    <3> QED
      BY <1>0, <1>2, <1>3, <3>1
  <2> QED
    BY <2>1, <2>2
<1>5. \A f \in Fields : reader.staged[f] = reader.then
  BY <1>4 DEF GroupCopy
<1>6. reader.staged \in [Fields -> Packets]
  BY <1>0 DEF ReadType, Contents
<1> QED
  BY <1>5, <1>6 DEF Whole

-----------------------------------------------------------------------------
(* The attempts, and the theorems.                                         *)

\* A slot's attempt that is not settled leaves a whole packet, and no reader
\* copies once its attempts are used up.
LEMMA AttemptedStep ==
    ASSUME PublicationInv, [PublicationNext]_sharedVars
    PROVE  Attempted'
<1> USE DEF PublicationInv
<1>0. reader \in ReadType /\ reader.tries \in 0 .. Attempts /\ Attempts \in Nat
  BY PublicationAssumption DEF TypeOK, ReadType
<1>1. CASE Observe
  <2>1. CASE reader.shape = "group" /\ InFlight(gen["group"])
    <3>1. reader' = [reader EXCEPT !.tries = @ + 1]
      BY <1>1, <2>1 DEF Observe
    <3>2. reader'.phase = "observe" /\ reader'.shape = "group"
      BY <1>0, <1>1, <2>1, <3>1 DEF Observe, ReadType
    <3> QED
      BY <3>2 DEF Attempted
  <2>2. CASE ~(reader.shape = "group" /\ InFlight(gen["group"]))
    <3>1. reader' = [reader EXCEPT !.phase = "copy", !.observed = gen[reader.shape],
                                   !.left = Fields, !.then = current[reader.shape]]
      BY <1>1, <2>2 DEF Observe
    <3>2. reader'.phase = "copy" /\ reader'.tries = reader.tries
      BY <1>0, <3>1 DEF ReadType
    <3>3. reader.tries < Attempts
      BY <1>1 DEF Observe
    <3> QED
      BY <3>2, <3>3 DEF Attempted
  <2> QED
    BY <2>1, <2>2
<1>2. ASSUME NEW f \in Fields, Copy(f) PROVE Attempted'
  <2>1. reader'.phase = "copy" /\ reader'.tries = reader.tries
    BY <1>0, <1>2 DEF Copy, ReadType
  <2> QED
    BY <1>2, <2>1 DEF Attempted, Copy
<1>3. CASE Check
  <2>1. CASE Settled
    <3>1. reader' = NoRead
      BY <1>3, <2>1 DEF Check
    <3> QED
      BY <3>1 DEF Attempted, NoRead
  <2>2. CASE ~Settled
    <3>1. reader' = [reader EXCEPT !.phase = "observe", !.tries = NextTry]
      BY <1>3, <2>2 DEF Check
    <3>2. /\ reader'.phase = "observe" /\ reader'.shape = reader.shape
          /\ reader'.staged = reader.staged /\ reader'.then = reader.then
      BY <1>0, <3>1 DEF ReadType
    <3>3. ASSUME reader.shape = "slot" PROVE reader.staged = Whole(reader.then)
      BY <1>0, <1>3, <3>3, CopiedSlotIsWhole DEF Check, Copying
    <3> QED
      BY <3>2, <3>3 DEF Attempted
  <2> QED
    BY <2>1, <2>2
<1>4. ASSUME reader' = NoRead PROVE Attempted'
  BY <1>4 DEF Attempted, NoRead
<1>5. ASSUME NEW s \in Shapes, ReadBegin(s) PROVE Attempted'
  BY <1>5 DEF ReadBegin, Attempted, NoRead
<1>6. ASSUME reader' = reader PROVE Attempted'
  BY <1>6 DEF Attempted
<1> QED
  BY <1>1, <1>2, <1>3, <1>4, <1>5, <1>6
  DEF PublicationNext, Publishing, Read, Begin, Store, End, GiveUp, sharedVars

\* The invariant is inductive.
LEMMA Step == PublicationInv /\ [PublicationNext]_sharedVars => PublicationInv'
<1> SUFFICES ASSUME PublicationInv, [PublicationNext]_sharedVars PROVE PublicationInv'
  OBVIOUS
<1> QED
  BY TypeStep, WriterStep, GroupStep, SlotStep, AttemptedStep, SMTT(30) DEF PublicationInv

\* In a state of the invariant, what a step commits was current.
LEMMA CommitsCurrent ==
    ASSUME PublicationInv, PublicationNext, NEW s \in Shapes, copy'[s] # copy[s]
    PROVE  s = reader.shape /\ copy'[s] = Whole(reader.then)
<1> USE DEF PublicationInv
<1>0. reader \in ReadType /\ reader.shape \in Shapes /\ copy \in [Shapes -> Contents]
  BY DEF TypeOK, ReadType
<1>1. copy' # copy
  OBVIOUS
<1>2. ASSUME CommitCopy PROVE s = reader.shape /\ copy'[s] = reader.staged
  BY <1>0, <1>2 DEF CommitCopy
<1>3. CASE Check
  <2>1. Settled /\ CommitCopy /\ reader.phase = "copy" /\ reader.left = {}
    BY <1>1, <1>3 DEF Check
  <2>2. reader.staged = Whole(reader.then)
    <3>1. CASE reader.shape = "group"
      BY <1>0, <2>1, <3>1, SettledGroupIsWhole DEF Copying
    <3>2. CASE reader.shape = "slot"
      BY <1>0, <2>1, <3>2, CopiedSlotIsWhole DEF Copying
    <3> QED
      BY <1>0, <3>1, <3>2 DEF Shapes
  <2> QED
    BY <1>2, <2>1, <2>2
<1>4. CASE GiveUp
  <2>1. reader.shape = "slot" /\ CommitCopy /\ reader.phase = "observe" /\ reader.tries > 0
    BY <1>0, <1>1, <1>4, PublicationAssumption DEF GiveUp, Shapes
  <2>2. reader.staged = Whole(reader.then)
    BY <2>1 DEF Attempted
  <2> QED
    BY <1>2, <2>1, <2>2
<1>5. CASE copy' = copy
  BY <1>1, <1>5
<1> QED
  BY <1>3, <1>4, <1>5
  DEF PublicationNext, Publishing, Read, Begin, Store, End, ReadBegin, Observe, Copy

\* Every variable keeps its type, the generations their width among them.
THEOREM TypeCorrect == PublicationSpec => []TypeOK
<1>1. PublicationInv => TypeOK
  BY DEF PublicationInv
<1> QED
  BY InitIInv, Step, <1>1, PTL DEF PublicationSpec

\* No reader ever commits a mixture of two packets, nor one that was not
\* current when its last attempt began.
THEOREM CopyWasCurrentHolds == PublicationSpec => CopyWasCurrent
<1>1. PublicationInv /\ [PublicationNext]_sharedVars =>
        [\A s \in Shapes : copy'[s] # copy[s] => s = reader.shape /\ copy'[s] = Whole(reader.then)]_sharedVars
  BY CommitsCurrent
<1> QED
  BY InitIInv, Step, <1>1, PTL DEF PublicationSpec, CopyWasCurrent
===============================================================================
