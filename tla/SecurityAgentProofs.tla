------------------------ MODULE SecurityAgentProofs -------------------------
(***************************************************************************)
(* Proofs about SecurityAgent, for any files of any length and any number  *)
(* of edits.                                                               *)
(*                                                                         *)
(* The argument counts places.  Rank numbers the places of a kind from 1   *)
(* to their number (Ranks), so that n fixes leave all but n of them        *)
(* (Beyond), and a scan has as many findings of a pattern as the text has  *)
(* places that match it (FileCounted).  The findings are those of what was *)
(* read (FindingsCounted); fixing a text leaves of what can be fixed what  *)
(* exceeds them (FixedCounted); and an edit adds two matches at most       *)
(* (EditAdds), which it pays for in edits (FixedBut).                      *)
(***************************************************************************)
EXTENDS SecurityAgent, FiniteSetTheorems, SequenceTheorems, TLAPS

-----------------------------------------------------------------------------
(* Places and their numbers *)

(* The places of a sequence are finitely many. *)
LEMMA Sizes ==
    ASSUME NEW n \in Nat, NEW P \in SUBSET (1..n)
    PROVE  IsFiniteSet(P) /\ Cardinality(P) \in Nat
<1>1. IsFiniteSet(1..n)
  BY FS_Interval, 1 \in Int, n \in Int
<1>2. IsFiniteSet(P)
  BY <1>1, FS_Subset, Zenon
<1> QED
  BY <1>2, FS_CardinalityType, Zenon

(* The first n numbers are n. *)
LEMMA SizeOfFirst == \A n \in Nat : IsFiniteSet(1..n) /\ Cardinality(1..n) = n
<1> SUFFICES ASSUME NEW n \in Nat PROVE IsFiniteSet(1..n) /\ Cardinality(1..n) = n
  OBVIOUS
<1>1. 1 \in Int /\ n \in Int
  OBVIOUS
<1>2. IsFiniteSet(1..n) /\ Cardinality(1..n) = IF 1 > n THEN 0 ELSE n - 1 + 1
  BY <1>1, FS_Interval
<1> QED
  BY <1>2

(* Rank numbers the places of a set from 1 to its size, in their order. *)
LEMMA Ranks ==
    ASSUME NEW n \in Nat, NEW P \in SUBSET (1..n)
    PROVE  /\ \A i \in P : Rank(i, P) \in 1..Cardinality(P)
           /\ \A i, j \in P : i < j => Rank(i, P) < Rank(j, P)
           /\ \A r \in 1..Cardinality(P) : \E i \in P : Rank(i, P) = r
<1> DEFINE Upto(i) == {k \in P : k <= i}
<1>1. IsFiniteSet(P) /\ Cardinality(P) \in Nat
  BY Sizes
<1>2. ASSUME NEW i \in P PROVE IsFiniteSet(Upto(i)) /\ Cardinality(Upto(i)) \in 1..Cardinality(P)
  <2>1. Upto(i) \in SUBSET P /\ i \in Upto(i)
    OBVIOUS
  <2> HIDE DEF Upto
  <2>2. IsFiniteSet(Upto(i)) /\ Cardinality(Upto(i)) <= Cardinality(P)
    BY <2>1, <1>1, FS_Subset, Zenon
  <2>3. Cardinality(Upto(i)) \in Nat
    BY <2>2, FS_CardinalityType, Zenon
  <2>4. Cardinality(Upto(i)) # 0
    BY <2>1, <2>2, FS_EmptySet, Zenon
  <2> QED
    BY <2>2, <2>3, <2>4, <1>1
<1>3. ASSUME NEW i \in P, NEW j \in P, i < j PROVE Cardinality(Upto(i)) < Cardinality(Upto(j))
  <2> P \subseteq Int /\ i \in Int /\ j \in Int
    OBVIOUS
  <2>1. Upto(i) \in SUBSET Upto(j) /\ j \in Upto(j) /\ j \notin Upto(i)
    <3>1. \A k \in P : k <= i => k <= j
      BY <1>3
    <3>2. j \in Upto(j)
      OBVIOUS
    <3>3. j \notin Upto(i)
      BY <1>3
    <3> QED BY <3>1, <3>2, <3>3
  <2>2. IsFiniteSet(Upto(j))
    BY <1>2
  <2>3. Cardinality(Upto(i)) \in Nat /\ Cardinality(Upto(j)) \in Nat
    BY <1>2
  <2> HIDE DEF Upto
  <2>4. Cardinality(Upto(i)) <= Cardinality(Upto(j)) /\ Cardinality(Upto(i)) # Cardinality(Upto(j))
    BY <2>1, <2>2, FS_Subset, Zenon
  <2> QED
    BY <2>3, <2>4
<1> DEFINE F == [i \in P |-> Cardinality(Upto(i))]
<1>4. F \in Injection(P, 1..Cardinality(P))
  <2>1. F \in [P -> 1..Cardinality(P)]
    BY <1>2
  <2>2. \A i, j \in P : F[i] = F[j] => i = j
    <3> SUFFICES ASSUME NEW i \in P, NEW j \in P, i # j PROVE F[i] # F[j]
      OBVIOUS
    <3>1. i < j \/ j < i
      OBVIOUS
    <3>2. Cardinality(Upto(i)) \in Int /\ Cardinality(Upto(j)) \in Int
      BY <1>2
    <3>3. F[i] = Cardinality(Upto(i)) /\ F[j] = Cardinality(Upto(j))
      OBVIOUS
    <3> HIDE DEF F, Upto
    <3> QED BY <3>1, <3>2, <3>3, <1>3
  <2> HIDE DEF F
  <2> QED BY <2>1, <2>2 DEF Injection, IsInjective
<1>5. F \in Surjection(P, 1..Cardinality(P))
  <2>1. IsFiniteSet(1..Cardinality(P)) /\ Cardinality(1..Cardinality(P)) = Cardinality(P)
    BY <1>1, SizeOfFirst
  <2> HIDE DEF F
  <2> QED BY <1>4, <2>1, FS_Injection, Zenon
<1>6. \A r \in 1..Cardinality(P) : \E i \in P : Cardinality(Upto(i)) = r
  <2>1. \A r \in 1..Cardinality(P) : \E i \in P : F[i] = r
    BY <1>5, Zenon DEF Surjection
  <2> QED BY <2>1
<1>7. \A i : Rank(i, P) = Cardinality(Upto(i))
  BY DEF Rank
<1> HIDE DEF Upto, F
<1> QED
  BY <1>2, <1>3, <1>6, <1>7

(* Sets of which a map takes one to the other, one to one, have one size.  *)
LEMMA SameSize ==
    ASSUME NEW S, NEW T, IsFiniteSet(S), NEW F \in [S -> T],
           \A a, b \in S : F[a] = F[b] => a = b,
           \A t \in T : \E a \in S : F[a] = t
    PROVE  Cardinality(T) = Cardinality(S)
<1>1. F \in Bijection(S, T)
  BY DEF Bijection, Injection, Surjection, IsInjective
<1> QED
  BY <1>1, FS_Bijection, Zenon DEF ExistsBijection

(* As many places have a rank above r as there are beyond r. *)
LEMMA Beyond ==
    ASSUME NEW n \in Nat, NEW P \in SUBSET (1..n), NEW r \in Nat
    PROVE  Cardinality({i \in P : Rank(i, P) > r})
             = IF Cardinality(P) > r THEN Cardinality(P) - r ELSE 0
<1> DEFINE S == {i \in P : Rank(i, P) > r}
           T == 1..(IF Cardinality(P) > r THEN Cardinality(P) - r ELSE 0)
           F == [i \in S |-> Rank(i, P) - r]
<1>1. Cardinality(P) \in Nat
  BY Sizes
<1>2. S \in SUBSET (1..n) /\ IsFiniteSet(S)
  <2>1. S \in SUBSET (1..n)
    OBVIOUS
  <2> HIDE DEF S
  <2> QED BY <2>1, Sizes
<1>3. \A i \in P : Rank(i, P) \in 1..Cardinality(P)
  BY Ranks
<1>4. F \in [S -> T]
  <2> SUFFICES ASSUME NEW i \in S PROVE Rank(i, P) - r \in T
    OBVIOUS
  <2>1. Rank(i, P) \in 1..Cardinality(P) /\ Rank(i, P) > r
    BY <1>3
  <2> QED BY <2>1, <1>1
<1>5. \A a, b \in S : F[a] = F[b] => a = b
  <2> SUFFICES ASSUME NEW a \in S, NEW b \in S, a # b PROVE Rank(a, P) - r # Rank(b, P) - r
    OBVIOUS
  <2>1. a < b \/ b < a
    OBVIOUS
  <2>2. Rank(a, P) < Rank(b, P) \/ Rank(b, P) < Rank(a, P)
    BY <2>1, Ranks
  <2> QED BY <2>2, <1>3, <1>1
<1>6. \A t \in T : \E a \in S : F[a] = t
  <2> SUFFICES ASSUME NEW t \in T PROVE \E a \in S : Rank(a, P) - r = t
    OBVIOUS
  <2>1. t + r \in 1..Cardinality(P) /\ t + r > r
    BY <1>1
  <2>2. PICK a \in P : Rank(a, P) = t + r
    BY <2>1, Ranks
  <2> QED BY <2>1, <2>2
<1>7. Cardinality(T) = Cardinality(S)
  <2> HIDE DEF S, T, F
  <2> QED BY <1>2, <1>4, <1>5, <1>6, SameSize
<1>8. Cardinality(T) = IF Cardinality(P) > r THEN Cardinality(P) - r ELSE 0
  BY <1>1, SizeOfFirst
<1> QED
  BY <1>7, <1>8

-----------------------------------------------------------------------------
(* Counting the places of a sequence *)

LEMMA CountType ==
    ASSUME NEW V, NEW s \in Seq(V), NEW K
    PROVE  /\ Places(s, K) \in SUBSET (1..Len(s)) /\ Len(s) \in Nat
           /\ IsFiniteSet(Places(s, K)) /\ Count(s, K) \in Nat
<1>1. Places(s, K) \in SUBSET (1..Len(s)) /\ Len(s) \in Nat
  BY DEF Places
<1> QED
  BY <1>1, Sizes DEF Count

(* What two disjoint sets of kinds have together. *)
LEMMA CountUnion ==
    ASSUME NEW V, NEW s \in Seq(V), NEW K, NEW L, \A k \in K : k \notin L
    PROVE  Count(s, K \cup L) = Count(s, K) + Count(s, L)
<1>1. Places(s, K \cup L) = Places(s, K) \cup Places(s, L) /\ Places(s, K) \cap Places(s, L) = {}
  BY DEF Places
<1>2. IsFiniteSet(Places(s, K)) /\ IsFiniteSet(Places(s, L))
  BY CountType
<1>3. Cardinality(Places(s, K) \cup Places(s, L))
        = Cardinality(Places(s, K)) + Cardinality(Places(s, L)) - Cardinality(Places(s, K) \cap Places(s, L))
  BY <1>2, FS_Union, Zenon
<1>4. Cardinality(Places(s, K) \cap Places(s, L)) = 0
  BY <1>1, FS_EmptySet, Zenon
<1>5. Count(s, K) \in Nat /\ Count(s, L) \in Nat
  BY CountType
<1>6. /\ Count(s, K \cup L) = Cardinality(Places(s, K) \cup Places(s, L))
      /\ Count(s, K) = Cardinality(Places(s, K)) /\ Count(s, L) = Cardinality(Places(s, L))
  BY <1>1 DEF Count
<1> QED
  BY <1>3, <1>4, <1>5, <1>6

(* Of what does not occur there is nothing. *)
LEMMA CountNone ==
    ASSUME NEW V, NEW s \in Seq(V), NEW K, \A i \in DOMAIN s : s[i] \notin K
    PROVE  Count(s, K) = 0
<1>1. Places(s, K) = {}
  BY DEF Places
<1> QED
  BY <1>1, FS_EmptySet DEF Count

LEMMA CountJoin ==
    ASSUME NEW V, NEW s \in Seq(V), NEW t \in Seq(V), NEW K
    PROVE  Count(s \o t, K) = Count(s, K) + Count(t, K)
<1> DEFINE A == Places(s, K)
           B == Places(t, K)
           C == {i \in (Len(s) + 1)..(Len(s) + Len(t)) : (s \o t)[i] \in K}
           F == [i \in B |-> Len(s) + i]
<1>1. /\ s \o t \in Seq(V) /\ Len(s \o t) = Len(s) + Len(t) /\ Len(s) \in Nat /\ Len(t) \in Nat
      /\ \A i \in 1..Len(s) : (s \o t)[i] = s[i]
      /\ \A i \in 1..Len(t) : (s \o t)[Len(s) + i] = t[i]
  OBVIOUS
<1>2. Places(s \o t, K) = A \cup C /\ A \cap C = {}
  BY <1>1 DEF Places
<1>3. IsFiniteSet(A) /\ IsFiniteSet(B) /\ IsFiniteSet(C)
  <2>1. IsFiniteSet(A) /\ IsFiniteSet(B)
    BY CountType
  <2>2. C \in SUBSET Places(s \o t, K)
    BY <1>2
  <2>3. IsFiniteSet(Places(s \o t, K))
    BY <1>1, CountType
  <2> HIDE DEF A, B, C
  <2> QED BY <2>1, <2>2, <2>3, FS_Subset, Zenon
<1>4. Cardinality(C) = Cardinality(B)
  <2>1. F \in [B -> C]
    BY <1>1 DEF Places
  <2>2. \A a, b \in B : F[a] = F[b] => a = b
    BY <1>1 DEF Places
  <2>3. \A c \in C : \E a \in B : F[a] = c
    <3> SUFFICES ASSUME NEW c \in C PROVE \E a \in B : Len(s) + a = c
      OBVIOUS
    <3>1. c - Len(s) \in 1..Len(t) /\ Len(s) + (c - Len(s)) = c
      BY <1>1
    <3>2. c - Len(s) \in B
      BY <1>1, <3>1 DEF Places
    <3> QED BY <3>1, <3>2
  <2> HIDE DEF B, C, F
  <2> QED BY <1>3, <2>1, <2>2, <2>3, SameSize
<1>5. Cardinality(A \cup C) = Cardinality(A) + Cardinality(C) - Cardinality(A \cap C)
  <2> HIDE DEF A, C
  <2> QED BY <1>3, FS_Union, Zenon
<1>6. Cardinality(A \cap C) = 0
  BY <1>2, FS_EmptySet
<1>7. Count(s, K) \in Nat /\ Count(t, K) \in Nat
  BY CountType
<1>8. Count(s, K) = Cardinality(A) /\ Count(t, K) = Cardinality(B) /\ Count(s \o t, K) = Cardinality(A \cup C)
  BY <1>2 DEF Count
<1> HIDE DEF A, B, C
<1> QED
  BY <1>4, <1>5, <1>6, <1>7, <1>8

One(e, K) == IF e \in K THEN 1 ELSE 0

LEMMA CountOne ==
    ASSUME NEW e, NEW K
    PROVE  Count(<<e>>, K) = One(e, K)
<1>1. Places(<<e>>, K) = IF e \in K THEN {1} ELSE {}
  BY DEF Places
<1> QED
  BY <1>1, FS_EmptySet, FS_Singleton DEF Count, One

(* A sequence is what stands before a place, and what from there on. *)
LEMMA Split ==
    ASSUME NEW V, NEW s \in Seq(V), NEW i \in 1..(Len(s) + 1)
    PROVE  /\ SubSeq(s, 1, i - 1) \in Seq(V) /\ Len(SubSeq(s, 1, i - 1)) = i - 1
           /\ SubSeq(s, i, Len(s)) \in Seq(V) /\ Len(SubSeq(s, i, Len(s))) = Len(s) - i + 1
           /\ s = SubSeq(s, 1, i - 1) \o SubSeq(s, i, Len(s))
<1> DEFINE a == SubSeq(s, 1, i - 1)
           b == SubSeq(s, i, Len(s))
<1>1. /\ Len(s) \in Nat /\ i \in Nat
      /\ a = [k \in 1..(i - 1) |-> s[k]]
      /\ b = [k \in 1..(Len(s) - i + 1) |-> s[k + i - 1]]
  OBVIOUS
<1>2. a \in Seq(V) /\ Len(a) = i - 1
  OBVIOUS
<1>3. b \in Seq(V) /\ Len(b) = Len(s) - i + 1
  OBVIOUS
<1>4. a \o b \in Seq(V) /\ Len(a \o b) = Len(s)
  BY <1>1, <1>2, <1>3
<1>5. ASSUME NEW k \in 1..Len(s) PROVE s[k] = (a \o b)[k]
  <2>1. CASE k < i
    <3>1. a[k] = s[k]
      BY <2>1, <1>1
    <3> QED BY <3>1, <2>1, <1>1, <1>2, <1>3
  <2>2. CASE k >= i
    <3>1. b[k - i + 1] = s[k]
      BY <2>2, <1>1
    <3> QED BY <3>1, <2>2, <1>1, <1>2, <1>3
  <2>3. k < i \/ k >= i
    BY <1>1
  <2> QED BY <2>1, <2>2, <2>3
<1> HIDE DEF a, b
<1>6. s = a \o b
  <2>1. DOMAIN s = 1..Len(s) /\ DOMAIN (a \o b) = 1..Len(s)
    BY <1>4
  <2> QED BY <2>1, <1>4, <1>5, SeqEqual, Zenon
<1> QED
  BY <1>2, <1>3, <1>6 DEF a, b

(* An edit adds one place or takes one away. *)
LEMMA CountInsert ==
    ASSUME NEW V, NEW s \in Seq(V), NEW i \in 1..(Len(s) + 1), NEW e \in V
    PROVE  /\ InsertAt(s, i, e) \in Seq(V) /\ Len(InsertAt(s, i, e)) = Len(s) + 1
           /\ \A K : Count(InsertAt(s, i, e), K) = Count(s, K) + One(e, K)
<1> DEFINE a == SubSeq(s, 1, i - 1)
           b == SubSeq(s, i, Len(s))
<1>1. /\ a \in Seq(V) /\ b \in Seq(V) /\ <<e>> \in Seq(V) /\ Len(<<e>>) = 1
      /\ Len(a) = i - 1 /\ Len(b) = Len(s) - i + 1 /\ s = a \o b
  <2>1. <<e>> \in Seq(V) /\ Len(<<e>>) = 1
    OBVIOUS
  <2> HIDE DEF a, b
  <2> QED BY <2>1, Split, Zenon DEF a, b
<1>3. InsertAt(s, i, e) = a \o <<e>> \o b
  BY DEF InsertAt
<1> HIDE DEF a, b
<1>4. a \o <<e>> \in Seq(V) /\ a \o <<e>> \o b \in Seq(V) /\ Len(a \o <<e>> \o b) = Len(s) + 1
  BY <1>1
<1>5. ASSUME NEW K PROVE Count(InsertAt(s, i, e), K) = Count(s, K) + One(e, K)
  <2>1. Count(a \o b, K) = Count(a, K) + Count(b, K)
    BY <1>1, CountJoin, Zenon
  <2>2. Count(a \o <<e>> \o b, K) = Count(a \o <<e>>, K) + Count(b, K)
    BY <1>1, <1>4, CountJoin, Zenon
  <2>3. Count(a \o <<e>>, K) = Count(a, K) + Count(<<e>>, K)
    BY <1>1, CountJoin, Zenon
  <2>4. Count(<<e>>, K) = One(e, K)
    BY CountOne
  <2>5. Count(a, K) \in Nat /\ Count(b, K) \in Nat /\ One(e, K) \in Nat
    BY <1>1, CountType DEF One
  <2> QED BY <1>1, <1>3, <2>1, <2>2, <2>3, <2>4, <2>5
<1> QED
  BY <1>3, <1>4, <1>5

LEMMA CountRemove ==
    ASSUME NEW V, NEW s \in Seq(V), NEW i \in 1..Len(s)
    PROVE  /\ RemoveAt(s, i) \in Seq(V) /\ Len(RemoveAt(s, i)) = Len(s) - 1
           /\ \A K : Count(RemoveAt(s, i), K) = Count(s, K) - One(s[i], K)
<1> DEFINE a == SubSeq(s, 1, i - 1)
           c == SubSeq(s, i, Len(s))
           b == SubSeq(s, i + 1, Len(s))
<1>1. /\ a \in Seq(V) /\ c \in Seq(V) /\ Len(a) = i - 1 /\ Len(c) = Len(s) - i + 1
      /\ s = a \o c
  BY Split
<1>2. b \in Seq(V) /\ Len(b) = Len(s) - i
  OBVIOUS
<1>3. c = <<s[i]>> \o b
  <2>1. c = [k \in 1..(Len(s) - i + 1) |-> s[k + i - 1]]
    OBVIOUS
  <2>2. <<s[i]>> \o b = [k \in 1..(Len(s) - i + 1) |-> IF k = 1 THEN s[i] ELSE s[k + i - 1]]
    OBVIOUS
  <2> QED BY <2>1, <2>2
<1>4. RemoveAt(s, i) = a \o b
  BY DEF RemoveAt
<1> HIDE DEF a, b, c
<1>5. a \o b \in Seq(V) /\ Len(a \o b) = Len(s) - 1 /\ <<s[i]>> \in Seq(V)
  <2>1. s[i] \in V
    OBVIOUS
  <2>2. a \o b \in Seq(V) /\ Len(a \o b) = Len(a) + Len(b)
    BY <1>1, <1>2, ConcatProperties, Zenon
  <2> QED BY <2>1, <2>2, <1>1, <1>2
<1>6. ASSUME NEW K PROVE Count(RemoveAt(s, i), K) = Count(s, K) - One(s[i], K)
  <2>1. Count(a \o b, K) = Count(a, K) + Count(b, K)
    BY <1>1, <1>2, CountJoin, Zenon
  <2>2. Count(a \o c, K) = Count(a, K) + Count(c, K)
    BY <1>1, CountJoin, Zenon
  <2>3. Count(<<s[i]>> \o b, K) = Count(<<s[i]>>, K) + Count(b, K)
    BY <1>2, <1>5, CountJoin, Zenon
  <2>4. Count(<<s[i]>>, K) = One(s[i], K)
    BY CountOne
  <2>5. Count(a, K) \in Nat /\ Count(b, K) \in Nat /\ One(s[i], K) \in Nat
    BY <1>1, <1>2, CountType DEF One
  <2>6. Count(s, K) = Count(a \o c, K) /\ Count(c, K) = Count(<<s[i]>> \o b, K)
    BY <1>1, <1>3, Zenon
  <2>7. Count(s, K) = Count(a, K) + One(s[i], K) + Count(b, K)
    <3> HIDE DEF One
    <3> QED BY <2>2, <2>3, <2>4, <2>5, <2>6
  <2> QED BY <1>4, <2>1, <2>5, <2>7
<1> QED
  BY <1>4, <1>5, <1>6

(* What is picked from a sequence is what stands at the places.            *)
LEMMA Picked ==
    ASSUME NEW V, NEW s \in Seq(V), NEW P \in SUBSET (1..Len(s))
    PROVE  /\ Pick(s, P) \in Seq(V) /\ Len(Pick(s, P)) = Cardinality(P)
           /\ \A n \in 1..Cardinality(P) : \E i \in P : Pick(s, P)[n] = s[i]
           /\ \A K : Count(Pick(s, P), K) = Cardinality({i \in P : s[i] \in K})
<1> DEFINE At(n) == CHOOSE i \in P : Rank(i, P) = n
           N == Cardinality(P)
<1>1. Len(s) \in Nat /\ N \in Nat
  <2>1. Len(s) \in Nat
    OBVIOUS
  <2> QED BY <2>1, Sizes
<1>0. /\ \A i \in P : Rank(i, P) \in 1..N
      /\ \A i, j \in P : i < j => Rank(i, P) < Rank(j, P)
      /\ \A r \in 1..N : \E i \in P : Rank(i, P) = r
  BY <1>1, Ranks
<1>2. \A n \in 1..N : At(n) \in P /\ Rank(At(n), P) = n
  BY <1>0
<1>3. \A i \in P : Rank(i, P) \in 1..N /\ At(Rank(i, P)) = i
  <2> SUFFICES ASSUME NEW i \in P PROVE Rank(i, P) \in 1..N /\ At(Rank(i, P)) = i
    OBVIOUS
  <2>1. Rank(i, P) \in 1..N
    BY <1>0
  <2> DEFINE j == At(Rank(i, P))
  <2>2. j \in P /\ Rank(j, P) = Rank(i, P)
    BY <1>2, <2>1
  <2> HIDE DEF j
  <2>3. ~(i < j) /\ ~(j < i)
    BY <1>0, <1>1, <2>1, <2>2
  <2>4. i = j
    BY <2>2, <2>3
  <2> QED BY <2>1, <2>4 DEF j
<1>4. Pick(s, P) = [n \in 1..N |-> s[At(n)]]
  BY DEF Pick
<1>5. \A i \in P : s[i] \in V
  OBVIOUS
<1>6. Pick(s, P) \in Seq(V) /\ Len(Pick(s, P)) = N
  <2> HIDE DEF At, N
  <2>1. \A n \in 1..N : s[At(n)] \in V
    BY <1>2, <1>5
  <2>2. [n \in 1..N |-> s[At(n)]] \in Seq(V)
    BY <1>1, <2>1
  <2> QED BY <1>1, <1>4, <2>2
<1>7. ASSUME NEW K PROVE Count(Pick(s, P), K) = Cardinality({i \in P : s[i] \in K})
  <2> DEFINE S == {i \in P : s[i] \in K}
             T == {n \in 1..N : s[At(n)] \in K}
             F == [i \in S |-> Rank(i, P)]
  <2>1. Places(Pick(s, P), K) = T
    BY <1>4, <1>6 DEF Places
  <2>2. IsFiniteSet(S)
    <3>1. S \in SUBSET (1..Len(s))
      OBVIOUS
    <3> HIDE DEF S
    <3> QED BY <1>1, <3>1, Sizes
  <2> HIDE DEF At, N
  <2>3. F \in [S -> T]
    BY <1>3
  <2>4. \A a, b \in S : F[a] = F[b] => a = b
    BY <1>3
  <2>5. \A t \in T : \E a \in S : F[a] = t
    BY <1>2
  <2> HIDE DEF S, T, F
  <2>6. Cardinality(T) = Cardinality(S)
    BY <2>2, <2>3, <2>4, <2>5, SameSize
  <2> QED BY <2>1, <2>6 DEF Count, S
<1>8. \A n \in 1..N : \E i \in P : Pick(s, P)[n] = s[i]
  <2> HIDE DEF At, N
  <2> QED BY <1>2, <1>4
<1> QED
  BY <1>6, <1>7, <1>8

-----------------------------------------------------------------------------
(* Findings *)

(* Those of a pattern in a file whose match is one of some, and the kinds  *)
(* of places that give them.                                               *)
Of(f, p, matches) == {x \in Finding : x.file = f /\ x.pattern = p /\ x.match \in matches}
Kin(p, matches)   == {k \in Matching(p) : Match(p, k) \in matches}

LEMMA PatternsAre ==
    /\ Range(Patterns) = {"secret", "random", "query"}
    /\ Patterns[1] = "secret" /\ Patterns[2] = "random" /\ Patterns[3] = "query"
    /\ \A p \in Range(Patterns) : Matching(p) \subseteq Kinds
    /\ \A p \in Range(Patterns) : \A k \in Matching(p) : Match(p, k) \in Kinds
  BY DEF Patterns, Range, Matching, Match, Kinds

(* A scan of one pattern finds a match at each place that holds one, and   *)
(* nothing in another file.                                                *)
LEMMA PatternCounted ==
    ASSUME NEW f \in Files, text[f] \in Seq(Kinds), NEW p \in Range(Patterns)
    PROVE  /\ FindingsOf(f, p) \in Seq(Finding)
           /\ \A g, q, matches :
                Count(FindingsOf(f, p), Of(g, q, matches))
                  = IF g = f /\ q = p THEN Count(text[f], Kin(p, matches)) ELSE 0
<1> DEFINE P == Places(text[f], Matching(p))
           kinds == Pick(text[f], P)
           X(k) == [file |-> f, pattern |-> p, match |-> Match(p, k)]
           S == [n \in 1..Len(kinds) |-> X(kinds[n])]
<1>1. P \in SUBSET (1..Len(text[f])) /\ Len(text[f]) \in Nat
  BY CountType
<1>2. /\ kinds \in Seq(Kinds) /\ Len(kinds) \in Nat /\ Len(kinds) = Cardinality(P)
      /\ \A n \in 1..Cardinality(P) : \E i \in P : kinds[n] = text[f][i]
      /\ \A K : Count(kinds, K) = Cardinality({i \in P : text[f][i] \in K})
  <2> HIDE DEF P
  <2> QED BY <1>1, Picked
<1>3. \A n \in 1..Len(kinds) : kinds[n] \in Matching(p)
  <2>1. \A i \in P : text[f][i] \in Matching(p)
    BY DEF Places
  <2> HIDE DEF P, kinds
  <2> QED BY <2>1, <1>2
<1>4. FindingsOf(f, p) = S
  <2>1. DOMAIN kinds = 1..Len(kinds)
    BY <1>2
  <2> QED BY <2>1 DEF FindingsOf
<1> HIDE DEF kinds, P
<1>5. \A k \in Matching(p) : X(k) \in Finding
  BY PatternsAre DEF Finding
<1>6. S \in Seq(Finding)
  <2>1. \A n \in 1..Len(kinds) : X(kinds[n]) \in Finding
    BY <1>3, <1>5
  <2> QED BY <2>1, <1>2
<1>7. ASSUME NEW g, NEW q, NEW matches
      PROVE  Count(S, Of(g, q, matches))
               = IF g = f /\ q = p THEN Count(text[f], Kin(p, matches)) ELSE 0
  <2>1. DOMAIN S = 1..Len(kinds) /\ \A n \in 1..Len(kinds) : S[n] = X(kinds[n])
    OBVIOUS
  <2>2. CASE ~(g = f /\ q = p)
    <3>1. \A n \in DOMAIN S : S[n] \notin Of(g, q, matches)
      BY <2>1, <2>2 DEF Of
    <3> HIDE DEF S
    <3> QED BY <3>1, <2>2, <1>6, CountNone
  <2>3. CASE g = f /\ q = p
    <3>1. \A k \in Matching(p) : X(k) \in Of(f, p, matches) <=> k \in Kin(p, matches)
      BY <1>5 DEF Of, Kin
    <3>2. Places(S, Of(f, p, matches)) = Places(kinds, Kin(p, matches))
      <4>1. DOMAIN kinds = 1..Len(kinds)
        BY <1>2
      <4> HIDE DEF S, X
      <4> QED BY <4>1, <2>1, <3>1, <1>3 DEF Places
    <3>3. {i \in P : text[f][i] \in Kin(p, matches)} = Places(text[f], Kin(p, matches))
      BY DEF P, Places, Kin
    <3> HIDE DEF S
    <3> QED BY <2>3, <3>2, <3>3, <1>2 DEF Count
  <2> QED BY <2>2, <2>3
<1> HIDE DEF S
<1> QED
  BY <1>4, <1>6, <1>7

(* scan_file finds each match of each pattern once.                        *)
LEMMA FileCounted ==
    ASSUME NEW f \in Files, text[f] \in Seq(Kinds)
    PROVE  /\ FindingsIn(f) \in Seq(Finding)
           /\ \A g \in Files, p \in Range(Patterns) : \A matches :
                Count(FindingsIn(f), Of(g, p, matches))
                  = IF g = f THEN Count(text[f], Kin(p, matches)) ELSE 0
<1> DEFINE s == FindingsOf(f, "secret")
           r == FindingsOf(f, "random")
           q == FindingsOf(f, "query")
<1>1. FindingsIn(f) = s \o r \o q
  BY PatternsAre DEF FindingsIn
<1>2. s \in Seq(Finding) /\ r \in Seq(Finding) /\ q \in Seq(Finding)
  BY PatternsAre, PatternCounted
<1> HIDE DEF s, r, q
<1>3. s \o r \in Seq(Finding) /\ s \o r \o q \in Seq(Finding)
  BY <1>2, ConcatProperties, Zenon
<1>4. ASSUME NEW g \in Files, NEW p \in Range(Patterns), NEW matches
      PROVE  Count(s \o r \o q, Of(g, p, matches)) = IF g = f THEN Count(text[f], Kin(p, matches)) ELSE 0
  <2> DEFINE K == Of(g, p, matches)
  <2>1. Count(s \o r \o q, K) = Count(s \o r, K) + Count(q, K) /\ Count(s \o r, K) = Count(s, K) + Count(r, K)
    BY <1>2, <1>3, CountJoin, ZenonT(60)
  <2>2. /\ Count(s, K) = IF g = f /\ p = "secret" THEN Count(text[f], Kin("secret", matches)) ELSE 0
        /\ Count(r, K) = IF g = f /\ p = "random" THEN Count(text[f], Kin("random", matches)) ELSE 0
        /\ Count(q, K) = IF g = f /\ p = "query" THEN Count(text[f], Kin("query", matches)) ELSE 0
    BY PatternsAre, PatternCounted DEF s, r, q
  <2>3. Count(text[f], Kin(p, matches)) \in Nat
    BY CountType
  <2>4. p = "secret" \/ p = "random" \/ p = "query"
    BY PatternsAre
  <2> HIDE DEF K
  <2>5. CASE g # f
    BY <2>1, <2>2, <2>5 DEF K
  <2>6. CASE g = f
    <3>1. Count(s \o r \o q, K) = Count(text[f], Kin(p, matches))
      BY <2>1, <2>2, <2>3, <2>4, <2>6
    <3> QED BY <3>1, <2>6 DEF K
  <2> QED BY <2>5, <2>6
<1> QED
  BY <1>1, <1>3, <1>4

-----------------------------------------------------------------------------
(* Fixes *)

Over(c, n) == IF c > n THEN c - n ELSE 0

(* The fixes a file gets for a match of a pattern. *)
Fixes(f, p, m) == Cardinality(Found(f, p, m))

(* A finding has a match that its pattern can have. *)
Sound(f) == \A m \in Kinds : /\ m \notin Matching("secret") => Fixes(f, "secret", m) = 0
                             /\ m # "random" => Fixes(f, "random", m) = 0

LEMMA FixesCounted ==
    ASSUME findings \in Seq(Finding), NEW f \in Files, NEW p \in Range(Patterns), NEW m \in Kinds
    PROVE  Fixes(f, p, m) = Count(findings, Of(f, p, {m})) /\ Fixes(f, p, m) \in Nat
<1>1. Of(f, p, {m}) = {[file |-> f, pattern |-> p, match |-> m]}
  BY DEF Of, Finding
<1>2. Found(f, p, m) = Places(findings, Of(f, p, {m}))
  BY <1>1 DEF Found, Places
<1>3. Count(findings, Of(f, p, {m})) \in Nat
  BY CountType
<1> QED
  BY <1>2, <1>3 DEF Fixes, Count

(* The fixes of a pattern leave a text of the same places. *)
LEMMA PatchType ==
    ASSUME NEW f, NEW t \in Seq(Kinds), NEW p \in Fixable, NEW garbled
    PROVE  /\ Patch(t, f, p, garbled) \in Seq(Kinds) /\ Len(Patch(t, f, p, garbled)) = Len(t)
           /\ \A i \in 1..Len(t) :
                Patch(t, f, p, garbled)[i] = IF i \in ToPatch(t, f, p, garbled) THEN FixedBy(p, t[i]) ELSE t[i]
<1>1. /\ Len(t) \in Nat /\ DOMAIN t = 1..Len(t)
      /\ Patch(t, f, p, garbled) = [i \in 1..Len(t) |-> IF i \in ToPatch(t, f, p, garbled) THEN FixedBy(p, t[i]) ELSE t[i]]
  BY DEF Patch
<1>2. \A i \in 1..Len(t) : FixedBy(p, t[i]) \in Kinds /\ t[i] \in Kinds
  BY DEF FixedBy, Kinds
<1> QED
  BY <1>1, <1>2

(* A place has a rank of at least one, so that no fix leaves it as it is.  *)
LEMMA RankPositive ==
    ASSUME NEW t \in Seq(Kinds), NEW K, NEW i \in Places(t, K)
    PROVE  Rank(i, Places(t, K)) \in Nat /\ Rank(i, Places(t, K)) > 0
<1>1. Places(t, K) \in SUBSET (1..Len(t)) /\ Len(t) \in Nat
  BY CountType
<1>2. Rank(i, Places(t, K)) \in 1..Cardinality(Places(t, K)) /\ Cardinality(Places(t, K)) \in Nat
  BY <1>1, Ranks, Sizes
<1> QED
  BY <1>2

(* The fixes of secrets take as many places of each kind as there are      *)
(* findings with its match, and no others; none of those that are garbled. *)
LEMMA SecretsPatched ==
    ASSUME findings \in Seq(Finding), NEW f \in Files, Sound(f), NEW t \in Seq(Kinds),
           NEW garbled, NEW k \in Kinds \ {"plain"}
    PROVE  Count(Patch(t, f, "secret", garbled), {k})
             = Over(Count(t, {k}), IF k \in garbled THEN 0 ELSE Fixes(f, "secret", k))
<1> DEFINE u == Patch(t, f, "secret", garbled)
           P == Places(t, {k})
           n == IF k \in garbled THEN 0 ELSE Fixes(f, "secret", k)
<1>1. /\ u \in Seq(Kinds) /\ Len(u) = Len(t)
      /\ \A i \in 1..Len(t) : u[i] = IF i \in ToPatch(t, f, "secret", garbled) THEN "plain" ELSE t[i]
  <2>1. "secret" \in Fixable /\ \A k1 : FixedBy("secret", k1) = "plain"
    BY DEF Fixable, FixedBy
  <2> QED BY <2>1, PatchType
<1>2. n \in Nat /\ P \in SUBSET (1..Len(t)) /\ Len(t) \in Nat
  BY PatternsAre, FixesCounted, CountType
<1>3. \A i \in P : i \in ToPatch(t, f, "secret", garbled) <=> Rank(i, P) <= n
  <2> SUFFICES ASSUME NEW i \in P PROVE i \in ToPatch(t, f, "secret", garbled) <=> Rank(i, P) <= n
    OBVIOUS
  <2>1. i \in 1..Len(t) /\ t[i] = k
    BY <1>2 DEF Places
  <2>2. i \in ToPatch(t, f, "secret", garbled) <=>
          \E m \in Kinds \ garbled :
              k \in Holding(m) /\ Rank(i, Places(t, Holding(m))) <= Fixes(f, "secret", m)
    BY <2>1 DEF ToPatch, Fixes
  <2>5. Rank(i, P) \in Nat /\ Rank(i, P) > 0
    BY RankPositive
  <2>3. CASE k = "random" \/ k = "wrapped"
    <3>1. Fixes(f, "secret", "random") = 0
      BY DEF Sound, Kinds, Matching
    <3>2. k \in Holding("random") /\ i \in Places(t, Holding("random"))
      BY <2>1, <2>3 DEF Holding, Matching, Places
    <3>3. ~(Rank(i, Places(t, Holding("random"))) <= Fixes(f, "secret", "random"))
      BY <3>1, <3>2, RankPositive
    <3>4. CASE k = "wrapped"
      <4>1. \A m \in Kinds : k \in Holding(m) <=> m \in {"wrapped", "random"}
        BY <3>4 DEF Holding, Matching, Kinds
      <4>2. Holding(k) = {k}
        BY <3>4 DEF Holding
      <4>3. k \in garbled \/ ~(k \in garbled)
        OBVIOUS
      <4>4. i \in ToPatch(t, f, "secret", garbled)
              <=> k \notin garbled /\ Rank(i, P) <= Fixes(f, "secret", k)
        BY <2>2, <3>3, <3>4, <4>1, <4>2
      <4> QED BY <2>5, <4>4
    <3>5. CASE k = "random"
      <4>1. \A m \in Kinds : k \in Holding(m) <=> m = "random"
        BY <3>5 DEF Holding, Matching, Kinds
      <4>2. ~(Rank(i, P) <= n)
        BY <3>1, <3>5, RankPositive
      <4> QED BY <2>2, <3>3, <4>1, <4>2
    <3> QED BY <2>3, <3>4, <3>5
  <2>4. CASE k # "random" /\ k # "wrapped"
    <3>1. \A m \in Kinds : k \in Holding(m) <=> m = k
      BY <2>4 DEF Holding, Matching, Kinds
    <3>2. Holding(k) = {k}
      BY <2>4 DEF Holding
    <3>3. i \in ToPatch(t, f, "secret", garbled)
            <=> k \notin garbled /\ Rank(i, P) <= Fixes(f, "secret", k)
      BY <2>2, <3>1, <3>2
    <3> QED BY <2>5, <3>3
  <2> QED BY <2>3, <2>4
<1>4. Places(u, {k}) = {i \in P : Rank(i, P) > n}
  <2>1. \A i \in P : Rank(i, P) \in Nat
    BY RankPositive
  <2>2. Places(u, {k}) = {i \in P : i \notin ToPatch(t, f, "secret", garbled)}
    BY <1>1 DEF Places
  <2>3. \A i \in P : i \notin ToPatch(t, f, "secret", garbled) <=> Rank(i, P) > n
    <3> HIDE DEF P, n
    <3> QED BY <1>2, <1>3, <2>1
  <2> HIDE DEF P, n, u
  <2> QED BY <2>2, <2>3
<1>5. Cardinality({i \in P : Rank(i, P) > n}) = IF Cardinality(P) > n THEN Cardinality(P) - n ELSE 0
  <2> HIDE DEF P, n
  <2> QED BY <1>2, Beyond
<1> QED
  BY <1>4, <1>5 DEF Count, Over

(* The fixes of generators take the first of those that stand by           *)
(* themselves or in a secret, and keep the secrets.                        *)
LEMMA RandomPatched ==
    ASSUME findings \in Seq(Finding), NEW f \in Files, Sound(f), NEW t \in Seq(Kinds),
           NEW garbled, "random" \notin garbled
    PROVE  LET u == Patch(t, f, "random", garbled)
           IN  /\ Count(u, {"random", "wrapped"})
                    = Over(Count(t, {"random", "wrapped"}), Fixes(f, "random", "random"))
               /\ Count(u, {"wrapped", "masked"}) = Count(t, {"wrapped", "masked"})
               /\ Count(u, {"secret"}) = Count(t, {"secret"})
               /\ Count(u, {"quoted"}) = Count(t, {"quoted"})
               /\ Count(u, {"query"}) = Count(t, {"query"})
<1> DEFINE u == Patch(t, f, "random", garbled)
           P == Places(t, {"random", "wrapped"})
           n == Fixes(f, "random", "random")
<1>1. /\ u \in Seq(Kinds) /\ Len(u) = Len(t)
      /\ \A i \in 1..Len(t) :
           u[i] = IF i \in ToPatch(t, f, "random", garbled) THEN (IF t[i] = "wrapped" THEN "masked" ELSE "plain")
                                                   ELSE t[i]
  <2>1. /\ "random" \in Fixable
        /\ \A k : FixedBy("random", k) = IF k = "wrapped" THEN "masked" ELSE "plain"
    BY DEF Fixable, FixedBy
  <2> QED BY <2>1, PatchType
<1>2. n \in Nat /\ P \in SUBSET (1..Len(t)) /\ Len(t) \in Nat
  BY PatternsAre, FixesCounted, CountType DEF Kinds
<1>3. \A i \in 1..Len(t) : i \in ToPatch(t, f, "random", garbled) <=> i \in P /\ Rank(i, P) <= n
  <2> SUFFICES ASSUME NEW i \in 1..Len(t)
               PROVE  i \in ToPatch(t, f, "random", garbled) <=> i \in P /\ Rank(i, P) <= n
    OBVIOUS
  <2>1. i \in ToPatch(t, f, "random", garbled) <=>
          \E m \in Kinds \ garbled : t[i] \in Holding(m) /\ Rank(i, Places(t, Holding(m))) <= Fixes(f, "random", m)
    BY DEF ToPatch, Fixes
  <2>2. ASSUME NEW m \in Kinds, m # "random", t[i] \in Holding(m)
        PROVE  ~(Rank(i, Places(t, Holding(m))) <= Fixes(f, "random", m))
    <3>1. Fixes(f, "random", m) = 0
      BY <2>2 DEF Sound
    <3>2. i \in Places(t, Holding(m))
      BY <2>2 DEF Places
    <3> QED BY <3>1, <3>2, RankPositive
  <2>3. Holding("random") = {"random", "wrapped"} /\ "random" \in Kinds
    BY DEF Holding, Matching, Kinds
  <2>4. i \in P <=> t[i] \in {"random", "wrapped"}
    BY DEF Places
  <2> HIDE DEF P, n
  <2> QED BY <2>1, <2>2, <2>3, <2>4 DEF P, n
<1>4. Places(u, {"random", "wrapped"}) = {i \in P : Rank(i, P) > n}
  <2>1. \A i \in P : Rank(i, P) \in Nat
    BY RankPositive
  <2>2. Places(u, {"random", "wrapped"}) = {i \in P : i \notin ToPatch(t, f, "random", garbled)}
    BY <1>1 DEF Places
  <2>3. \A i \in P : i \notin ToPatch(t, f, "random", garbled) <=> Rank(i, P) > n
    <3> HIDE DEF P, n
    <3> QED BY <1>2, <1>3, <2>1
  <2> HIDE DEF P, n, u
  <2> QED BY <2>2, <2>3
<1>5. Cardinality({i \in P : Rank(i, P) > n}) = IF Cardinality(P) > n THEN Cardinality(P) - n ELSE 0
  <2> HIDE DEF P, n
  <2> QED BY <1>2, Beyond
<1>6. \A i \in 1..Len(t) : i \in ToPatch(t, f, "random", garbled) => t[i] \in {"random", "wrapped"}
  BY <1>3 DEF Places
<1>7. /\ Places(u, {"wrapped", "masked"}) = Places(t, {"wrapped", "masked"})
      /\ Places(u, {"secret"}) = Places(t, {"secret"})
      /\ Places(u, {"quoted"}) = Places(t, {"quoted"})
      /\ Places(u, {"query"}) = Places(t, {"query"})
  <2> HIDE DEF u
  <2>1. DOMAIN u = 1..Len(t) /\ DOMAIN t = 1..Len(t)
    BY <1>1
  <2>2. \A i \in 1..Len(t) : /\ u[i] \in {"wrapped", "masked"} <=> t[i] \in {"wrapped", "masked"}
                             /\ u[i] = "secret" <=> t[i] = "secret"
                             /\ u[i] = "quoted" <=> t[i] = "quoted"
                             /\ u[i] = "query" <=> t[i] = "query"
    BY <1>1, <1>6
  <2> QED BY <2>1, <2>2 DEF Places
<1> QED
  BY <1>4, <1>5, <1>7 DEF Count, Over

(* What can be fixed in a text, and what would be left of it if as many    *)
(* were fixed as another text has.                                         *)
Total(t) == Count(t, Matching("secret")) + Count(t, Matching("random"))

LeftOf(t, s, k) == Over(Count(t, {k}), Count(s, {k}))

Ahead(t, s) ==
    LeftOf(t, s, "secret") + LeftOf(t, s, "quoted") + LeftOf(t, s, "masked") + LeftOf(t, s, "wrapped")
      + Over(Count(t, {"random"}) + LeftOf(t, s, "wrapped"), Count(s, {"random"}) + Count(s, {"wrapped"}))

(* The findings of a file are those of a text. *)
FoundIn(f, s) == \A p \in {"secret", "random"}, m \in Kinds : Fixes(f, p, m) = Count(s, Kin(p, {m}))

LEMMA Kins ==
    /\ Kin("secret", {"secret"}) = {"secret"} /\ Kin("secret", {"masked"}) = {"masked"}
    /\ Kin("secret", {"wrapped"}) = {"wrapped"} /\ Kin("secret", {"quoted"}) = {"quoted"}
    /\ \A m \in Kinds \ Matching("secret") : Kin("secret", {m}) = {}
    /\ Kin("random", {"random"}) = {"random"} \cup {"wrapped"}
    /\ \A m \in Kinds \ {"random"} : Kin("random", {m}) = {}
    /\ \A p \in Range(Patterns) : Kin(p, Kinds) = Matching(p)
<1>1. \A p \in Range(Patterns) : Kin(p, Kinds) = Matching(p)
  BY PatternsAre DEF Kin
<1> QED
  BY <1>1 DEF Kin, Matching, Match, Kinds

LEMMA Sums ==
    ASSUME NEW t \in Seq(Kinds)
    PROVE  /\ \A K : Count(t, K) \in Nat
           /\ Count(t, {"random", "wrapped"}) = Count(t, {"random"}) + Count(t, {"wrapped"})
           /\ Count(t, {"wrapped", "masked"}) = Count(t, {"wrapped"}) + Count(t, {"masked"})
           /\ Total(t) = Count(t, {"secret"}) + Count(t, {"quoted"})
                            + Count(t, {"wrapped", "masked"}) + Count(t, {"random", "wrapped"})
<1>1. \A K : Count(t, K) \in Nat
  BY CountType
<1>2. Count(t, {"random"} \cup {"wrapped"}) = Count(t, {"random"}) + Count(t, {"wrapped"})
  BY CountUnion
<1>3. Count(t, {"wrapped"} \cup {"masked"}) = Count(t, {"wrapped"}) + Count(t, {"masked"})
  BY CountUnion
<1>4. /\ Count(t, ({"secret"} \cup {"quoted"}) \cup {"wrapped", "masked"})
           = Count(t, {"secret"} \cup {"quoted"}) + Count(t, {"wrapped", "masked"})
      /\ Count(t, {"secret"} \cup {"quoted"}) = Count(t, {"secret"}) + Count(t, {"quoted"})
  BY CountUnion
<1>5. /\ {"random"} \cup {"wrapped"} = {"random", "wrapped"}
      /\ {"wrapped"} \cup {"masked"} = {"wrapped", "masked"}
      /\ ({"secret"} \cup {"quoted"}) \cup {"wrapped", "masked"} = Matching("secret")
      /\ {"random", "wrapped"} = Matching("random")
  BY DEF Matching
<1> QED
  BY <1>1, <1>2, <1>3, <1>4, <1>5 DEF Total

(* Fixing a file keeps its length. *)
LEMMA FixedType ==
    ASSUME NEW f, NEW t \in Seq(Kinds), NEW garbled
    PROVE  Fixed(t, f, garbled) \in Seq(Kinds) /\ Len(Fixed(t, f, garbled)) = Len(t)
<1> DEFINE u == Patch(t, f, "secret", garbled)
           v == Patch(u, f, "random", garbled)
<1>1. u \in Seq(Kinds) /\ Len(u) = Len(t)
  BY PatchType DEF Fixable
<1>2. v \in Seq(Kinds) /\ Len(v) = Len(t)
  <2> HIDE DEF u
  <2> QED BY <1>1, PatchType DEF Fixable
<1>3. Fixed(t, f, garbled) = v
  BY PatternsAre DEF Fixed, Patch, Fixable
<1> QED
  BY <1>2, <1>3

(* Fixing a file leaves of what can be fixed no more than was added since  *)
(* the scan, if its encoding was that of the scan, and takes no query that *)
(* stands by itself.                                                       *)
LEMMA FixedCounted ==
    ASSUME findings \in Seq(Finding), NEW f \in Files, NEW s \in Seq(Kinds), FoundIn(f, s),
           NEW t \in Seq(Kinds), NEW garbled \in SUBSET Matching("secret")
    PROVE  /\ garbled = {} => Total(Fixed(t, f, garbled)) = Ahead(t, s)
           /\ Count(Fixed(t, f, garbled), {"query"}) = Count(t, {"query"})
<1> DEFINE u == Patch(t, f, "secret", garbled)
           v == Patch(u, f, "random", garbled)
<1>1. Count(s, {}) = 0
  BY CountNone
<1>2. Sound(f) /\ Fixes(f, "secret", "random") = 0 /\ Fixes(f, "secret", "query") = 0
  <2>1. \A m \in Kinds \ Matching("secret") : Fixes(f, "secret", m) = 0
    BY <1>1, Kins DEF FoundIn
  <2>2. \A m \in Kinds \ {"random"} : Fixes(f, "random", m) = 0
    BY <1>1, Kins DEF FoundIn
  <2> QED BY <2>1, <2>2 DEF Sound, Kinds, Matching
<1>3. /\ Fixes(f, "secret", "secret") = Count(s, {"secret"})
      /\ Fixes(f, "secret", "masked") = Count(s, {"masked"})
      /\ Fixes(f, "secret", "wrapped") = Count(s, {"wrapped"})
      /\ Fixes(f, "secret", "quoted") = Count(s, {"quoted"})
      /\ Fixes(f, "random", "random") = Count(s, {"random"} \cup {"wrapped"})
  BY Kins DEF FoundIn, Kinds
<1>4. Count(s, {"random"} \cup {"wrapped"}) = Count(s, {"random"}) + Count(s, {"wrapped"})
  BY CountUnion
<1>5. u \in Seq(Kinds)
  BY PatchType DEF Fixable
<1>6. /\ garbled = {} =>
            /\ Count(u, {"secret"}) = LeftOf(t, s, "secret") /\ Count(u, {"masked"}) = LeftOf(t, s, "masked")
            /\ Count(u, {"wrapped"}) = LeftOf(t, s, "wrapped") /\ Count(u, {"quoted"}) = LeftOf(t, s, "quoted")
      /\ Count(u, {"random"}) = Count(t, {"random"}) /\ Count(u, {"query"}) = Count(t, {"query"})
  <2>1. \A k \in Kinds \ {"plain"} :
          Count(u, {k}) = Over(Count(t, {k}), IF k \in garbled THEN 0 ELSE Fixes(f, "secret", k))
    <3> SUFFICES ASSUME NEW k \in Kinds \ {"plain"}
                 PROVE  Count(u, {k}) = Over(Count(t, {k}), IF k \in garbled THEN 0 ELSE Fixes(f, "secret", k))
      OBVIOUS
    <3> QED BY <1>2, SecretsPatched
  <2>2. Count(t, {"random"}) \in Nat /\ Count(t, {"query"}) \in Nat
    BY CountType
  <2>3. Over(Count(t, {"random"}), 0) = Count(t, {"random"}) /\ Over(Count(t, {"query"}), 0) = Count(t, {"query"})
    BY <2>2 DEF Over
  <2> HIDE DEF u
  <2> QED BY <2>1, <2>3, <1>2, <1>3 DEF LeftOf, Kinds
<1> HIDE DEF u
<1>7. v \in Seq(Kinds)
  BY <1>5, PatchType DEF Fixable
<1>8. /\ Count(v, {"random", "wrapped"}) = Over(Count(u, {"random", "wrapped"}), Fixes(f, "random", "random"))
      /\ Count(v, {"wrapped", "masked"}) = Count(u, {"wrapped", "masked"})
      /\ Count(v, {"secret"}) = Count(u, {"secret"}) /\ Count(v, {"query"}) = Count(u, {"query"})
      /\ Count(v, {"quoted"}) = Count(u, {"quoted"})
  <2>1. "random" \notin garbled
    BY DEF Matching
  <2> QED BY <2>1, <1>2, <1>5, RandomPatched
<1>9. Fixed(t, f, garbled) = v
  BY PatternsAre DEF Fixed, Patch, Fixable, u
<1> HIDE DEF v
<1>10. ASSUME garbled = {} PROVE Total(v) = Ahead(t, s)
  <2>1. /\ Count(u, {"random", "wrapped"}) = Count(u, {"random"}) + Count(u, {"wrapped"})
        /\ Count(u, {"wrapped", "masked"}) = Count(u, {"wrapped"}) + Count(u, {"masked"})
        /\ \A K : Count(u, K) \in Nat
    BY <1>5, Sums
  <2>2. Total(v) = Count(v, {"secret"}) + Count(v, {"quoted"})
                     + Count(v, {"wrapped", "masked"}) + Count(v, {"random", "wrapped"})
    BY <1>7, Sums
  <2>3. Count(v, {"random", "wrapped"}) \in Nat
    BY <1>7, Sums
  <2>4. Count(v, {"random", "wrapped"})
          = Over(Count(t, {"random"}) + LeftOf(t, s, "wrapped"), Count(s, {"random"}) + Count(s, {"wrapped"}))
    BY <1>3, <1>4, <1>6, <1>8, <1>10, <2>1
  <2>5. Total(v) = Count(u, {"secret"}) + Count(u, {"quoted"}) + (Count(u, {"wrapped"}) + Count(u, {"masked"})) + Count(v, {"random", "wrapped"})
    BY <1>8, <2>1, <2>2
  <2> QED BY <1>6, <1>10, <2>1, <2>3, <2>4, <2>5 DEF Ahead
<1> QED
  BY <1>6, <1>8, <1>9, <1>10

LEMMA TotalType ==
    ASSUME NEW t \in Seq(Kinds), NEW s \in Seq(Kinds)
    PROVE  Total(t) \in Nat /\ Ahead(t, s) \in Nat
<1>1. \A K : Count(t, K) \in Nat /\ Count(s, K) \in Nat
  BY CountType
<1>2. \A a, n \in Nat : Over(a, n) \in Nat
  BY DEF Over
<1>3. \A k : LeftOf(t, s, k) \in Nat
  BY <1>1, <1>2 DEF LeftOf
<1>4. Count(t, {"random"}) + LeftOf(t, s, "wrapped") \in Nat /\ Count(s, {"random"}) + Count(s, {"wrapped"}) \in Nat
  BY <1>1, <1>3
<1>5. Over(Count(t, {"random"}) + LeftOf(t, s, "wrapped"), Count(s, {"random"}) + Count(s, {"wrapped"})) \in Nat
  BY <1>2, <1>4
<1>6. Total(t) \in Nat
  BY <1>1 DEF Total
<1> QED
  BY <1>3, <1>5, <1>6 DEF Ahead

(* Nothing is left if all is found, and all if nothing is. *)
LEMMA AheadEnds ==
    ASSUME NEW t \in Seq(Kinds), NEW s \in Seq(Kinds)
    PROVE  /\ Ahead(t, t) = 0
           /\ (\A k \in Matching("secret") \cup Matching("random") : Count(s, {k}) = 0) => Ahead(t, s) = Total(t)
<1>1. /\ \A K : Count(t, K) \in Nat
      /\ Total(t) = Count(t, {"secret"}) + Count(t, {"quoted"}) + (Count(t, {"wrapped"}) + Count(t, {"masked"}))
                       + (Count(t, {"random"}) + Count(t, {"wrapped"}))
  BY Sums
<1>2. Ahead(t, t) = 0
  BY <1>1 DEF Ahead, LeftOf, Over
<1>3. ASSUME \A k \in Matching("secret") \cup Matching("random") : Count(s, {k}) = 0
      PROVE  Ahead(t, s) = Total(t)
  <2>1. /\ Count(s, {"secret"}) = 0 /\ Count(s, {"masked"}) = 0 /\ Count(s, {"quoted"}) = 0
        /\ Count(s, {"wrapped"}) = 0 /\ Count(s, {"random"}) = 0
    BY <1>3 DEF Matching
  <2> QED BY <1>1, <2>1, SMTT(30) DEF Ahead, LeftOf, Over
<1> QED
  BY <1>2, <1>3

(* One more of a kind is at most two more that can be fixed: a generator   *)
(* in a secret.                                                            *)
LEMMA OneMore ==
    ASSUME NEW c \in Nat, NEW q \in Nat, NEW m \in Nat, NEW w \in Nat, NEW r \in Nat,
           NEW C \in Nat, NEW Q \in Nat, NEW M \in Nat, NEW W \in Nat, NEW R \in Nat,
           NEW cs \in Nat, NEW qs \in Nat, NEW ms \in Nat, NEW ws \in Nat, NEW rs \in Nat,
           \/ C <= c + 1 /\ Q <= q /\ M <= m /\ W <= w /\ R <= r
           \/ C <= c /\ Q <= q + 1 /\ M <= m /\ W <= w /\ R <= r
           \/ C <= c /\ Q <= q /\ M <= m + 1 /\ W <= w /\ R <= r
           \/ C <= c /\ Q <= q /\ M <= m /\ W <= w + 1 /\ R <= r
           \/ C <= c /\ Q <= q /\ M <= m /\ W <= w /\ R <= r + 1
    PROVE  /\ C + Q + (W + M) + (R + W) <= c + q + (w + m) + (r + w) + 2
           /\ Over(C, cs) + Over(Q, qs) + Over(M, ms) + Over(W, ws) + Over(R + Over(W, ws), rs + ws)
                <= Over(c, cs) + Over(q, qs) + Over(m, ms) + Over(w, ws) + Over(r + Over(w, ws), rs + ws) + 2
<1>1. \A a, b, n \in Nat : /\ a <= b => Over(a, n) <= Over(b, n)
                           /\ a <= b + 1 => Over(a, n) <= Over(b, n) + 1
                           /\ a <= b + 2 => Over(a, n) <= Over(b, n) + 2
                           /\ Over(a, n) \in Nat
  BY DEF Over
<1>2. /\ C <= c => Over(C, cs) <= Over(c, cs)
      /\ C <= c + 1 => Over(C, cs) <= Over(c, cs) + 1
      /\ Q <= q => Over(Q, qs) <= Over(q, qs)
      /\ Q <= q + 1 => Over(Q, qs) <= Over(q, qs) + 1
      /\ M <= m => Over(M, ms) <= Over(m, ms)
      /\ M <= m + 1 => Over(M, ms) <= Over(m, ms) + 1
      /\ W <= w => Over(W, ws) <= Over(w, ws)
      /\ W <= w + 1 => Over(W, ws) <= Over(w, ws) + 1
  BY <1>1
<1>3. /\ R <= r /\ W <= w => Over(R + Over(W, ws), rs + ws) <= Over(r + Over(w, ws), rs + ws)
      /\ R <= r + 1 /\ W <= w => Over(R + Over(W, ws), rs + ws) <= Over(r + Over(w, ws), rs + ws) + 1
      /\ R <= r /\ W <= w + 1 => Over(R + Over(W, ws), rs + ws) <= Over(r + Over(w, ws), rs + ws) + 1
  <2>1. /\ W <= w => Over(W, ws) <= Over(w, ws)
        /\ W <= w + 1 => Over(W, ws) <= Over(w, ws) + 1
        /\ Over(W, ws) \in Nat /\ Over(w, ws) \in Nat
    BY <1>1
  <2> DEFINE A == R + Over(W, ws)
             B == r + Over(w, ws)
  <2>2. /\ A \in Nat /\ B \in Nat /\ rs + ws \in Nat
        /\ R <= r /\ W <= w => A <= B
        /\ R <= r + 1 /\ W <= w => A <= B + 1
        /\ R <= r /\ W <= w + 1 => A <= B + 1
    BY <2>1
  <2> HIDE DEF A, B
  <2>3. /\ A <= B => Over(A, rs + ws) <= Over(B, rs + ws)
        /\ A <= B + 1 => Over(A, rs + ws) <= Over(B, rs + ws) + 1
    BY <1>1, <2>2
  <2> QED BY <2>2, <2>3 DEF A, B
<1>4. \A a, n \in Nat : Over(a, n) \in Nat
  BY <1>1
<1>5. /\ Over(C, cs) \in Nat /\ Over(Q, qs) \in Nat /\ Over(M, ms) \in Nat /\ Over(W, ws) \in Nat
      /\ Over(c, cs) \in Nat /\ Over(q, qs) \in Nat /\ Over(m, ms) \in Nat /\ Over(w, ws) \in Nat
      /\ Over(R + Over(W, ws), rs + ws) \in Nat /\ Over(r + Over(w, ws), rs + ws) \in Nat
  <2>1. /\ Over(C, cs) \in Nat /\ Over(Q, qs) \in Nat /\ Over(M, ms) \in Nat /\ Over(W, ws) \in Nat
        /\ Over(c, cs) \in Nat /\ Over(q, qs) \in Nat /\ Over(m, ms) \in Nat /\ Over(w, ws) \in Nat
    BY <1>4
  <2>2. R + Over(W, ws) \in Nat /\ r + Over(w, ws) \in Nat /\ rs + ws \in Nat
    BY <2>1
  <2> QED BY <1>4, <2>1, <2>2
<1> QED
  BY <1>2, <1>3, <1>5

(* Such are the edits. *)
LEMMA EditAdds ==
    ASSUME NEW t \in Seq(Kinds), NEW u \in Seq(Kinds), NEW s \in Seq(Kinds), NEW e,
           \/ \A K : Count(u, K) = Count(t, K) + One(e, K)
           \/ \A K : Count(u, K) = Count(t, K) - One(e, K)
    PROVE  Total(u) <= Total(t) + 2 /\ Ahead(u, s) <= Ahead(t, s) + 2
<1> DEFINE C(x) == Count(x, {"secret"})
           M(x) == Count(x, {"masked"})
           Q(x) == Count(x, {"quoted"})
           W(x) == Count(x, {"wrapped"})
           R(x) == Count(x, {"random"})
<1>1. ASSUME NEW x \in Seq(Kinds)
      PROVE  /\ C(x) \in Nat /\ Q(x) \in Nat /\ M(x) \in Nat /\ W(x) \in Nat /\ R(x) \in Nat
             /\ Total(x) = C(x) + Q(x) + (W(x) + M(x)) + (R(x) + W(x))
             /\ Ahead(x, s) = Over(C(x), C(s)) + Over(Q(x), Q(s)) + Over(M(x), M(s)) + Over(W(x), W(s))
                                + Over(R(x) + Over(W(x), W(s)), R(s) + W(s))
  BY Sums DEF Ahead, LeftOf
<1>2. \A k : Count(u, {k}) <= Count(t, {k}) + One(e, {k})
  <2>1. \A K : One(e, K) \in Nat /\ Count(t, K) \in Nat
    BY Sums DEF One
  <2> QED BY <2>1
<1>3. \/ C(u) <= C(t) + 1 /\ Q(u) <= Q(t) /\ M(u) <= M(t) /\ W(u) <= W(t) /\ R(u) <= R(t)
      \/ C(u) <= C(t) /\ Q(u) <= Q(t) + 1 /\ M(u) <= M(t) /\ W(u) <= W(t) /\ R(u) <= R(t)
      \/ C(u) <= C(t) /\ Q(u) <= Q(t) /\ M(u) <= M(t) + 1 /\ W(u) <= W(t) /\ R(u) <= R(t)
      \/ C(u) <= C(t) /\ Q(u) <= Q(t) /\ M(u) <= M(t) /\ W(u) <= W(t) + 1 /\ R(u) <= R(t)
      \/ C(u) <= C(t) /\ Q(u) <= Q(t) /\ M(u) <= M(t) /\ W(u) <= W(t) /\ R(u) <= R(t) + 1
  <2>1. C(t) \in Nat /\ Q(t) \in Nat /\ M(t) \in Nat /\ W(t) \in Nat /\ R(t) \in Nat
    BY <1>1
  <2>2. C(u) \in Nat /\ Q(u) \in Nat /\ M(u) \in Nat /\ W(u) \in Nat /\ R(u) \in Nat
    BY <1>1
  <2>3. /\ C(u) <= C(t) + One(e, {"secret"}) /\ M(u) <= M(t) + One(e, {"masked"})
        /\ Q(u) <= Q(t) + One(e, {"quoted"})
        /\ W(u) <= W(t) + One(e, {"wrapped"}) /\ R(u) <= R(t) + One(e, {"random"})
    BY <1>2
  <2> HIDE DEF C, Q, M, W, R
  <2> QED BY <2>1, <2>2, <2>3, SMTT(60) DEF One
<1>4. /\ C(t) \in Nat /\ Q(t) \in Nat /\ M(t) \in Nat /\ W(t) \in Nat /\ R(t) \in Nat
      /\ C(u) \in Nat /\ Q(u) \in Nat /\ M(u) \in Nat /\ W(u) \in Nat /\ R(u) \in Nat
      /\ C(s) \in Nat /\ Q(s) \in Nat /\ M(s) \in Nat /\ W(s) \in Nat /\ R(s) \in Nat
  BY <1>1
<1>5. /\ C(u) + Q(u) + (W(u) + M(u)) + (R(u) + W(u)) <= C(t) + Q(t) + (W(t) + M(t)) + (R(t) + W(t)) + 2
      /\ Over(C(u), C(s)) + Over(Q(u), Q(s)) + Over(M(u), M(s)) + Over(W(u), W(s))
             + Over(R(u) + Over(W(u), W(s)), R(s) + W(s))
           <= Over(C(t), C(s)) + Over(Q(t), Q(s)) + Over(M(t), M(s)) + Over(W(t), W(s))
                + Over(R(t) + Over(W(t), W(s)), R(s) + W(s)) + 2
  <2> HIDE DEF C, Q, M, W, R
  <2> QED BY <1>3, <1>4, OneMore, ZenonT(60)
<1> QED
  <2> HIDE DEF C, Q, M, W, R
  <2> QED BY <1>1, <1>5

-----------------------------------------------------------------------------
(* The report *)

LEMMA RowsCounted ==
    ASSUME findings \in Seq(Finding), NEW v \in {1, 2, 3}
    PROVE  /\ Rows(v) \in Seq(Finding) /\ Len(Rows(v)) \in Nat
           /\ \A n \in 1..Len(Rows(v)) : Severity(Rows(v)[n].pattern) = v
           /\ \A f \in Files, p \in Range(Patterns) :
                Count(Rows(v), Of(f, p, Kinds))
                  = IF Severity(p) = v THEN Count(findings, Of(f, p, Kinds)) ELSE 0
<1> DEFINE P == {i \in DOMAIN findings : Severity(findings[i].pattern) = v}
<1>1. P \in SUBSET (1..Len(findings)) /\ Rows(v) = Pick(findings, P)
  BY DEF Rows
<1>2. /\ Rows(v) \in Seq(Finding) /\ Len(Rows(v)) = Cardinality(P)
      /\ \A n \in 1..Cardinality(P) : \E i \in P : Rows(v)[n] = findings[i]
      /\ \A K : Count(Rows(v), K) = Cardinality({i \in P : findings[i] \in K})
  <2> HIDE DEF P
  <2> QED BY <1>1, Picked
<1>3. Len(Rows(v)) \in Nat
  BY <1>2
<1>4. \A n \in 1..Len(Rows(v)) : Severity(Rows(v)[n].pattern) = v
  <2>1. \A i \in P : Severity(findings[i].pattern) = v
    OBVIOUS
  <2> HIDE DEF P
  <2> QED BY <1>2, <2>1
<1>5. ASSUME NEW f \in Files, NEW p \in Range(Patterns)
      PROVE  Count(Rows(v), Of(f, p, Kinds))
               = IF Severity(p) = v THEN Count(findings, Of(f, p, Kinds)) ELSE 0
  <2>1. CASE Severity(p) = v
    <3>1. {i \in P : findings[i] \in Of(f, p, Kinds)} = Places(findings, Of(f, p, Kinds))
      BY <2>1 DEF Places, Of
    <3> HIDE DEF P
    <3> QED BY <1>2, <2>1, <3>1 DEF Count
  <2>2. CASE Severity(p) # v
    <3>1. {i \in P : findings[i] \in Of(f, p, Kinds)} = {}
      BY <2>2 DEF Of
    <3> HIDE DEF P
    <3> QED BY <1>2, <2>2, <3>1, FS_EmptySet
  <2> QED BY <2>1, <2>2
<1> QED
  BY <1>2, <1>3, <1>4, <1>5

(* Sorting loses no finding and puts the most severe ones first.           *)
LEMMA SortedCounted ==
    ASSUME findings \in Seq(Finding)
    PROVE  /\ SortedFindings \in Seq(Finding)
           /\ \A i, j \in DOMAIN SortedFindings :
                i < j => Severity(SortedFindings[i].pattern) <= Severity(SortedFindings[j].pattern)
           /\ \A f \in Files, p \in Range(Patterns) :
                Count(SortedFindings, Of(f, p, Kinds)) = Count(findings, Of(f, p, Kinds))
<1> DEFINE a == Rows(1)
           b == Rows(2)
           c == Rows(3)
           r == a \o b \o c
<1>1. /\ a \in Seq(Finding) /\ b \in Seq(Finding) /\ c \in Seq(Finding)
      /\ Len(a) \in Nat /\ Len(b) \in Nat /\ Len(c) \in Nat
      /\ \A n \in 1..Len(a) : Severity(a[n].pattern) = 1
      /\ \A n \in 1..Len(b) : Severity(b[n].pattern) = 2
      /\ \A n \in 1..Len(c) : Severity(c[n].pattern) = 3
  BY RowsCounted
<1>2. ASSUME NEW f \in Files, NEW p \in Range(Patterns)
      PROVE  /\ Count(a, Of(f, p, Kinds)) = IF Severity(p) = 1 THEN Count(findings, Of(f, p, Kinds)) ELSE 0
             /\ Count(b, Of(f, p, Kinds)) = IF Severity(p) = 2 THEN Count(findings, Of(f, p, Kinds)) ELSE 0
             /\ Count(c, Of(f, p, Kinds)) = IF Severity(p) = 3 THEN Count(findings, Of(f, p, Kinds)) ELSE 0
  BY RowsCounted
<1>3. SortedFindings = r
  BY DEF SortedFindings
<1> HIDE DEF a, b, c
<1>4. /\ a \o b \in Seq(Finding) /\ Len(a \o b) = Len(a) + Len(b)
      /\ \A i \in 1..(Len(a) + Len(b)) : (a \o b)[i] = IF i <= Len(a) THEN a[i] ELSE b[i - Len(a)]
  BY <1>1, ConcatProperties, Zenon
<1>5. /\ r \in Seq(Finding) /\ Len(r) = Len(a \o b) + Len(c)
      /\ \A i \in 1..(Len(a \o b) + Len(c)) : r[i] = IF i <= Len(a \o b) THEN (a \o b)[i] ELSE c[i - Len(a \o b)]
  <2> DEFINE ab == a \o b
  <2>1. ab \in Seq(Finding)
    BY <1>4
  <2> HIDE DEF ab
  <2>2. /\ ab \o c \in Seq(Finding) /\ Len(ab \o c) = Len(ab) + Len(c)
        /\ \A i \in 1..(Len(ab) + Len(c)) : (ab \o c)[i] = IF i <= Len(ab) THEN ab[i] ELSE c[i - Len(ab)]
    BY <1>1, <2>1, ConcatProperties, Zenon
  <2> QED BY <2>2 DEF ab
<1>6. \A i \in 1..Len(r) : Severity(r[i].pattern) = IF i <= Len(a) THEN 1 ELSE IF i <= Len(a) + Len(b) THEN 2 ELSE 3
  <2> SUFFICES ASSUME NEW i \in 1..Len(r)
               PROVE  Severity(r[i].pattern) = IF i <= Len(a) THEN 1 ELSE IF i <= Len(a) + Len(b) THEN 2 ELSE 3
    OBVIOUS
  <2> HIDE DEF r
  <2>0. i \in 1..(Len(a \o b) + Len(c)) /\ i \in Nat
    BY <1>5, <1>4, <1>1
  <2>1. CASE i <= Len(a)
    <3>1. i \in 1..(Len(a) + Len(b)) /\ i <= Len(a \o b) /\ i \in 1..Len(a)
      BY <2>0, <2>1, <1>1, <1>4
    <3>2. r[i] = a[i]
      BY <3>1, <2>0, <2>1, <1>4, <1>5
    <3> QED BY <3>1, <3>2, <2>1, <1>1
  <2>2. CASE ~(i <= Len(a)) /\ i <= Len(a) + Len(b)
    <3>1. i \in 1..(Len(a) + Len(b)) /\ i <= Len(a \o b) /\ i - Len(a) \in 1..Len(b)
      BY <2>0, <2>2, <1>1, <1>4
    <3>2. r[i] = b[i - Len(a)]
      BY <3>1, <2>0, <2>2, <1>4, <1>5
    <3> QED BY <3>1, <3>2, <2>2, <1>1
  <2>3. CASE ~(i <= Len(a) + Len(b))
    <3>1. ~(i <= Len(a \o b)) /\ ~(i <= Len(a)) /\ i - Len(a \o b) \in 1..Len(c)
      BY <2>0, <2>3, <1>1, <1>4
    <3>2. r[i] = c[i - Len(a \o b)]
      BY <3>1, <2>0, <1>5
    <3> QED BY <3>1, <3>2, <2>3, <1>1
  <2> QED BY <2>0, <2>1, <2>2, <2>3, <1>1
<1>7. \A i, j \in DOMAIN r : i < j => Severity(r[i].pattern) <= Severity(r[j].pattern)
  <2> HIDE DEF r
  <2>1. DOMAIN r = 1..Len(r) /\ Len(r) \in Nat
    BY <1>5
  <2> QED BY <2>1, <1>1, <1>6
<1>8. ASSUME NEW f \in Files, NEW p \in Range(Patterns)
      PROVE  Count(r, Of(f, p, Kinds)) = Count(findings, Of(f, p, Kinds))
  <2> DEFINE K == Of(f, p, Kinds)
  <2>1. Count(r, K) = Count(a \o b, K) + Count(c, K) /\ Count(a \o b, K) = Count(a, K) + Count(b, K)
    BY <1>1, <1>4, CountJoin, ZenonT(60)
  <2>2. Severity(p) \in {1, 2, 3}
    BY PatternsAre DEF Severity
  <2>3. Count(findings, K) \in Nat
    BY CountType
  <2>4. /\ Count(a, K) = IF Severity(p) = 1 THEN Count(findings, K) ELSE 0
        /\ Count(b, K) = IF Severity(p) = 2 THEN Count(findings, K) ELSE 0
        /\ Count(c, K) = IF Severity(p) = 3 THEN Count(findings, K) ELSE 0
    BY <1>2
  <2> HIDE DEF K, r
  <2>5. Count(r, K) = Count(findings, K)
    BY <2>1, <2>2, <2>3, <2>4
  <2> QED BY <2>5 DEF K
<1> HIDE DEF r
<1> QED
  BY <1>3, <1>5, <1>7, <1>8

-----------------------------------------------------------------------------
(* The invariant *)

Typed ==
    /\ apply \in BOOLEAN
    /\ pc \in {"scan", "fix", "write", "rescan", "report", "done"}
    /\ todo \subseteq Files
    /\ file \in Files \cup {NoFile} /\ (file # NoFile <=> pc = "write")
    /\ text \in [Files -> Seq(Kinds)] /\ seen \in [Files -> Seq(Kinds)] /\ buffer \in Seq(Kinds)
    /\ access \in [Files -> Modes] /\ coding \in Modes
    /\ findings \in Seq(Finding) /\ report \in Seq(Finding)
    /\ left \in 0..MaxEdits
    /\ edits \in [Files -> 0..MaxEdits]
    /\ overrun \subseteq Files /\ torn \subseteq Files /\ barred \subseteq Files
    /\ placed \in [Files -> Nat]
    /\ queries \in [Files -> Int]

(* Only edits add to a file. *)
Bounded ==
    /\ \A f \in Files : edits[f] + left <= MaxEdits
    /\ \A f \in Files : Len(text[f]) <= placed[f] /\ Len(seen[f]) <= placed[f]
    /\ pc = "write" => Len(buffer) <= placed[file]
    /\ pc # "write" => buffer = <<>>

(* The findings are those in what was read of the files scanned. *)
FindingsCounted ==
    \A f \in Files, p \in Range(Patterns), matches \in SUBSET Kinds :
        Count(findings, Of(f, p, matches)) =
            IF pc \in {"scan", "rescan"} /\ f \in todo THEN 0 ELSE Count(seen[f], Kin(p, matches))

Turns ==
    /\ pc = "write" => file \in todo
    /\ pc \in {"report", "done"} => todo = {}
    /\ pc \in {"fix", "write", "rescan"} => apply
    /\ \A f \in Files : access[f] # Uses => f \in barred
    /\ pc = "write" /\ coding # Uses => file \in barred

(* What can be fixed in a file and will not be, or is left of it, is what  *)
(* edits have added.                                                       *)
FileFixed(f) ==
    /\ pc = "scan" /\ f \notin todo => Ahead(text[f], seen[f]) <= 2 * edits[f]
    /\ pc \in {"fix", "write"} /\ f \in todo => Ahead(text[f], seen[f]) <= 2 * edits[f]
    /\ pc \in {"fix", "write"} /\ f \notin todo => Total(text[f]) <= 2 * edits[f]
    /\ pc = "write" /\ file = f => Total(buffer) <= 2 * edits[f]
    /\ pc = "rescan" /\ f \in todo => Total(text[f]) <= 2 * edits[f]
    /\ pc = "rescan" /\ f \notin todo => Total(seen[f]) <= 2 * edits[f]
    /\ pc \in {"report", "done"} /\ apply => Total(seen[f]) <= 2 * edits[f]

FixedBut == \A f \in Files : f \notin barred => FileFixed(f)

(* What is about to be written has the queries of the file. *)
QueriesKept ==
    /\ OthersKept
    /\ pc = "write" => Count(buffer, {"query"}) = queries[file] \/ file \in overrun \cup torn

IInv == Typed /\ Bounded /\ FindingsCounted /\ Turns /\ FixedBut /\ QueriesKept /\ ReportCurrent

LEMMA InitInvariant == Init => IInv
<1> SUFFICES ASSUME Init PROVE IInv
  OBVIOUS
<1> USE SecurityAgentAssumption
<1>1. <<>> \in Seq(Kinds) /\ <<>> \in Seq(Finding) /\ Len(<<>>) = 0
  OBVIOUS
<1>2. \A f \in Files : text[f] \in Texts /\ text[f] \in Seq(Kinds)
  BY DEF Init
<1>3. \A f \in Files : Count(text[f], {"query"}) \in Nat
  BY <1>2, CountType
<1>4. Typed
  <2>1. /\ text \in [Files -> Seq(Kinds)] /\ seen \in [Files -> Seq(Kinds)]
        /\ buffer \in Seq(Kinds) /\ findings \in Seq(Finding) /\ report \in Seq(Finding)
    BY <1>1, <1>2 DEF Init
  <2>2. access \in [Files -> Modes] /\ coding \in Modes
    BY DEF Init, Modes
  <2>3. placed \in [Files -> Nat] /\ queries \in [Files -> Int]
    <3>1. \A f \in Files : Len(text[f]) \in Nat
      BY <1>2
    <3> QED BY <1>3, <3>1 DEF Init
  <2> QED BY <2>1, <2>2, <2>3 DEF Init, Typed
<1>5. Bounded
  <2>1. ASSUME NEW f \in Files
        PROVE  Len(text[f]) <= placed[f] /\ Len(seen[f]) <= placed[f] /\ edits[f] + left <= MaxEdits
    <3>1. /\ edits[f] = 0 /\ seen[f] = <<>> /\ Len(text[f]) \in Nat /\ placed[f] = Len(text[f])
          /\ left = MaxEdits
      BY <1>2 DEF Init
    <3> QED BY <3>1, <1>1
  <2>2. pc # "write" /\ buffer = <<>>
    BY DEF Init
  <2> QED BY <2>1, <2>2 DEF Bounded
<1>6. FindingsCounted
  <2>0. DOMAIN findings = {} /\ findings \in Seq(Finding)
    BY <1>1 DEF Init
  <2>1. \A K : Count(findings, K) = 0
    BY <2>0, CountNone
  <2> QED BY <2>1 DEF FindingsCounted, Init
<1>7. Turns /\ FixedBut
  BY DEF Turns, FixedBut, FileFixed, Init
<1>8. QueriesKept /\ ReportCurrent
  BY DEF QueriesKept, OthersKept, ReportCurrent, Init
<1> QED
  BY <1>4, <1>5, <1>6, <1>7, <1>8 DEF IInv

(* The content of an edited file. *)
LEMMA EditedText ==
    ASSUME Typed, NEW f \in Files, Edit(f)
    PROVE  /\ text' \in [Files -> Seq(Kinds)] /\ \A g \in Files : g # f => text'[g] = text[g]
           /\ placed' \in [Files -> Nat] /\ \A g \in Files : placed[g] <= placed'[g]
           /\ Len(text[f]) <= placed[f] => Len(text'[f]) <= placed'[f]
           /\ \/ text'[f] = text[f]
              \/ \E e : \/ \A K : Count(text'[f], K) = Count(text[f], K) + One(e, K)
                     \/ \A K : Count(text'[f], K) = Count(text[f], K) - One(e, K)
<1> DEFINE t == text[f]
<1>1. t \in Seq(Kinds) /\ Len(t) \in Nat /\ placed \in [Files -> Nat]
  BY DEF Typed
<1>2. CASE UNCHANGED <<text, placed>>
  BY <1>2 DEF Typed
<1>3. ASSUME NEW i \in 1..Len(t) + 1, NEW k \in Kinds, text' = [text EXCEPT ![f] = InsertAt(@, i, k)],
             placed' = [placed EXCEPT ![f] = @ + 1]
      PROVE  /\ text' \in [Files -> Seq(Kinds)] /\ \A g \in Files : g # f => text'[g] = text[g]
             /\ placed' \in [Files -> Nat] /\ \A g \in Files : placed[g] <= placed'[g]
             /\ Len(t) <= placed[f] => Len(text'[f]) <= placed'[f]
             /\ \A K : Count(text'[f], K) = Count(t, K) + One(k, K)
  <2>1. /\ InsertAt(t, i, k) \in Seq(Kinds) /\ Len(InsertAt(t, i, k)) = Len(t) + 1
        /\ \A K : Count(InsertAt(t, i, k), K) = Count(t, K) + One(k, K)
    BY <1>1, CountInsert
  <2>2. text'[f] = InsertAt(t, i, k) /\ \A g \in Files : g # f => text'[g] = text[g]
    BY <1>3 DEF Typed
  <2>3. text' \in [Files -> Seq(Kinds)]
    BY <1>3, <2>1 DEF Typed
  <2>4. /\ placed' \in [Files -> Nat] /\ \A g \in Files : placed[g] <= placed'[g]
        /\ placed'[f] = placed[f] + 1 /\ placed[f] \in Nat
    BY <1>1, <1>3
  <2> QED BY <2>1, <2>2, <2>3, <2>4, <1>1
<1>4. ASSUME NEW i \in 1..Len(t), text' = [text EXCEPT ![f] = RemoveAt(@, i)], placed' = placed
      PROVE  /\ text' \in [Files -> Seq(Kinds)] /\ \A g \in Files : g # f => text'[g] = text[g]
             /\ Len(text'[f]) <= Len(t)
             /\ \A K : Count(text'[f], K) = Count(t, K) - One(t[i], K)
  <2>1. /\ RemoveAt(t, i) \in Seq(Kinds) /\ Len(RemoveAt(t, i)) = Len(t) - 1
        /\ \A K : Count(RemoveAt(t, i), K) = Count(t, K) - One(t[i], K)
    BY <1>1, CountRemove
  <2>2. text'[f] = RemoveAt(t, i) /\ \A g \in Files : g # f => text'[g] = text[g]
    BY <1>4 DEF Typed
  <2>3. text' \in [Files -> Seq(Kinds)]
    BY <1>4, <2>1 DEF Typed
  <2> QED BY <2>1, <2>2, <2>3, <1>1
<1>5. \/ UNCHANGED <<text, placed>>
      \/ \E i \in 1..Len(t) + 1, k \in Kinds : /\ text' = [text EXCEPT ![f] = InsertAt(@, i, k)]
                                              /\ placed' = [placed EXCEPT ![f] = @ + 1]
      \/ \E i \in 1..Len(t) : text' = [text EXCEPT ![f] = RemoveAt(@, i)] /\ placed' = placed
  BY DEF Edit
<1> HIDE DEF t
<1>6. CASE \E i \in 1..Len(t) + 1, k \in Kinds : /\ text' = [text EXCEPT ![f] = InsertAt(@, i, k)]
                                                /\ placed' = [placed EXCEPT ![f] = @ + 1]
  BY <1>3, <1>6 DEF t
<1>7. CASE \E i \in 1..Len(t) : text' = [text EXCEPT ![f] = RemoveAt(@, i)] /\ placed' = placed
  <2>1. PICK i \in 1..Len(t) : text' = [text EXCEPT ![f] = RemoveAt(@, i)] /\ placed' = placed
    BY <1>7
  <2>2. /\ text' \in [Files -> Seq(Kinds)] /\ \A g \in Files : g # f => text'[g] = text[g]
        /\ Len(text'[f]) <= Len(t)
        /\ \A K : Count(text'[f], K) = Count(t, K) - One(t[i], K)
    BY <1>4, <2>1
  <2>3. Len(text'[f]) \in Nat /\ \A g \in Files : placed[g] \in Nat /\ placed'[g] = placed[g]
    BY <1>1, <2>1, <2>2
  <2>4. placed' \in [Files -> Nat] /\ \A g \in Files : placed[g] <= placed'[g]
    BY <1>1, <2>1, <2>3
  <2>5. Len(text[f]) <= placed[f] => Len(text'[f]) <= placed'[f]
    BY <1>1, <2>2, <2>3 DEF t
  <2>6. \E e : \A K : Count(text'[f], K) = Count(text[f], K) - One(e, K)
    BY <2>2, Zenon DEF t
  <2> QED BY <2>2, <2>4, <2>5, <2>6
<1> QED
  BY <1>2, <1>5, <1>6, <1>7

(* One edit is one of those that are allowed. *)
LEMMA EditCounted ==
    ASSUME Typed, Bounded, NEW f \in Files, Edit(f)
    PROVE  /\ left' \in 0..MaxEdits /\ edits' \in [Files -> 0..MaxEdits]
           /\ edits'[f] = edits[f] + 1 /\ \A g \in Files : g # f => edits'[g] = edits[g]
           /\ \A g \in Files : edits'[g] + left' <= MaxEdits
<1> USE SecurityAgentAssumption
<1>1. /\ left \in Nat /\ left > 0 /\ left' = left - 1 /\ MaxEdits \in Nat /\ left <= MaxEdits
      /\ edits \in [Files -> 0..MaxEdits] /\ edits' = [edits EXCEPT ![f] = @ + 1]
  BY DEF Typed, Edit
<1>2. \A g \in Files : edits[g] \in Nat /\ edits[g] + left <= MaxEdits
  BY <1>1 DEF Bounded
<1>3. edits'[f] = edits[f] + 1 /\ \A g \in Files : g # f => edits'[g] = edits[g]
  BY <1>1
<1>4. \A g \in Files : edits'[g] + left' <= MaxEdits
  BY <1>1, <1>2, <1>3
<1>5. edits[f] + 1 \in 0..MaxEdits
  BY <1>1, <1>2
<1> QED
  BY <1>1, <1>3, <1>4, <1>5

(* What is written of a text, if not all, is no more than there is of it.  *)
LEMMA CutCounted ==
    ASSUME NEW s \in Seq(Kinds), NEW n \in 0..Len(s)
    PROVE  /\ SubSeq(s, 1, n) \in Seq(Kinds) /\ Len(SubSeq(s, 1, n)) = n
           /\ n = Len(s) => SubSeq(s, 1, n) = s
           /\ Total(SubSeq(s, 1, n)) <= Total(s)
<1> DEFINE a == SubSeq(s, 1, n)
           b == SubSeq(s, n + 1, Len(s))
<1>1. Len(s) \in Nat /\ n \in Nat /\ n + 1 \in 1..(Len(s) + 1) /\ (n + 1) - 1 = n
  OBVIOUS
<1>2. a \in Seq(Kinds) /\ Len(a) = n /\ b \in Seq(Kinds) /\ s = a \o b
  <2>1. /\ SubSeq(s, 1, (n + 1) - 1) \in Seq(Kinds) /\ Len(SubSeq(s, 1, (n + 1) - 1)) = (n + 1) - 1
        /\ b \in Seq(Kinds) /\ s = SubSeq(s, 1, (n + 1) - 1) \o b
    BY <1>1, Split
  <2> QED BY <1>1, <2>1
<1>3. n = Len(s) => a = s
  <2> SUFFICES ASSUME n = Len(s) PROVE a = s
    OBVIOUS
  <2>1. DOMAIN a = 1..Len(s) /\ \A i \in 1..Len(s) : a[i] = s[i]
    OBVIOUS
  <2> HIDE DEF a
  <2> QED BY <1>1, <1>2, <2>1, SeqEqual
<1> HIDE DEF a, b
<1>4. Total(a) <= Total(s)
  <2>1. \A K : Count(s, K) = Count(a, K) + Count(b, K)
    <3>1. \A K : Count(a \o b, K) = Count(a, K) + Count(b, K)
      BY <1>2, CountJoin
    <3> QED BY <1>2, <3>1
  <2>2. \A K : Count(a, K) \in Nat /\ Count(b, K) \in Nat
    BY <1>2, CountType
  <2>3. \A K : Count(a, K) \in Nat /\ Count(s, K) \in Nat /\ Count(a, K) <= Count(s, K)
    BY <2>1, <2>2
  <2> QED BY <2>3 DEF Total
<1> QED
  BY <1>2, <1>3, <1>4 DEF a

(* What a write, whole or not, makes of the files. *)
LEMMA Written ==
    ASSUME Typed, WriteFile
    PROVE  /\ file \in Files /\ pc = "write" /\ pc' = "fix" /\ todo' = todo \ {file} /\ file' = NoFile
           /\ buffer' = <<>> /\ coding' = {}
           /\ UNCHANGED <<apply, findings, report, seen, left, edits, placed, barred, overrun, queries>>
           /\ text' \in [Files -> Seq(Kinds)]
           /\ \A g \in Files \ {file} : text'[g] = text[g]
           /\ \/ UNCHANGED <<text, access, torn>> /\ access[file] # Uses
              \/ /\ Len(text'[file]) <= Len(buffer) /\ Total(text'[file]) <= Total(buffer)
                 /\ text'[file] = buffer \/ file \in torn'
                 /\ torn' = torn \/ torn' = torn \cup {file}
                 /\ access' = [access EXCEPT ![file] = coding \cup {"write"}]
<1>1. /\ file \in Files /\ pc = "write" /\ pc' = "fix" /\ todo' = todo \ {file} /\ file' = NoFile
      /\ buffer' = <<>> /\ coding' = {}
      /\ UNCHANGED <<apply, findings, report, seen, left, edits, placed, barred, overrun, queries>>
      /\ text \in [Files -> Seq(Kinds)] /\ buffer \in Seq(Kinds) /\ Len(buffer) \in Nat
  BY DEF WriteFile, Typed, others
<1>2. CASE "write" \notin access[file] /\ UNCHANGED <<text, access, torn>>
  <2>1. access[file] # Uses
    BY <1>2 DEF Uses
  <2> QED BY <1>1, <1>2, <2>1
<1>3. CASE /\ "write" \in access[file]
           /\ \E n \in 0..Len(buffer) :
                /\ text' = [text EXCEPT ![file] = SubSeq(buffer, 1, n)]
                /\ torn' = IF n = Len(buffer) THEN torn ELSE torn \cup {file}
           /\ access' = [access EXCEPT ![file] = coding \cup {"write"}]
  <2>1. PICK n \in 0..Len(buffer) :
                /\ text' = [text EXCEPT ![file] = SubSeq(buffer, 1, n)]
                /\ torn' = IF n = Len(buffer) THEN torn ELSE torn \cup {file}
    BY <1>3
  <2>2. /\ SubSeq(buffer, 1, n) \in Seq(Kinds) /\ Len(SubSeq(buffer, 1, n)) = n
        /\ n = Len(buffer) => SubSeq(buffer, 1, n) = buffer
        /\ Total(SubSeq(buffer, 1, n)) <= Total(buffer)
    BY <1>1, CutCounted
  <2>3. n <= Len(buffer)
    BY <1>1
  <2>4. /\ text' \in [Files -> Seq(Kinds)] /\ text'[file] = SubSeq(buffer, 1, n)
        /\ \A g \in Files \ {file} : text'[g] = text[g]
    BY <1>1, <2>1, <2>2
  <2> QED BY <1>1, <1>3, <2>1, <2>2, <2>3, <2>4
<1> QED
  BY <1>2, <1>3 DEF WriteFile

LEMMA TypedNext ==
    ASSUME IInv, [Next]_vars
    PROVE  Typed' /\ Bounded'
<1> USE DEF IInv
<1>0. /\ <<>> \in Seq(Kinds) /\ <<>> \in Seq(Finding) /\ Len(<<>>) = 0
      /\ \A f \in Files : placed[f] \in Nat
  BY DEF Typed
<1>1. ASSUME NEW f \in Files, ScanFile(f) PROVE Typed' /\ Bounded'
  <2>1. FindingsIn(f) \in Seq(Finding) /\ findings \o FindingsIn(f) \in Seq(Finding)
    <3>1. text[f] \in Seq(Kinds)
      BY DEF Typed
    <3>2. FindingsIn(f) \in Seq(Finding)
      BY <3>1, FileCounted
    <3> QED BY <3>2, ConcatProperties, Zenon DEF Typed
  <2>2. /\ findings' \in Seq(Finding) /\ todo' \subseteq Files
        /\ seen' \in [Files -> Seq(Kinds)]
        /\ \A g \in Files : seen'[g] = seen[g] \/ seen'[g] = text[g] \/ seen'[g] = <<>>
    BY <1>0, <1>1, <2>1 DEF ScanFile, Typed
  <2>3. UNCHANGED <<apply, pc, file, text, access, torn, buffer, coding, report, others>>
    BY <1>1 DEF ScanFile
  <2>4. Typed'
    BY <2>2, <2>3 DEF Typed, others
  <2>5. \A g \in Files : Len(text[g]) <= placed[g] /\ Len(seen'[g]) <= placed[g]
    BY <1>0, <2>2, SMTT(30) DEF Bounded
  <2>6. Bounded'
    BY <2>3, <2>5 DEF Bounded, others
  <2> QED BY <2>4, <2>6
<1>2. ASSUME EndScan PROVE Typed' /\ Bounded'
  BY <1>2 DEF EndScan, Typed, Bounded, others
<1>3. ASSUME NEW f \in Files, ReadFile(f) PROVE Typed' /\ Bounded'
  <2>1. text[f] \in Seq(Kinds) /\ access[f] \in Modes
    BY DEF Typed
  <2>2. \A garbled : Fixed(text[f], f, garbled) \in Seq(Kinds) /\ Len(Fixed(text[f], f, garbled)) = Len(text[f])
    BY <2>1, FixedType
  <2>3. UNCHANGED <<apply, text, access, torn, findings, report, seen, others>> /\ pc = "fix"
    BY <1>3 DEF ReadFile
  <2>4. CASE todo' = todo \ {f} /\ UNCHANGED <<pc, file, buffer, coding>>
    BY <2>3, <2>4 DEF Typed, Bounded, others
  <2>5. CASE /\ pc' = "write" /\ file' = f /\ coding' = access[f] /\ todo' = todo
             /\ \E garbled : buffer' = Fixed(text[f], f, garbled)
    <3>1. buffer' \in Seq(Kinds) /\ Len(buffer') = Len(text[f]) /\ f # NoFile
      BY <2>2, <2>5, SecurityAgentAssumption
    <3>2. Typed'
      BY <2>1, <2>3, <2>5, <3>1 DEF Typed, others
    <3>3. Bounded'
      BY <2>3, <2>5, <3>1 DEF Bounded, others
    <3> QED BY <3>2, <3>3
  <2> QED BY <1>3, <2>4, <2>5 DEF ReadFile
<1>4. ASSUME WriteFile PROVE Typed' /\ Bounded'
  <2>1. /\ file \in Files /\ pc = "write" /\ pc' = "fix" /\ todo' = todo \ {file} /\ file' = NoFile
        /\ buffer' = <<>> /\ coding' = {}
        /\ UNCHANGED <<apply, findings, report, seen, left, edits, placed, barred, overrun, queries>>
        /\ text' \in [Files -> Seq(Kinds)]
        /\ \A g \in Files \ {file} : text'[g] = text[g]
        /\ torn' = torn \/ torn' = torn \cup {file}
    BY <1>4, Written
  <2>2. access' \in [Files -> Modes] /\ {} \in Modes
    <3>1. /\ access \in [Files -> Modes]
          /\ access' = access \/ access' = [access EXCEPT ![file] = coding \cup {"write"}]
      BY <1>4, Written DEF Typed
    <3>2. coding \cup {"write"} \in Modes /\ {} \in Modes
      BY DEF Typed, Modes, Uses
    <3> QED BY <3>1, <3>2
  <2>3. Typed'
    BY <1>0, <2>1, <2>2, SecurityAgentAssumption DEF Typed
  <2>4. \A g \in Files : Len(text'[g]) <= placed[g]
    <3>1. text'[file] = text[file] \/ Len(text'[file]) <= Len(buffer)
      BY <1>4, Written
    <3>2. Len(buffer) <= placed[file] /\ Len(buffer) \in Nat /\ Len(text'[file]) \in Nat
      BY <2>1 DEF Bounded, Typed
    <3>3. Len(text'[file]) <= placed[file]
      BY <1>0, <2>1, <3>1, <3>2 DEF Bounded
    <3> QED BY <2>1, <3>3 DEF Bounded
  <2>5. Bounded'
    BY <2>1, <2>4 DEF Bounded
  <2> QED BY <2>3, <2>5
<1>5. ASSUME Rescan PROVE Typed' /\ Bounded'
  BY <1>0, <1>5 DEF Rescan, Typed, Bounded, others
<1>6. ASSUME WriteReport PROVE Typed' /\ Bounded'
  <2>1. SortedFindings \in Seq(Finding)
    BY SortedCounted DEF Typed
  <2> QED BY <1>6, <2>1 DEF WriteReport, Typed, Bounded, others
<1>7. ASSUME NEW f \in Files, Edit(f) PROVE Typed' /\ Bounded'
  <2>1. UNCHANGED <<apply, pc, todo, file, buffer, coding, torn, findings, report, seen>>
    BY <1>7 DEF Edit, agent
  <2>2. /\ text' \in [Files -> Seq(Kinds)] /\ \A g \in Files : g # f => text'[g] = text[g]
        /\ placed' \in [Files -> Nat] /\ \A g \in Files : placed[g] <= placed'[g]
        /\ Len(text'[f]) <= placed'[f]
    BY <1>7, EditedText DEF Bounded
  <2>3. /\ left' \in 0..MaxEdits /\ edits' \in [Files -> 0..MaxEdits]
        /\ \A g \in Files : edits'[g] + left' <= MaxEdits
    BY <1>7, EditCounted
  <2>4. access' \in [Files -> Modes] /\ overrun' \subseteq Files /\ barred' \subseteq Files
    BY <1>7 DEF Edit, Typed
  <2>5. queries' \in [Files -> Int]
    <3>1. Count(text[f], {"query"}) \in Nat /\ Count(text'[f], {"query"}) \in Nat
      BY <2>2, CountType DEF Typed
    <3>2. queries' = [queries EXCEPT ![f] = @ + Count(text'[f], {"query"}) - Count(text[f], {"query"})]
      BY <1>7 DEF Edit
    <3> QED BY <3>1, <3>2, SMTT(30) DEF Typed
  <2>6. Typed'
    BY <2>1, <2>2, <2>3, <2>4, <2>5 DEF Typed
  <2>7. ASSUME NEW g \in Files, NEW t \in Seq(Kinds), Len(t) <= placed[g] PROVE Len(t) <= placed'[g]
    <3>1. Len(t) \in Nat /\ placed[g] \in Nat /\ placed'[g] \in Nat /\ placed[g] <= placed'[g]
      BY <1>0, <2>2
    <3> QED BY <2>7, <3>1
  <2>8. ASSUME NEW g \in Files PROVE Len(text'[g]) <= placed'[g] /\ Len(seen[g]) <= placed'[g]
    <3>1. text[g] \in Seq(Kinds) /\ seen[g] \in Seq(Kinds)
      BY DEF Typed
    <3>2. Len(text[g]) <= placed'[g] /\ Len(seen[g]) <= placed'[g]
      BY <2>7, <3>1 DEF Bounded
    <3> QED BY <2>2, <3>2
  <2>9. pc = "write" => Len(buffer) <= placed'[file]
    BY <2>7 DEF Typed, Bounded
  <2>10. Bounded'
    BY <2>1, <2>3, <2>8, <2>9 DEF Bounded
  <2> QED BY <2>6, <2>10
<1>8. CASE UNCHANGED vars
  BY <1>8 DEF vars, agent, others, Typed, Bounded
<1> QED
  BY <1>1, <1>2, <1>3, <1>4, <1>5, <1>6, <1>7, <1>8 DEF Next

LEMMA NothingCounted == \A K : Count(<<>>, K) = 0
<1>1. <<>> \in Seq({}) /\ DOMAIN <<>> = {}
  OBVIOUS
<1> QED
  BY <1>1, CountNone

(* Each scan of a file adds its findings once. *)
LEMMA CountedNext ==
    ASSUME IInv, [Next]_vars
    PROVE  FindingsCounted'
<1> DEFINE Counted(f, p, matches) ==
             Count(findings, Of(f, p, matches)) =
                 IF pc \in {"scan", "rescan"} /\ f \in todo THEN 0 ELSE Count(seen[f], Kin(p, matches))
<1>0. Typed /\ FindingsCounted
  BY DEF IInv
<1> SUFFICES ASSUME NEW g \in Files, NEW p \in Range(Patterns), NEW matches \in SUBSET Kinds
             PROVE  Counted(g, p, matches)'
  BY DEF FindingsCounted
<1>1. Counted(g, p, matches)
  BY <1>0 DEF FindingsCounted
<1>2. ASSUME NEW f \in Files, ScanFile(f) PROVE Counted(g, p, matches)'
  <2>1. /\ pc' = pc /\ pc \in {"scan", "rescan"} /\ todo' = todo \ {f} /\ f \in todo
        /\ seen \in [Files -> Seq(Kinds)] /\ text[f] \in Seq(Kinds) /\ findings \in Seq(Finding)
    BY <1>0, <1>2 DEF ScanFile, Typed
  <2>2. CASE "scan" \notin access[f]
    <3>1. findings' = findings /\ seen'[f] = <<>> /\ (g # f => seen'[g] = seen[g])
      BY <1>2, <2>1, <2>2 DEF ScanFile
    <3>2. CASE g = f
      BY <1>1, <2>1, <3>1, <3>2, NothingCounted
    <3>3. CASE g # f
      BY <1>1, <2>1, <3>1, <3>3
    <3> QED BY <3>2, <3>3
  <2>3. CASE "scan" \in access[f]
    <3>1. findings' = findings \o FindingsIn(f) /\ seen'[f] = text[f] /\ (g # f => seen'[g] = seen[g])
      BY <1>2, <2>1, <2>3 DEF ScanFile
    <3>2. /\ FindingsIn(f) \in Seq(Finding)
          /\ Count(FindingsIn(f), Of(g, p, matches)) = IF g = f THEN Count(text[f], Kin(p, matches)) ELSE 0
      BY <2>1, FileCounted
    <3>3. Count(findings', Of(g, p, matches)) = Count(findings, Of(g, p, matches)) + Count(FindingsIn(f), Of(g, p, matches))
      BY <2>1, <3>1, <3>2, CountJoin
    <3>4. Count(text[f], Kin(p, matches)) \in Nat /\ Count(findings, Of(g, p, matches)) \in Nat
      BY <2>1, CountType
    <3>5. CASE g = f
      BY <1>1, <2>1, <3>1, <3>2, <3>3, <3>4, <3>5
    <3>6. CASE g # f
      BY <1>1, <2>1, <3>1, <3>2, <3>3, <3>4, <3>6
    <3> QED BY <3>5, <3>6
  <2> QED BY <2>2, <2>3
<1>3. ASSUME EndScan PROVE Counted(g, p, matches)'
  <2>1. todo = {} /\ pc' \in {"fix", "report"} /\ findings' = findings /\ seen' = seen
    BY <1>3 DEF EndScan
  <2> QED BY <1>1, <2>1
<1>4. ASSUME NEW f \in Files, ReadFile(f) PROVE Counted(g, p, matches)'
  <2>1. pc = "fix" /\ pc' \in {"fix", "write"} /\ findings' = findings /\ seen' = seen
    BY <1>4 DEF ReadFile
  <2> QED BY <1>1, <2>1
<1>5. ASSUME WriteFile PROVE Counted(g, p, matches)'
  <2>1. pc = "write" /\ pc' = "fix" /\ findings' = findings /\ seen' = seen
    BY <1>5 DEF WriteFile
  <2> QED BY <1>1, <2>1
<1>6. ASSUME Rescan PROVE Counted(g, p, matches)'
  <2>1. pc' = "rescan" /\ todo' = Files /\ findings' = <<>>
    BY <1>6 DEF Rescan
  <2> QED BY <2>1, NothingCounted
<1>7. ASSUME WriteReport PROVE Counted(g, p, matches)'
  <2>1. pc = "report" /\ pc' = "done" /\ findings' = findings /\ seen' = seen
    BY <1>7 DEF WriteReport
  <2> QED BY <1>1, <2>1
<1>8. ASSUME NEW f \in Files, Edit(f) PROVE Counted(g, p, matches)'
  <2>1. pc' = pc /\ todo' = todo /\ findings' = findings /\ seen' = seen
    BY <1>8 DEF Edit, agent
  <2> QED BY <1>1, <2>1
<1>9. CASE UNCHANGED vars
  <2>1. pc' = pc /\ todo' = todo /\ findings' = findings /\ seen' = seen
    BY <1>9 DEF vars, agent
  <2> QED BY <1>1, <2>1
<1> HIDE DEF Counted
<1> QED
  BY <1>2, <1>3, <1>4, <1>5, <1>6, <1>7, <1>8, <1>9 DEF Next

LEMMA TurnsNext ==
    ASSUME IInv, [Next]_vars
    PROVE  Turns'
<1>0. Typed /\ Turns
  BY DEF IInv
<1>1. ASSUME NEW f \in Files, ScanFile(f) PROVE Turns'
  BY <1>0, <1>1 DEF ScanFile, Turns, others
<1>2. ASSUME EndScan PROVE Turns'
  BY <1>0, <1>2 DEF EndScan, Turns, others
<1>3. ASSUME NEW f \in Files, ReadFile(f) PROVE Turns'
  BY <1>0, <1>3 DEF ReadFile, Turns, others
<1>4. ASSUME WriteFile PROVE Turns'
  <2>1. /\ file \in Files /\ pc = "write" /\ pc' = "fix" /\ todo' = todo \ {file}
        /\ UNCHANGED <<apply, barred>>
        /\ access' = access \/ access' = [access EXCEPT ![file] = coding \cup {"write"}]
    BY <1>0, <1>4, Written
  <2>2. coding # Uses => file \in barred
    BY <1>0, <2>1 DEF Turns
  <2>3. coding = Uses => coding \cup {"write"} = Uses
    BY DEF Uses
  <2>4. \A g \in Files : access'[g] # Uses => g \in barred
    BY <1>0, <2>1, <2>2, <2>3 DEF Turns, Typed
  <2> QED BY <1>0, <2>1, <2>4 DEF Turns
<1>5. ASSUME Rescan PROVE Turns'
  BY <1>0, <1>5 DEF Rescan, Turns, others
<1>6. ASSUME WriteReport PROVE Turns'
  BY <1>0, <1>6 DEF WriteReport, Turns, others
<1>7. ASSUME NEW f \in Files, Edit(f) PROVE Turns'
  <2>1. UNCHANGED <<apply, pc, todo, file, coding>>
    BY <1>7 DEF Edit, agent
  <2>2. /\ \A g \in Files : g # f => access'[g] = access[g]
        /\ barred' = IF access'[f] = Uses THEN barred ELSE barred \cup {f}
    BY <1>0, <1>7 DEF Edit, Typed
  <2> QED BY <1>0, <2>1, <2>2 DEF Turns
<1>8. CASE UNCHANGED vars
  BY <1>0, <1>8 DEF Turns, vars, agent, others
<1> QED
  BY <1>1, <1>2, <1>3, <1>4, <1>5, <1>6, <1>7, <1>8 DEF Next

(* The fixes of a file are those of what was read of it. *)
LEMMA FoundInSeen ==
    ASSUME IInv, NEW f \in Files, ~(pc \in {"scan", "rescan"} /\ f \in todo)
    PROVE  FoundIn(f, seen[f])
<1>1. findings \in Seq(Finding) /\ FindingsCounted
  BY DEF IInv, Typed
<1>2. ASSUME NEW p \in {"secret", "random"}, NEW m \in Kinds
      PROVE  Fixes(f, p, m) = Count(seen[f], Kin(p, {m}))
  <2>1. p \in Range(Patterns) /\ {m} \in SUBSET Kinds
    BY PatternsAre
  <2>2. Fixes(f, p, m) = Count(findings, Of(f, p, {m}))
    BY <1>1, <2>1, FixesCounted
  <2>3. Count(findings, Of(f, p, {m})) = Count(seen[f], Kin(p, {m}))
    BY <1>1, <2>1 DEF FindingsCounted
  <2> QED BY <2>2, <2>3
<1> QED
  BY <1>2 DEF FoundIn

(* A file without fixes has nothing that can be fixed. *)
LEMMA NoFixes ==
    ASSUME IInv, NEW f \in Files, ~(pc \in {"scan", "rescan"} /\ f \in todo), ~HasFixes(f)
    PROVE  \A k \in Matching("secret") \cup Matching("random") : Count(seen[f], {k}) = 0
<1>1. findings \in Seq(Finding) /\ seen[f] \in Seq(Kinds)
  BY DEF IInv, Typed
<1>2. \A p \in {"secret", "random"}, m \in Kinds : Fixes(f, p, m) = 0
  <2> SUFFICES ASSUME NEW p \in {"secret", "random"}, NEW m \in Kinds PROVE Found(f, p, m) = {}
    BY FS_EmptySet DEF Fixes
  <2>1. \A i \in DOMAIN findings : findings[i] \in Range(findings)
    BY DEF Range
  <2> QED BY <2>1 DEF Found, HasFixes, Fixable
<1>3. \A p \in {"secret", "random"}, m \in Kinds : Count(seen[f], Kin(p, {m})) = 0
  BY <1>2, FoundInSeen DEF FoundIn
<1>4. /\ Count(seen[f], {"secret"}) = 0 /\ Count(seen[f], {"masked"}) = 0
      /\ Count(seen[f], {"wrapped"}) = 0 /\ Count(seen[f], {"quoted"}) = 0
  BY <1>3, Kins DEF Kinds
<1>5. Count(seen[f], {"random"} \cup {"wrapped"}) = 0
  BY <1>3, Kins DEF Kinds
<1>6. Count(seen[f], {"random"}) = 0
  <2>1. Count(seen[f], {"random"} \cup {"wrapped"}) = Count(seen[f], {"random"}) + Count(seen[f], {"wrapped"})
    BY <1>1, CountUnion
  <2>2. Count(seen[f], {"random"}) \in Nat
    BY <1>1, CountType
  <2> QED BY <1>4, <1>5, <2>1, <2>2
<1> QED
  BY <1>4, <1>6 DEF Matching

LEMMA FixedNext ==
    ASSUME IInv, [Next]_vars
    PROVE  FixedBut'
<1>0. Typed /\ Turns /\ FixedBut
  BY DEF IInv
<1> SUFFICES ASSUME NEW g \in Files, g \notin barred' PROVE FileFixed(g)'
  BY DEF FixedBut
<1>1. text[g] \in Seq(Kinds) /\ seen[g] \in Seq(Kinds) /\ edits[g] \in Nat
  BY <1>0 DEF Typed
<1>2. g \notin barred => FileFixed(g) /\ access[g] = Uses
  BY <1>0 DEF FixedBut, Turns
<1>20. "scan" \in Uses /\ "read" \in Uses /\ "write" \in Uses
  BY DEF Uses
<1>3. ASSUME NEW f \in Files, ScanFile(f) PROVE FileFixed(g)'
  <2>1. UNCHANGED <<apply, pc, file, text, buffer, barred, edits, access>> /\ todo' = todo \ {f}
    BY <1>3 DEF ScanFile, others
  <2>2. pc \in {"scan", "rescan"} /\ f \in todo
    BY <1>3 DEF ScanFile
  <2>3. FileFixed(g) /\ access[g] = Uses
    BY <1>2, <2>1
  <2>4. CASE g = f
    <3>1. seen'[g] = text[g]
      BY <1>0, <1>3, <1>20, <2>3, <2>4 DEF ScanFile, Typed
    <3>2. Ahead(text'[g], seen'[g]) = 0
      BY <1>1, <2>1, <3>1, AheadEnds
    <3>3. 0 <= 2 * edits'[g]
      BY <1>1, <2>1
    <3>4. pc = "rescan" => Total(seen'[g]) <= 2 * edits'[g]
      BY <2>1, <2>2, <2>3, <2>4, <3>1 DEF FileFixed
    <3> QED BY <2>1, <2>2, <2>4, <3>2, <3>3, <3>4 DEF FileFixed
  <2>5. CASE g # f
    <3>1. seen'[g] = seen[g] /\ (g \in todo' <=> g \in todo)
      BY <1>0, <1>3, <2>1, <2>5 DEF ScanFile, Typed
    <3> QED BY <2>1, <2>3, <3>1 DEF FileFixed
  <2> QED BY <2>4, <2>5
<1>4. ASSUME EndScan PROVE FileFixed(g)'
  <2>1. UNCHANGED <<apply, file, text, buffer, seen, barred, edits>>
    BY <1>4 DEF EndScan, others
  <2>2. FileFixed(g) /\ todo = {} /\ pc \in {"scan", "rescan"}
    BY <1>2, <1>4, <2>1 DEF EndScan
  <2>3. CASE pc = "scan" /\ apply
    <3>1. pc' = "fix" /\ todo' = {f \in Files : HasFixes(f)}
      BY <1>4, <2>3 DEF EndScan
    <3>2. Ahead(text[g], seen[g]) <= 2 * edits[g]
      BY <2>2, <2>3 DEF FileFixed
    <3>3. CASE g \notin todo'
      <4>1. \A k \in Matching("secret") \cup Matching("random") : Count(seen[g], {k}) = 0
        BY <2>2, <3>1, <3>3, NoFixes
      <4>2. Total(text[g]) <= 2 * edits[g]
        BY <1>1, <3>2, <4>1, AheadEnds
      <4> QED BY <2>1, <3>1, <3>3, <4>2 DEF FileFixed
    <3>4. CASE g \in todo'
      BY <2>1, <3>1, <3>2, <3>4 DEF FileFixed
    <3> QED BY <3>3, <3>4
  <2>4. CASE ~(pc = "scan" /\ apply)
    <3>1. pc' = "report" /\ todo' = todo
      BY <1>4, <2>4 DEF EndScan
    <3> QED BY <2>1, <2>2, <2>4, <3>1 DEF FileFixed
  <2> QED BY <2>3, <2>4
<1>5. ASSUME NEW f \in Files, ReadFile(f) PROVE FileFixed(g)'
  <2>1. UNCHANGED <<apply, text, seen, barred, edits>> /\ pc = "fix" /\ f \in todo
    BY <1>5 DEF ReadFile, others
  <2>2. FileFixed(g) /\ access[g] = Uses
    BY <1>2, <2>1
  <2>3. CASE "read" \notin access[f] /\ todo' = todo \ {f} /\ UNCHANGED <<pc, file, buffer>>
    <3>1. pc' = "fix" /\ todo' = todo \ {f} /\ f # g
      BY <1>20, <2>1, <2>2, <2>3
    <3> QED BY <2>1, <2>2, <3>1 DEF FileFixed
  <2>4. CASE /\ pc' = "write" /\ file' = f /\ todo' = todo
             /\ \E garbled \in SUBSET Matching("secret") :
                  /\ "read" \in access[f] => garbled = {}
                  /\ buffer' = Fixed(text[f], f, garbled)
    <3>1. ASSUME g = f PROVE Total(buffer') <= 2 * edits[g]
      <4>1. FoundIn(f, seen[f])
        BY <2>1, FoundInSeen
      <4>2. buffer' = Fixed(text[f], f, {}) /\ {} \in SUBSET Matching("secret")
        BY <1>20, <2>2, <2>4, <3>1
      <4>3. Total(Fixed(text[f], f, {})) = Ahead(text[f], seen[f])
        BY <1>0, <1>1, <3>1, <4>1, <4>2, FixedCounted DEF Typed
      <4> QED BY <2>1, <2>2, <3>1, <4>2, <4>3 DEF FileFixed
    <3> QED BY <2>1, <2>2, <2>4, <3>1 DEF FileFixed
  <2> QED BY <1>5, <2>3, <2>4 DEF ReadFile
<1>6. ASSUME WriteFile PROVE FileFixed(g)'
  <2>1. UNCHANGED <<apply, seen, barred, edits>> /\ pc = "write" /\ pc' = "fix" /\ todo' = todo \ {file}
    BY <1>0, <1>6, Written
  <2>2. FileFixed(g) /\ access[g] = Uses
    BY <1>2, <2>1
  <2>3. CASE g = file
    <3>1. Total(text'[g]) <= Total(buffer) /\ text'[g] \in Seq(Kinds)
      BY <1>0, <1>6, <2>2, <2>3, Written
    <3>2. Total(buffer) <= 2 * edits[g]
      BY <2>1, <2>2, <2>3 DEF FileFixed
    <3>3. Total(text'[g]) \in Nat /\ Total(buffer) \in Nat
      BY <1>0, <3>1, TotalType DEF Typed
    <3>4. Total(text'[g]) <= 2 * edits'[g]
      BY <1>1, <2>1, <3>1, <3>2, <3>3
    <3> QED BY <2>1, <2>3, <3>4 DEF FileFixed
  <2>4. CASE g # file
    <3>1. text'[g] = text[g] /\ (g \in todo' <=> g \in todo)
      BY <1>0, <1>6, <2>1, <2>4, Written
    <3> QED BY <2>1, <2>2, <2>4, <3>1 DEF FileFixed
  <2> QED BY <2>3, <2>4
<1>7. ASSUME Rescan PROVE FileFixed(g)'
  <2>1. UNCHANGED <<text, seen, barred, edits>> /\ pc = "fix" /\ todo = {} /\ pc' = "rescan" /\ todo' = Files
    BY <1>7 DEF Rescan, others
  <2> QED BY <1>2, <2>1 DEF FileFixed
<1>8. ASSUME WriteReport PROVE FileFixed(g)'
  <2>1. UNCHANGED <<apply, seen, barred, edits>> /\ pc = "report" /\ pc' = "done"
    BY <1>8 DEF WriteReport, others
  <2> QED BY <1>2, <2>1 DEF FileFixed
<1>9. ASSUME NEW f \in Files, Edit(f) PROVE FileFixed(g)'
  <2>1. UNCHANGED <<apply, pc, todo, file, buffer, seen>>
    BY <1>9 DEF Edit, agent
  <2>2. g \notin barred
    BY <1>9 DEF Edit
  <2>3. FileFixed(g)
    BY <1>2, <2>2
  <2>4. CASE g # f
    <3>1. text'[g] = text[g] /\ edits'[g] = edits[g]
      BY <1>0, <1>9, <2>4, EditedText, EditCounted DEF IInv
    <3> QED BY <2>1, <2>3, <3>1 DEF FileFixed
  <2>5. CASE g = f
    <3>1. edits'[g] = edits[g] + 1
      BY <1>9, <2>5, EditCounted DEF IInv
    <3>2. text'[g] \in Seq(Kinds)
      BY <1>0, <1>9, EditedText
    <3>3. CASE text'[g] = text[g]
      <4>1. \A n \in Int : n <= 2 * edits[g] => n <= 2 * edits'[g]
        BY <1>1, <3>1
      <4>2. Total(text[g]) \in Int /\ Total(seen[g]) \in Int /\ Total(buffer) \in Int /\ Ahead(text[g], seen[g]) \in Int
        BY <1>0, <1>1, TotalType DEF Typed
      <4> QED BY <2>1, <2>3, <3>3, <4>1, <4>2 DEF FileFixed
    <3>4. CASE text'[g] # text[g]
      <4>1. PICK e : \/ \A K : Count(text'[g], K) = Count(text[g], K) + One(e, K)
                    \/ \A K : Count(text'[g], K) = Count(text[g], K) - One(e, K)
        BY <1>0, <1>9, <2>5, <3>4, EditedText
      <4>2. /\ Total(text'[g]) <= Total(text[g]) + 2
            /\ Ahead(text'[g], seen[g]) <= Ahead(text[g], seen[g]) + 2
        BY <1>1, <3>2, <4>1, EditAdds
      <4> HIDE <4>1
      <4>3. /\ Total(text[g]) \in Int /\ Total(seen[g]) \in Int /\ Total(buffer) \in Int /\ Ahead(text[g], seen[g]) \in Int
            /\ Total(text'[g]) \in Int /\ Ahead(text'[g], seen[g]) \in Int
        <5>1. buffer \in Seq(Kinds)
          BY <1>0 DEF Typed
        <5>2. \A t, u \in Seq(Kinds) : Total(t) \in Nat /\ Ahead(t, u) \in Nat
          BY TotalType
        <5>3. /\ Total(text[g]) \in Nat /\ Total(seen[g]) \in Nat /\ Total(buffer) \in Nat
              /\ Ahead(text[g], seen[g]) \in Nat
              /\ Total(text'[g]) \in Nat /\ Ahead(text'[g], seen[g]) \in Nat
          BY <1>1, <3>2, <5>1, <5>2, Zenon
        <5> QED BY <5>3
      <4>4. \A n \in Int : n <= 2 * edits[g] => n <= 2 * edits'[g]
        BY <1>1, <3>1
      <4>5. Total(text[g]) <= 2 * edits[g] => Total(text'[g]) <= 2 * edits'[g]
        BY <1>1, <3>1, <4>2, <4>3, SMTT(30)
      <4>6. Ahead(text[g], seen[g]) <= 2 * edits[g] => Ahead(text'[g], seen[g]) <= 2 * edits'[g]
        BY <1>1, <3>1, <4>2, <4>3, SMTT(30)
      <4> QED BY <2>1, <2>3, <4>3, <4>4, <4>5, <4>6 DEF FileFixed
    <3> QED BY <3>3, <3>4
  <2> QED BY <2>4, <2>5
<1>10. CASE UNCHANGED vars
  <2>1. UNCHANGED <<apply, pc, todo, file, buffer, text, seen, barred, edits>>
    BY <1>10 DEF vars, agent, others
  <2> QED BY <1>2, <2>1 DEF FileFixed
<1> QED
  BY <1>3, <1>4, <1>5, <1>6, <1>7, <1>8, <1>9, <1>10 DEF Next

(* QueriesKept for one file. *)
FileKept(f) ==
    /\ Count(text[f], {"query"}) = queries[f] \/ f \in overrun \cup torn
    /\ pc = "write" /\ file = f => Count(buffer, {"query"}) = queries[f] \/ f \in overrun \cup torn

LEMMA QueriesNext ==
    ASSUME IInv, [Next]_vars
    PROVE  QueriesKept'
<1>0. Typed /\ QueriesKept
  BY DEF IInv
<1>1. QueriesKept <=> \A f \in Files : FileKept(f)
  BY <1>0 DEF QueriesKept, OthersKept, FileKept, Typed
<1>2. (\A f \in Files : FileKept(f)') => QueriesKept'
  BY TypedNext DEF QueriesKept, OthersKept, FileKept, Typed
<1> SUFFICES ASSUME NEW g \in Files PROVE FileKept(g)'
  BY <1>2
<1>3. FileKept(g) /\ text[g] \in Seq(Kinds)
  BY <1>0, <1>1 DEF Typed
<1>4. ASSUME NEW f \in Files, ScanFile(f) PROVE FileKept(g)'
  BY <1>3, <1>4 DEF ScanFile, FileKept, others
<1>5. ASSUME EndScan PROVE FileKept(g)'
  BY <1>3, <1>5 DEF EndScan, FileKept, others
<1>6. ASSUME NEW f \in Files, ReadFile(f) PROVE FileKept(g)'
  <2>1. UNCHANGED <<text, torn, overrun, queries>> /\ pc = "fix"
    BY <1>6 DEF ReadFile, others
  <2>2. CASE pc' = pc
    BY <1>3, <2>1, <2>2 DEF FileKept
  <2>3. CASE /\ file' = f
             /\ \E garbled \in SUBSET Matching("secret") : buffer' = Fixed(text[f], f, garbled)
    <3>1. ASSUME g = f PROVE Count(buffer', {"query"}) = Count(text[f], {"query"})
      <4>1. FoundIn(f, seen[f])
        BY <2>1, FoundInSeen
      <4>2. findings \in Seq(Finding) /\ text[f] \in Seq(Kinds) /\ seen[f] \in Seq(Kinds)
        BY <1>0 DEF Typed
      <4> QED BY <2>3, <4>1, <4>2, FixedCounted
    <3> QED BY <1>3, <2>1, <2>3, <3>1 DEF FileKept
  <2> QED BY <1>6, <2>2, <2>3 DEF ReadFile
<1>7. ASSUME WriteFile PROVE FileKept(g)'
  <2>1. UNCHANGED <<overrun, queries>> /\ pc = "write" /\ pc' = "fix"
    BY <1>0, <1>7, Written
  <2>2. /\ text'[g] = text[g] \/ (g = file /\ (text'[g] = buffer \/ g \in torn'))
        /\ torn \subseteq torn'
    BY <1>0, <1>7, Written
  <2> QED BY <1>3, <2>1, <2>2 DEF FileKept
<1>8. ASSUME Rescan PROVE FileKept(g)'
  BY <1>3, <1>8 DEF Rescan, FileKept, others
<1>9. ASSUME WriteReport PROVE FileKept(g)'
  BY <1>3, <1>9 DEF WriteReport, FileKept, others
<1>10. ASSUME NEW f \in Files, Edit(f) PROVE FileKept(g)'
  <2>1. UNCHANGED <<pc, file, buffer, torn>>
    BY <1>10 DEF Edit, agent
  <2>2. overrun' = IF file = f THEN overrun \cup {f} ELSE overrun
    BY <1>10 DEF Edit
  <2>3. /\ queries' = [queries EXCEPT ![f] = @ + Count(text'[f], {"query"}) - Count(text[f], {"query"})]
        /\ queries \in [Files -> Int]
    BY <1>0, <1>10 DEF Edit, Typed
  <2>4. CASE g # f
    <3>1. text'[g] = text[g] /\ queries'[g] = queries[g]
      BY <1>0, <1>10, <2>3, <2>4, EditedText
    <3> QED BY <1>3, <2>1, <2>2, <3>1 DEF FileKept
  <2>5. CASE g = f
    <3>1. text'[g] \in Seq(Kinds)
      BY <1>0, <1>10, EditedText
    <3>2. Count(text[g], {"query"}) \in Nat /\ Count(text'[g], {"query"}) \in Nat
      BY <1>3, <3>1, CountType
    <3>3. queries'[g] = queries[g] + Count(text'[g], {"query"}) - Count(text[g], {"query"}) /\ queries[g] \in Int
      BY <2>3, <2>5
    <3>4. Count(text[g], {"query"}) = queries[g] => Count(text'[g], {"query"}) = queries'[g]
      BY <3>2, <3>3
    <3> QED BY <1>3, <2>1, <2>2, <2>5, <3>4 DEF FileKept
  <2> QED BY <2>4, <2>5
<1>11. CASE UNCHANGED vars
  BY <1>3, <1>11 DEF FileKept, vars, agent, others
<1> QED
  BY <1>4, <1>5, <1>6, <1>7, <1>8, <1>9, <1>10, <1>11 DEF Next

LEMMA ReportNext ==
    ASSUME IInv, [Next]_vars
    PROVE  ReportCurrent'
<1>0. Typed /\ Turns /\ FindingsCounted /\ ReportCurrent
  BY DEF IInv
<1>1. CASE WriteReport
  <2>1. pc = "report" /\ report' = SortedFindings /\ seen' = seen
    BY <1>1 DEF WriteReport
  <2>2. findings \in Seq(Finding)
    BY <1>0 DEF Typed
  <2>3. /\ SortedFindings \in Seq(Finding)
        /\ \A i, j \in DOMAIN SortedFindings :
             i < j => Severity(SortedFindings[i].pattern) <= Severity(SortedFindings[j].pattern)
        /\ \A f \in Files, p \in Range(Patterns) :
             Count(SortedFindings, Of(f, p, Kinds)) = Count(findings, Of(f, p, Kinds))
    BY <2>2, SortedCounted
  <2>4. ASSUME NEW f \in Files, NEW p \in Range(Patterns)
        PROVE  Cardinality({i \in DOMAIN report' : report'[i].file = f /\ report'[i].pattern = p})
                 = Count(seen'[f], Matching(p))
    <3>1. Count(findings, Of(f, p, Kinds)) = Count(seen[f], Kin(p, Kinds))
      BY <1>0, <2>1 DEF FindingsCounted
    <3>2. Kin(p, Kinds) = Matching(p)
      BY Kins
    <3>3. {i \in DOMAIN SortedFindings : SortedFindings[i].file = f /\ SortedFindings[i].pattern = p}
            = Places(SortedFindings, Of(f, p, Kinds))
      <4>1. \A i \in DOMAIN SortedFindings : SortedFindings[i] \in Finding
        BY <2>3
      <4>2. \A x \in Finding : x.file = f /\ x.pattern = p <=> x \in Of(f, p, Kinds)
        BY DEF Of, Finding
      <4> QED BY <4>1, <4>2 DEF Places
    <3>4. Count(SortedFindings, Of(f, p, Kinds)) = Count(seen[f], Matching(p))
      BY <2>3, <3>1, <3>2
    <3> QED BY <2>1, <3>3, <3>4 DEF Count
  <2> QED BY <2>1, <2>3, <2>4 DEF ReportCurrent
<1>2. ASSUME pc' # "done" PROVE ReportCurrent'
  BY <1>2 DEF ReportCurrent
<1>3. CASE UNCHANGED vars
  BY <1>0, <1>3 DEF ReportCurrent, vars, agent
<1>4. ASSUME Next, ~WriteReport PROVE pc' # "done"
  BY <1>4 DEF Next, ScanFile, EndScan, ReadFile, WriteFile, Rescan, Edit, agent
<1> QED
  BY <1>1, <1>2, <1>3, <1>4

LEMMA Invariance == Spec => []IInv
<1>1. IInv /\ [Next]_vars => IInv'
  <2> SUFFICES ASSUME IInv, [Next]_vars PROVE IInv'
    OBVIOUS
  <2>1. Typed' /\ Bounded' /\ FindingsCounted' /\ Turns' /\ FixedBut' /\ QueriesKept' /\ ReportCurrent'
    BY TypedNext, CountedNext, TurnsNext, FixedNext, QueriesNext, ReportNext
  <2> QED BY <2>1 DEF IInv
<1> QED
  BY <1>1, InitInvariant, PTL DEF Spec

-----------------------------------------------------------------------------
(* The types hold in every reachable state: whatever is fixed and edited,  *)
(* a file, a scan of it and what is about to be written to it have no more *)
(* places than it had at first and others have added.                      *)
THEOREM TypeCorrect == Spec => []TypeOK
<1>1. ASSUME IInv PROVE TypeOK
  <2>1. Typed /\ Bounded
    BY <1>1 DEF IInv
  <2>2. {buffer} \cup Range(text) \cup Range(seen) \subseteq Seq(Kinds)
    BY <2>1 DEF Typed, Range
  <2>3. Len(buffer) <= (IF pc = "write" THEN placed[file] ELSE 0)
    BY <2>1 DEF Typed, Bounded
  <2> QED BY <2>1, <2>2, <2>3 DEF Typed, Bounded, TypeOK
<1> QED
  BY <1>1, Invariance, PTL

(* When apply_fixes is done, what can be fixed in a file that was always   *)
(* readable and writable is at most two findings per edit of others: for   *)
(* any files of any length, however matches overlap and repeat.            *)
THEOREM FixesComplete == Spec => []FixablesGone
<1>1. ASSUME IInv PROVE FixablesGone
  BY <1>1 DEF IInv, FixedBut, FileFixed, FixablesGone, Total
<1> QED
  BY <1>1, Invariance, PTL

(* The agent takes nothing for which it has no fix and which does not stand *)
(* in a secret's string from a file, unless the file was edited between its *)
(* reading and its writing of it, or a write of it failed.                  *)
THEOREM NothingElseTaken == Spec => []OthersKept
<1>1. IInv => OthersKept
  BY DEF IInv, QueriesKept
<1> QED
  BY <1>1, Invariance, PTL

(* The report has a row for each match in what the last scan read, and the *)
(* most severe ones come first.                                            *)
THEOREM ReportIsOfLastScan == Spec => []ReportCurrent
<1>1. IInv => ReportCurrent
  BY DEF IInv
<1> QED
  BY <1>1, Invariance, PTL
=============================================================================
