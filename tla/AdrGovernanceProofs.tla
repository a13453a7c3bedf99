------------------------ MODULE AdrGovernanceProofs -------------------------
(***************************************************************************)
(* Proofs about AdrGovernance for any pull requests, records, weights and  *)
(* days, and for any main whose records verify.                            *)
(***************************************************************************)
EXTENDS AdrGovernance, FiniteSetTheorems, TLAPS

(* A branch changes code in its own name, and until it is merged nobody    *)
(* else has what it says.                                                  *)
CodeOwned ==
    \A p \in PRs, f \in Texts : head[p][f] # fork[p][f] => head[p][f] = p
Unmerged ==
    \A p \in PRs, f \in Texts : state[p] # "merged" =>
        main[f] # p /\ fork[p][f] # p /\ base[p][f] # p

PassedChecks ==
    \A p \in PRs : state[p] = "open" /\ verdict[p] = "passed" =>
        VerifyAdrs(MergeRef(p)) /\ EvaluateSignificance(DiffFiles(p), FALSE)

IInv == /\ TypeOK /\ CodeOwned /\ Unmerged /\ PassedChecks
        /\ GateHolds /\ MainVerifies /\ IndexCurrent /\ TotalCurrent

-----------------------------------------------------------------------------
(* Trees *)

LEMMA Disjoint ==
    /\ \A f \in AdrPaths : /\ f \in Files /\ f \notin Texts /\ f \notin Index
                           /\ Block[f] \in Blocks /\ Row[f] \in Rows
    /\ \A f \in Texts  : f \in Files /\ f \notin AdrPaths /\ f \notin Index
    /\ \A f \in Blocks : f \in Files /\ f \in Index /\ f \notin Rows /\ f # Total /\ f # Updated
    /\ \A f \in Rows   : f \in Files /\ f \in Index /\ f \notin Blocks /\ f # Total /\ f # Updated
    /\ Total \in Files /\ Total \in Index /\ Updated \in Files /\ Updated \in Index /\ Total # Updated
    /\ \A f \in Index  : f \in Files /\ f \notin AdrPaths /\ f \notin Texts
    /\ Index = Blocks \cup Rows \cup {Total, Updated}
    /\ Files = AdrPaths \cup Texts \cup Index
<1>1. /\ AdrPaths \cap Texts = {} /\ (AdrPaths \cup Texts) \cap Index = {}
      /\ Blocks \cap Rows = {} /\ {Total, Updated} \cap (Blocks \cup Rows) = {} /\ Total # Updated
  BY PartsAssumption
<1>2. \A f \in AdrPaths : Block[f] \in Blocks /\ Row[f] \in Rows
  BY DEF Blocks, Rows
<1>3. Index = Blocks \cup Rows \cup {Total, Updated} /\ Files = AdrPaths \cup Texts \cup Index
  BY DEF Index, Json, Files
<1> QED
  BY <1>1, <1>2, <1>3

(* What the parts of a tree hold. *)
LEMMA Kinds ==
    /\ \A f \in AdrPaths : Contents(f) = Docs[f] \cup {Absent}
    /\ \A f \in Texts  : Contents(f) = PRs \cup {Absent}
    /\ \A f \in Blocks : Contents(f) = InBlocks
    /\ \A f \in Rows   : Contents(f) = InRows
    /\ Contents(Total) = 0..Len(AdrFiles)
    /\ Contents(Updated) = Days \cup {Absent}
<1>1. \A f \in AdrPaths : Contents(f) = Docs[f] \cup {Absent}
  BY Disjoint DEF Contents
<1>2. \A f \in Texts  : Contents(f) = PRs \cup {Absent}
  BY Disjoint DEF Contents
<1>3. \A f \in Blocks : Contents(f) = InBlocks
  BY Disjoint DEF Contents
<1>4. \A f \in Rows   : Contents(f) = InRows
  BY Disjoint DEF Contents
<1>5. Contents(Total) = 0..Len(AdrFiles)
  BY Disjoint DEF Contents
<1>6. Contents(Updated) = Days \cup {Absent}
  BY Disjoint DEF Contents
<1> QED
  BY <1>1, <1>2, <1>3, <1>4, <1>5, <1>6

LEMMA RecordsFinite ==
    ASSUME NEW t
    PROVE  IsFiniteSet(Records(t)) /\ Cardinality(Records(t)) \in 0..Len(AdrFiles)
<1>1. Len(AdrFiles) \in Nat /\ DOMAIN AdrFiles = 1..Len(AdrFiles)
  BY PartsAssumption
<1>2. IsFiniteSet(1..Len(AdrFiles)) /\ Cardinality(1..Len(AdrFiles)) = Len(AdrFiles)
  <2> DEFINE n == Len(AdrFiles)
  <2>1. n \in Nat
    BY <1>1
  <2> HIDE DEF n
  <2>2. IsFiniteSet(1..n) /\ Cardinality(1..n) = IF 1 > n THEN 0 ELSE n - 1 + 1
    BY <2>1, FS_Interval
  <2>3. Cardinality(1..n) = n
    BY <2>1, <2>2
  <2> QED
    BY <2>2, <2>3 DEF n
<1>3. Records(t) \in SUBSET (1..Len(AdrFiles))
  BY <1>1 DEF Records
<1>4. IsFiniteSet(Records(t)) /\ Cardinality(Records(t)) <= Len(AdrFiles) /\ Cardinality(Records(t)) \in Nat
  BY <1>2, <1>3, FS_Subset, FS_CardinalityType
<1> QED
  BY <1>1, <1>4

(* reindex makes the index that of the records, and nothing else.          *)
LEMMA ReindexedIs ==
    ASSUME NEW t, NEW day
    PROVE  /\ \A f \in AdrPaths : /\ Reindexed(t, day)[Block[f]] = InBlock(t[f])
                                  /\ Reindexed(t, day)[Row[f]] = InRow(t[f])
           /\ Reindexed(t, day)[Total] = Cardinality(Records(t))
           /\ Reindexed(t, day)[Updated] = day
           /\ \A f \in AdrPaths \cup Texts : Reindexed(t, day)[f] = t[f]
           /\ DOMAIN Reindexed(t, day) = Files
<1>1. \A f \in AdrPaths : RecordOf(Block[f]) = f /\ RecordOf(Row[f]) = f
  <2> TAKE f \in AdrPaths
  <2>1. \A g \in AdrPaths : Block[f] \in {Block[g], Row[g]} => g = f
    BY PartsAssumption, Disjoint
  <2>2. \A g \in AdrPaths : Row[f] \in {Block[g], Row[g]} => g = f
    BY PartsAssumption, Disjoint
  <2> QED
    BY <2>1, <2>2 DEF RecordOf
<1>2. \A f \in AdrPaths : Reindexed(t, day)[Block[f]] = InBlock(t[f])
  BY <1>1, Disjoint DEF Reindexed
<1>3. \A f \in AdrPaths : Reindexed(t, day)[Row[f]] = InRow(t[f])
  BY <1>1, Disjoint DEF Reindexed
<1>4. Reindexed(t, day)[Total] = Cardinality(Records(t)) /\ Reindexed(t, day)[Updated] = day
  BY Disjoint DEF Reindexed
<1>5. \A f \in AdrPaths \cup Texts : Reindexed(t, day)[f] = t[f]
  BY Disjoint DEF Reindexed
<1>6. DOMAIN Reindexed(t, day) = Files
  BY DEF Reindexed
<1> QED
  BY <1>2, <1>3, <1>4, <1>5, <1>6

LEMMA ReindexedTyped ==
    ASSUME NEW t, IsTree(t), NEW day \in Days
    PROVE  IsTree(Reindexed(t, day))
<1> DEFINE u == Reindexed(t, day)
<1> HIDE DEF u
<1>1. \A f \in AdrPaths : t[f] \in Says
  <2> TAKE f \in AdrPaths
  <2>1. f \in Files /\ Contents(f) = Docs[f] \cup {Absent}
    BY Disjoint, Kinds
  <2>2. t[f] \in Docs[f] \cup {Absent}
    BY <2>1 DEF IsTree
  <2>3. Docs[f] \in {Docs[g] : g \in AdrPaths}
    OBVIOUS
  <2> QED
    BY <2>2, <2>3 DEF Says
<1>2. \A e \in Blocks : u[e] \in Contents(e)
  <2> TAKE e \in Blocks
  <2>1. PICK f \in AdrPaths : e = Block[f]
    BY DEF Blocks
  <2> QED
    BY <1>1, <2>1, Kinds, ReindexedIs DEF u, InBlocks
<1>3. \A e \in Rows : u[e] \in Contents(e)
  <2> TAKE e \in Rows
  <2>1. PICK f \in AdrPaths : e = Row[f]
    BY DEF Rows
  <2> QED
    BY <1>1, <2>1, Kinds, ReindexedIs DEF u, InRows
<1>4. u[Total] \in Contents(Total) /\ u[Updated] \in Contents(Updated)
  BY Kinds, ReindexedIs, RecordsFinite DEF u
<1>5. \A f \in AdrPaths \cup Texts : u[f] \in Contents(f)
  BY Disjoint, ReindexedIs DEF u, IsTree
<1>6. DOMAIN u = Files
  BY ReindexedIs DEF u
<1>7. \A f \in Files : u[f] \in Contents(f)
  BY <1>2, <1>3, <1>4, <1>5, Disjoint
<1> QED
  BY <1>6, <1>7 DEF IsTree, u

LEMMA AsReindexedShows ==
    ASSUME NEW t
    PROVE  /\ AsReindexed(t, Blocks \cup Rows) => ShowsRecords(t)
           /\ AsReindexed(t, {Total}) => CountsRecords(t)
  BY ReindexedIs, Disjoint DEF AsReindexed, ShowsRecords, CountsRecords

(* The verification reads the records and nothing else.                    *)
LEMMA VerifyReadsRecords ==
    ASSUME NEW t, NEW u, \A f \in AdrPaths : t[f] = u[f], VerifyAdrs(t)
    PROVE  VerifyAdrs(u)
<1>1. \A i \in DOMAIN AdrFiles : t[AdrFiles[i]] = u[AdrFiles[i]]
  BY DEF AdrPaths
<1>2. Records(t) = Records(u)
  BY <1>1 DEF Records
<1>3. \A n : WithId(t, n) = WithId(u, n)
  BY <1>2 DEF WithId
<1>4. ASSUME NEW i \in Records(u) PROVE u[AdrFiles[i]].sections /\ LinkHolds(u, i)
  <2>1. i \in DOMAIN AdrFiles /\ t[AdrFiles[i]] = u[AdrFiles[i]]
    BY <1>1 DEF Records
  <2>2. t[AdrFiles[i]].sections /\ LinkHolds(t, i)
    BY <1>2 DEF VerifyAdrs
  <2>3. \A j \in WithId(u, u[AdrFiles[i]].supersedes) : j \in DOMAIN AdrFiles
    BY DEF WithId, Records
  <2> QED
    BY <1>1, <1>3, <2>1, <2>2, <2>3 DEF LinkHolds
<1> QED
  BY <1>4 DEF VerifyAdrs

(* Where each place differs as it does between two other sets, or not at   *)
(* all, the sizes differ as theirs do.                                     *)
LEMMA CountMoves ==
    ASSUME NEW H, NEW F, NEW M, NEW N,
           IsFiniteSet(H), IsFiniteSet(F), IsFiniteSet(M), IsFiniteSet(N),
           \A i : \/ (i \in H <=> i \in F) /\ (i \in N <=> i \in M)
                  \/ (i \in M <=> i \in F) /\ (i \in N <=> i \in H)
    PROVE  Cardinality(N) - Cardinality(M) = Cardinality(H) - Cardinality(F)
<1>1. N \ M = H \ F /\ M \ N = F \ H /\ N \cap M = M \cap N /\ H \cap F = F \cap H
  OBVIOUS
<1>2. /\ Cardinality(N \ M) = Cardinality(N) - Cardinality(N \cap M)
      /\ Cardinality(M \ N) = Cardinality(M) - Cardinality(M \cap N)
      /\ Cardinality(H \ F) = Cardinality(H) - Cardinality(H \cap F)
      /\ Cardinality(F \ H) = Cardinality(F) - Cardinality(F \cap H)
  BY FS_Difference
<1>3. /\ Cardinality(N) \in Nat /\ Cardinality(M) \in Nat /\ Cardinality(H) \in Nat /\ Cardinality(F) \in Nat
      /\ IsFiniteSet(N \cap M) /\ IsFiniteSet(H \cap F)
  BY FS_CardinalityType, FS_Intersection
<1>4. Cardinality(N \cap M) \in Nat /\ Cardinality(H \cap F) \in Nat
  BY <1>3, FS_CardinalityType
<1>5. Cardinality(N) - Cardinality(N \cap M) = Cardinality(H) - Cardinality(H \cap F)
  BY <1>1, <1>2
<1>6. Cardinality(M) - Cardinality(N \cap M) = Cardinality(F) - Cardinality(H \cap F)
  BY <1>1, <1>2
<1> DEFINE h == Cardinality(H)
           f == Cardinality(F)
           m == Cardinality(M)
           n == Cardinality(N)
           c == Cardinality(N \cap M)
           d == Cardinality(H \cap F)
<1>7. h \in Nat /\ f \in Nat /\ m \in Nat /\ n \in Nat /\ c \in Nat /\ d \in Nat /\ n - c = h - d /\ m - c = f - d
  BY <1>3, <1>4, <1>5, <1>6
<1> HIDE DEF h, f, m, n, c, d
<1>8. n - m = h - f
  BY <1>7
<1> QED
  BY <1>8 DEF h, f, m, n

-----------------------------------------------------------------------------
(* The invariant *)

LEMMA InitInvariant == Init => IInv
<1> SUFFICES ASSUME Init PROVE IInv
  OBVIOUS
<1>1. /\ IsTree(main) /\ VerifyAdrs(main)
      /\ \A f \in Texts : main[f] = Absent
      /\ Absent \notin PRs
  BY MainsAssumption DEF Init
<1>2. \A p \in PRs : fork[p] = main /\ head[p] = main /\ base[p] = main /\ state[p] = "none" /\ verdict[p] = "none"
  BY DEF Init
<1>3. TypeOK
  <2>1. IsTree(main) /\ AreTrees(fork) /\ AreTrees(head) /\ AreTrees(base)
    BY <1>1, <1>2 DEF Init, AreTrees
  <2>2. {raced, unindexed, miscounted} \subseteq BOOLEAN
    BY DEF Init, ShowsRecords, CountsRecords
  <2> QED
    BY <1>2, <2>1, <2>2 DEF Init, TypeOK
<1>4. CodeOwned /\ Unmerged /\ PassedChecks /\ GateHolds
  BY <1>1, <1>2 DEF CodeOwned, Unmerged, PassedChecks, GateHolds
<1>5. MainVerifies /\ IndexCurrent /\ TotalCurrent
  BY <1>1 DEF Init, MainVerifies, IndexCurrent, TotalCurrent
<1> QED
  BY <1>3, <1>4, <1>5 DEF IInv

LEMMA MergedTyped ==
    ASSUME TypeOK, NEW p \in PRs, NEW t, IsTree(t)
    PROVE  IsTree(Merged(p, t))
  BY DEF TypeOK, AreTrees, Merged, IsTree

(* What a step of one pull request may do to its branch while it is open.  *)
LEMMA NewHead ==
    ASSUME IInv, NEW p \in PRs, Open(p) \/ Commit(p) \/ Reindex(p) \/ Reopen(p) \/ UpdateBranch(p)
    PROVE  /\ UNCHANGED <<main, brought, raced, unindexed, miscounted>>
           /\ state[p] # "merged" /\ state' = [state EXCEPT ![p] = "open"]
           /\ Trigger(p)
           /\ DOMAIN head' = PRs /\ DOMAIN fork' = PRs
           /\ \A q \in PRs \ {p} : head'[q] = head[q] /\ fork'[q] = fork[q]
           /\ IsTree(head'[p]) /\ IsTree(fork'[p])
           /\ fork'[p] \in {main, fork[p]}
           /\ \A f \in Texts : head'[p][f] # fork'[p][f] => head'[p][f] = p
<1> USE DEF IInv
<1>1. IsTree(main) /\ IsTree(fork[p]) /\ IsTree(head[p]) /\ DOMAIN head = PRs /\ DOMAIN fork = PRs
  BY DEF TypeOK, AreTrees
<1>2. state[p] = "open" => state = [state EXCEPT ![p] = "open"]
  BY DEF TypeOK
<1>3. ASSUME NEW t, IsTree(t), NEW from, NEW f \in AdrPaths \cup Texts, NEW tree \in Commits(p, t, from, f),
             \A g \in Texts : t[g] # from[g] => t[g] = p
      PROVE  IsTree(tree) /\ \A g \in Texts : tree[g] # from[g] => tree[g] = p
  <2>1. PICK new \in Contents(f) \ {t[f]} : (f \in Texts => new \in {p, from[f]}) /\ tree = [t EXCEPT ![f] = new]
    BY <1>3 DEF Commits
  <2>2. DOMAIN t = Files /\ f \in Files
    BY <1>3, Disjoint DEF IsTree
  <2>3. DOMAIN tree = Files /\ \A g \in Files : tree[g] = IF g = f THEN new ELSE t[g]
    BY <2>1, <2>2
  <2>4. IsTree(tree)
    BY <1>3, <2>1, <2>3 DEF IsTree
  <2> QED
    BY <1>3, <2>1, <2>3, <2>4, Disjoint
<1>4. CASE Open(p)
  <2>0. PICK f \in AdrPaths \cup Texts : \E tree \in Commits(p, main, main, f) : head' = [head EXCEPT ![p] = tree]
    BY <1>4 DEF Open
  <2>1. PICK tree \in Commits(p, main, main, f) : head' = [head EXCEPT ![p] = tree]
    BY <2>0
  <2>2. IsTree(tree) /\ \A g \in Texts : tree[g] # main[g] => tree[g] = p
    BY <1>1, <1>3
  <2> QED
    BY <1>1, <1>4, <2>1, <2>2 DEF Open, history
<1>5. ASSUME NEW tree, Push(p, tree), IsTree(tree), \A g \in Texts : tree[g] # fork[p][g] => tree[g] = p
      PROVE  /\ UNCHANGED <<main, brought, raced, unindexed, miscounted>>
             /\ state[p] # "merged" /\ state' = [state EXCEPT ![p] = "open"]
             /\ Trigger(p)
             /\ DOMAIN head' = PRs /\ DOMAIN fork' = PRs
             /\ \A q \in PRs \ {p} : head'[q] = head[q] /\ fork'[q] = fork[q]
             /\ IsTree(head'[p]) /\ IsTree(fork'[p])
             /\ fork'[p] \in {main, fork[p]}
             /\ \A f \in Texts : head'[p][f] # fork'[p][f] => head'[p][f] = p
  BY <1>1, <1>2, <1>5 DEF Push, history
<1>6. CASE Commit(p)
  <2>0. PICK f \in AdrPaths \cup Texts : \E tree \in Commits(p, head[p], fork[p], f) : Push(p, tree)
    BY <1>6 DEF Commit
  <2>1. PICK tree \in Commits(p, head[p], fork[p], f) : Push(p, tree)
    BY <2>0
  <2>2. IsTree(tree) /\ \A g \in Texts : tree[g] # fork[p][g] => tree[g] = p
    BY <1>1, <1>3 DEF CodeOwned
  <2> QED
    BY <1>5, <2>1, <2>2
<1>7. CASE Reindex(p)
  <2>1. PICK day \in Days : Push(p, Reindexed(head[p], day))
    BY <1>7 DEF Reindex
  <2>2. IsTree(Reindexed(head[p], day)) /\ \A g \in Texts : Reindexed(head[p], day)[g] = head[p][g]
    BY <1>1, ReindexedTyped, ReindexedIs
  <2> QED
    BY <1>5, <2>1, <2>2 DEF CodeOwned
<1>8. CASE Reopen(p)
  BY <1>1, <1>5, <1>8 DEF Reopen, CodeOwned
<1>9. CASE UpdateBranch(p)
  <2>1. PICK tree \in {Reindexed(Merged(p, main), day) : day \in Days} \cup {Merged(p, main)} :
          head' = [head EXCEPT ![p] = tree]
    BY <1>9 DEF UpdateBranch
  <2>2. IsTree(Merged(p, main)) /\ \A g \in Texts : Merged(p, main)[g] # main[g] => Merged(p, main)[g] = p
    <3>1. IsTree(Merged(p, main))
      BY <1>1, MergedTyped
    <3>2. \A g \in Texts : Merged(p, main)[g] = IF head[p][g] # fork[p][g] THEN head[p][g] ELSE main[g]
      BY Disjoint DEF Merged, Changed
    <3> QED
      BY <3>1, <3>2 DEF CodeOwned
  <2>3. IsTree(tree) /\ \A g \in Texts : tree[g] # main[g] => tree[g] = p
    BY <2>1, <2>2, ReindexedTyped, ReindexedIs
  <2> QED
    BY <1>1, <1>2, <1>9, <2>1, <2>3 DEF UpdateBranch, history
<1> QED
  BY <1>4, <1>6, <1>7, <1>8, <1>9

(* What a check found stands while the branch and its merge ref do.        *)
LEMMA PassedStays ==
    ASSUME PassedChecks, NEW q \in PRs, state[q] = "open", verdict[q] = "passed",
           fork'[q] = fork[q], head'[q] = head[q], base'[q] = base[q]
    PROVE  (VerifyAdrs(MergeRef(q)) /\ EvaluateSignificance(DiffFiles(q), FALSE))'
<1>1. Changed(q)' = Changed(q)
  BY DEF Changed
<1>2. MergeRef(q)' = MergeRef(q)
  BY <1>1 DEF MergeRef, Merged
<1>3. DiffFiles(q)' = DiffFiles(q)
  BY <1>2 DEF DiffFiles
<1>4. VerifyAdrs(MergeRef(q)) /\ EvaluateSignificance(DiffFiles(q), FALSE)
  BY DEF PassedChecks
<1>5. VerifyAdrs(MergeRef(q)')
  BY <1>2, <1>4
<1>6. EvaluateSignificance(DiffFiles(q)', FALSE)
  BY <1>3, <1>4
<1> QED
  BY <1>5, <1>6

(* A new head: the check has not seen it yet. *)
LEMMA TriggerKeeps ==
    ASSUME IInv, NEW p \in PRs, Open(p) \/ Commit(p) \/ Reindex(p) \/ Reopen(p) \/ UpdateBranch(p)
    PROVE  IInv'
<1> USE DEF IInv
<1>1. /\ UNCHANGED <<main, brought, raced, unindexed, miscounted>>
      /\ state[p] # "merged" /\ state' = [state EXCEPT ![p] = "open"]
      /\ DOMAIN head' = PRs /\ DOMAIN fork' = PRs /\ DOMAIN base' = PRs
      /\ \A q \in PRs \ {p} : /\ head'[q] = head[q] /\ fork'[q] = fork[q] /\ base'[q] = base[q]
                               /\ verdict'[q] = verdict[q] /\ state'[q] = state[q]
      /\ base'[p] = main /\ state'[p] = "open" /\ verdict'[p] \in {"none", "pending"}
      /\ verdict' \in [PRs -> {"none", "pending", "passed", "failed"}]
      /\ IsTree(head'[p]) /\ IsTree(fork'[p]) /\ fork'[p] \in {main, fork[p]}
      /\ \A f \in Texts : head'[p][f] # fork'[p][f] => head'[p][f] = p
  <2>1. verdict' = [verdict EXCEPT ![p] = "pending"] \/ verdict' = [verdict EXCEPT ![p] = "none"]
    BY NewHead DEF Trigger
  <2>2. base' = [base EXCEPT ![p] = main]
    BY NewHead DEF Trigger
  <2> QED
    BY <2>1, <2>2, NewHead DEF TypeOK, AreTrees
<1>2. TypeOK'
  <2>1. AreTrees(fork') /\ AreTrees(head') /\ AreTrees(base') /\ IsTree(main')
    BY <1>1 DEF TypeOK, AreTrees
  <2> QED
    BY <1>1, <2>1 DEF TypeOK, IsTree, AreTrees
<1>3. CodeOwned' /\ Unmerged'
  BY <1>1 DEF CodeOwned, Unmerged
<1>4. PassedChecks'
  <2> SUFFICES ASSUME NEW q \in PRs, state'[q] = "open", verdict'[q] = "passed"
               PROVE  (VerifyAdrs(MergeRef(q)) /\ EvaluateSignificance(DiffFiles(q), FALSE))'
    BY DEF PassedChecks
  <2>1. q # p /\ state[q] = "open" /\ verdict[q] = "passed" /\ fork'[q] = fork[q] /\ head'[q] = head[q] /\ base'[q] = base[q]
    BY <1>1
  <2> QED
    BY <2>1, PassedStays
<1>5. GateHolds' /\ MainVerifies' /\ IndexCurrent' /\ TotalCurrent'
  BY <1>1 DEF GateHolds, MainVerifies, IndexCurrent, TotalCurrent
<1> QED
  BY <1>2, <1>3, <1>4, <1>5

LEMMA CheckKeeps ==
    ASSUME IInv, NEW p \in PRs, Check(p)
    PROVE  IInv'
<1> USE DEF IInv
<1>1. /\ UNCHANGED <<main, state, fork, head, base, brought, raced, unindexed, miscounted>>
      /\ state[p] = "open"
      /\ verdict' \in [PRs -> {"none", "pending", "passed", "failed"}]
      /\ \A q \in PRs \ {p} : verdict'[q] = verdict[q]
      /\ verdict'[p] \in {"passed", "failed"}
      /\ verdict'[p] = "passed" => VerifyAdrs(MergeRef(p)) /\ EvaluateSignificance(DiffFiles(p), FALSE)
  BY DEF Check, TypeOK, history, EvaluateSignificance
<1>2. TypeOK'
  BY <1>1 DEF TypeOK, IsTree, AreTrees
<1>3. CodeOwned' /\ Unmerged'
  BY <1>1 DEF CodeOwned, Unmerged
<1>4. PassedChecks'
  <2>1. \A q \in PRs : Changed(q)' = Changed(q)
    BY <1>1 DEF Changed
  <2>2. \A q \in PRs : MergeRef(q)' = MergeRef(q)
    BY <1>1, <2>1 DEF MergeRef, Merged
  <2>3. \A q \in PRs : DiffFiles(q)' = DiffFiles(q)
    BY <1>1, <2>2 DEF DiffFiles
  <2> QED
    BY <1>1, <2>2, <2>3 DEF PassedChecks
<1>5. GateHolds' /\ MainVerifies' /\ IndexCurrent' /\ TotalCurrent'
  BY <1>1 DEF GateHolds, MainVerifies, IndexCurrent, TotalCurrent
<1> QED
  BY <1>2, <1>3, <1>4, <1>5

(* The files a branch changes, as its check found them: those it changes   *)
(* of the code, and no others than its own.                                *)
LEMMA DiffIsChanged ==
    ASSUME IInv, NEW p \in PRs, state[p] = "open"
    PROVE  DiffFiles(p) \subseteq Changed(p) /\ DiffFiles(p) \cap CodeFiles = Changed(p) \cap CodeFiles
<1> USE DEF IInv
<1>1. \A f \in Files : MergeRef(p)[f] = IF head[p][f] # fork[p][f] THEN head[p][f] ELSE base[p][f]
  BY DEF MergeRef, Merged, Changed
<1>2. \A f \in CodeFiles : head[p][f] # fork[p][f] => head[p][f] = p /\ base[p][f] # p
  BY DEF CodeOwned, Unmerged, Texts
<1> QED
  BY <1>1, <1>2 DEF DiffFiles, Changed

(* The branch that is merged touches docs/adr itself if it needs to, has   *)
(* the records that were verified if main is what they were verified on,   *)
(* and brings the entry of a record together with the record.              *)
LEMMA MergeKeeps ==
    ASSUME IInv, NEW p \in PRs, Merge(p)
    PROVE  IInv'
<1> USE DEF IInv
<1>1. /\ verdict' = verdict
      /\ state[p] = "open" /\ verdict[p] = "passed" /\ state' = [state EXCEPT ![p] = "merged"]
      /\ state'[p] = "merged" /\ \A q \in PRs \ {p} : state'[q] = state[q]
      /\ main' = Merged(p, main)
      /\ \A f \in Files : main'[f] = IF head[p][f] # fork[p][f] THEN head[p][f] ELSE main[f]
      /\ \A f \in Files : head[p][f] # fork[p][f] => main[f] \in {fork[p][f], head[p][f]}
      /\ raced' = (raced \/ main # base[p])
  BY DEF Merge, MergeIf, TypeOK, Merged, Conflicting, Changed
<1>2. /\ DOMAIN fork' = PRs /\ DOMAIN head' = PRs /\ DOMAIN base' = PRs
      /\ fork'[p] = main' /\ head'[p] = main' /\ base'[p] = main'
      /\ brought' = [brought EXCEPT ![p] = Changed(p)]
      /\ \A q \in PRs \ {p} : fork'[q] = fork[q] /\ head'[q] = head[q] /\ base'[q] = base[q]
  BY DEF Merge, MergeIf, TypeOK, AreTrees
<1>3. IsTree(main')
  BY <1>1, MergedTyped DEF TypeOK
<1>4. unindexed' = (~ShowsRecords(main') /\
         (unindexed \/ ~AsReindexed(head[p], Blocks \cup Rows) \/ ~AsReindexed(fork[p], Blocks \cup Rows)))
  BY DEF Merge, MergeIf
<1>5. miscounted' = (~CountsRecords(main') /\
         (miscounted \/ ~AsReindexed(head[p], {Total}) \/ ~AsReindexed(fork[p], {Total})
            \/ MadeTwice(p) \cap (AdrPaths \cup {Total}) # {}))
  BY DEF Merge, MergeIf
<1>6. TypeOK'
  <2>1. AreTrees(fork') /\ AreTrees(head') /\ AreTrees(base')
    BY <1>2, <1>3 DEF TypeOK, AreTrees
  <2>2. raced' \in BOOLEAN /\ unindexed' \in BOOLEAN /\ miscounted' \in BOOLEAN
    BY <1>1, <1>4, <1>5
  <2>3. brought' \in [PRs -> SUBSET Files]
    BY <1>2 DEF TypeOK, Changed
  <2>4. \A q \in PRs : /\ state'[q] = "none" => verdict'[q] = "none"
                       /\ state'[q] = "merged" => verdict'[q] = "passed"
    BY <1>1 DEF TypeOK
  <2>5. state' \in [PRs -> {"none", "open", "merged"}] /\ verdict' \in [PRs -> {"none", "pending", "passed", "failed"}]
    BY <1>1 DEF TypeOK
  <2> QED
    BY <1>3, <2>1, <2>2, <2>3, <2>4, <2>5 DEF TypeOK
<1>7. CodeOwned'
  BY <1>2 DEF CodeOwned
<1>8. Unmerged'
  <2> SUFFICES ASSUME NEW q \in PRs, NEW f \in Texts, state'[q] # "merged"
               PROVE  main'[f] # q /\ fork'[q][f] # q /\ base'[q][f] # q
    BY DEF Unmerged
  <2>1. q # p /\ state[q] # "merged" /\ fork'[q] = fork[q] /\ base'[q] = base[q]
    BY <1>1, <1>2
  <2>2. f \in Files /\ main[f] # q /\ fork[q][f] # q /\ base[q][f] # q
    BY <2>1, Disjoint DEF Unmerged
  <2> QED
    BY <1>1, <2>1, <2>2 DEF CodeOwned
<1>9. PassedChecks'
  <2> SUFFICES ASSUME NEW q \in PRs, state'[q] = "open", verdict'[q] = "passed"
               PROVE  (VerifyAdrs(MergeRef(q)) /\ EvaluateSignificance(DiffFiles(q), FALSE))'
    BY DEF PassedChecks
  <2>1. q # p /\ state[q] = "open" /\ verdict[q] = "passed" /\ fork'[q] = fork[q] /\ head'[q] = head[q] /\ base'[q] = base[q]
    BY <1>1, <1>2
  <2> QED
    BY <2>1, PassedStays
<1>10. GateHolds'
  <2>1. ASSUME Score(Changed(p)) >= Minimum PROVE Changed(p) \cap (AdrPaths \cup Templates) # {}
    <3>1. EvaluateSignificance(DiffFiles(p), FALSE)
      BY <1>1 DEF PassedChecks
    <3>2. Score(DiffFiles(p)) = Score(Changed(p))
      BY <1>1, DiffIsChanged DEF Score
    <3> QED
      BY <1>1, <2>1, <3>1, <3>2, DiffIsChanged DEF EvaluateSignificance
  <2>2. brought'[p] = Changed(p) /\ \A q \in PRs \ {p} : brought'[q] = brought[q]
    BY <1>2 DEF TypeOK
  <2>3. ASSUME NEW q \in PRs, state'[q] = "merged", Score(brought'[q]) >= Minimum
        PROVE  brought'[q] \cap (AdrPaths \cup Templates) # {}
    <3>1. CASE q = p
      BY <2>1, <2>2, <2>3, <3>1
    <3>2. CASE q # p
      BY <1>1, <2>2, <2>3, <3>2 DEF GateHolds
    <3> QED
      BY <3>1, <3>2
  <2> DEFINE b == brought'
  <2>4. \A q \in PRs : state'[q] = "merged" /\ Score(b[q]) >= Minimum => b[q] \cap (AdrPaths \cup Templates) # {}
    BY <2>3
  <2> QED
    BY <2>4 DEF GateHolds
<1>11. MainVerifies'
  <2>1. CASE raced'
    BY <2>1 DEF MainVerifies
  <2>2. CASE ~raced'
    <3>1. VerifyAdrs(MergeRef(p)) /\ main' = MergeRef(p)
      BY <1>1, <2>2 DEF PassedChecks, MergeRef
    <3> QED
      BY <3>1, VerifyReadsRecords DEF MainVerifies
  <2> QED
    BY <2>1, <2>2
<1>12. IndexCurrent'
  <2> SUFFICES ASSUME ~unindexed' PROVE ShowsRecords(main')
    BY DEF IndexCurrent, ShowsRecords
  <2>1. CASE unindexed \/ ~AsReindexed(head[p], Blocks \cup Rows) \/ ~AsReindexed(fork[p], Blocks \cup Rows)
    BY <1>4, <2>1
  <2>2. CASE ~(unindexed \/ ~AsReindexed(head[p], Blocks \cup Rows) \/ ~AsReindexed(fork[p], Blocks \cup Rows))
    <3>1. ShowsRecords(head[p]) /\ ShowsRecords(fork[p]) /\ ShowsRecords(main)
      BY <2>2, AsReindexedShows DEF IndexCurrent
    <3>2. ASSUME NEW f \in AdrPaths
          PROVE  main'[Block[f]] = InBlock(main'[f]) /\ main'[Row[f]] = InRow(main'[f])
      <4>1. f \in Files /\ Block[f] \in Files /\ Row[f] \in Files
        BY Disjoint
      <4>2. /\ head[p][Block[f]] = InBlock(head[p][f]) /\ head[p][Row[f]] = InRow(head[p][f])
            /\ fork[p][Block[f]] = InBlock(fork[p][f]) /\ fork[p][Row[f]] = InRow(fork[p][f])
            /\ main[Block[f]] = InBlock(main[f]) /\ main[Row[f]] = InRow(main[f])
        BY <3>1 DEF ShowsRecords
      <4>3. CASE head[p][f] = fork[p][f]
        BY <1>1, <4>1, <4>2, <4>3
      <4>4. CASE head[p][f] # fork[p][f]
        <5>1. main'[f] = head[p][f] /\ main[f] \in {fork[p][f], head[p][f]}
          BY <1>1, <4>1, <4>4
        <5>2. main'[Block[f]] = InBlock(head[p][f])
          BY <1>1, <4>1, <4>2, <5>1
        <5>3. main'[Row[f]] = InRow(head[p][f])
          BY <1>1, <4>1, <4>2, <5>1
        <5> QED
          BY <5>1, <5>2, <5>3
      <4> QED
        BY <4>3, <4>4
    <3> QED
      BY <3>2 DEF ShowsRecords
  <2> QED
    BY <2>1, <2>2
<1>13. TotalCurrent'
  <2> SUFFICES ASSUME ~miscounted' PROVE CountsRecords(main')
    BY DEF TotalCurrent, CountsRecords, Records
  <2> DEFINE wrong == \/ miscounted \/ ~AsReindexed(head[p], {Total}) \/ ~AsReindexed(fork[p], {Total})
                      \/ MadeTwice(p) \cap (AdrPaths \cup {Total}) # {}
  <2>1. CASE wrong
    BY <1>5, <2>1
  <2>2. CASE ~wrong
    <3>1. CountsRecords(head[p]) /\ CountsRecords(fork[p]) /\ CountsRecords(main)
      BY <2>2, AsReindexedShows DEF TotalCurrent
    <3>2. \A f \in AdrPaths \cup {Total} : head[p][f] # fork[p][f] => main[f] = fork[p][f]
      BY <2>2, Disjoint DEF MadeTwice, Changed
    <3>3. \A i \in DOMAIN AdrFiles : AdrFiles[i] \in AdrPaths /\ AdrFiles[i] \in Files
      BY Disjoint DEF AdrPaths
    <3>4. \A i : \/ (i \in Records(head[p]) <=> i \in Records(fork[p])) /\ (i \in Records(main') <=> i \in Records(main))
                 \/ (i \in Records(main) <=> i \in Records(fork[p])) /\ (i \in Records(main') <=> i \in Records(head[p]))
      BY <1>1, <3>2, <3>3 DEF Records
    <3>5. Cardinality(Records(main')) - Cardinality(Records(main)) = Cardinality(Records(head[p])) - Cardinality(Records(fork[p]))
      BY <3>4, RecordsFinite, CountMoves
    <3>6. /\ Cardinality(Records(main')) \in Nat /\ Cardinality(Records(main)) \in Nat
          /\ Cardinality(Records(head[p])) \in Nat /\ Cardinality(Records(fork[p])) \in Nat
      BY RecordsFinite, FS_CardinalityType
    <3>7. main'[Total] = IF head[p][Total] # fork[p][Total] THEN head[p][Total] ELSE main[Total]
      BY <1>1, Disjoint
    <3>8. CASE head[p][Total] = fork[p][Total]
      BY <3>1, <3>5, <3>6, <3>7, <3>8 DEF CountsRecords
    <3>9. CASE head[p][Total] # fork[p][Total]
      BY <3>1, <3>2, <3>5, <3>6, <3>7, <3>9 DEF CountsRecords
    <3> QED
      BY <3>8, <3>9
  <2> QED
    BY <2>1, <2>2
<1> QED
  BY <1>6, <1>7, <1>8, <1>9, <1>10, <1>11, <1>12, <1>13

LEMMA Invariance == Spec => []IInv
<1>1. ASSUME IInv, [Next]_vars PROVE IInv'
  <2>1. ASSUME NEW p \in PRs, \/ Open(p) \/ Commit(p) \/ Reindex(p) \/ Reopen(p) \/ UpdateBranch(p)
                              \/ Check(p) \/ Merge(p)
        PROVE  IInv'
    BY <1>1, <2>1, TriggerKeeps, CheckKeeps, MergeKeeps
  <2>2. CASE UNCHANGED vars
    <3>1. TypeOK'
      BY <1>1, <2>2 DEF IInv, TypeOK, AreTrees, IsTree, vars
    <3>2. CodeOwned' /\ Unmerged' /\ GateHolds'
      BY <1>1, <2>2 DEF IInv, vars, CodeOwned, Unmerged, GateHolds
    <3>3. PassedChecks'
      BY <1>1, <2>2 DEF IInv, vars, PassedChecks, DiffFiles, MergeRef, Merged, Changed
    <3>4. MainVerifies' /\ IndexCurrent' /\ TotalCurrent'
      BY <1>1, <2>2 DEF IInv, vars, MainVerifies, IndexCurrent, TotalCurrent
    <3> QED
      BY <3>1, <3>2, <3>3, <3>4 DEF IInv
  <2> QED
    BY <1>1, <2>1, <2>2 DEF Next
<1> QED
  BY <1>1, InitInvariant, PTL DEF Spec

-----------------------------------------------------------------------------
(* Trees, states and verdicts are well typed, and only a pull request that *)
(* has passed its check is merged.                                         *)
THEOREM TypeCorrect == Spec => []TypeOK
  BY Invariance, PTL DEF IInv

(* Whatever others merge and its author pushes in the meantime, a merged   *)
(* pull request whose own changes of code need an ADR touches docs/adr.    *)
THEOREM Gated == Spec => []GateHolds
  BY Invariance, PTL DEF IInv

(* Without a merge that races the check the records of main verify.        *)
THEOREM Verified == Spec => []MainVerifies
  BY Invariance, PTL DEF IInv

(* Blocks and rows of the index of main become wrong only by the merge of  *)
(* a branch whose index, or that of the main it was made from, is wrong.   *)
THEOREM Indexed == Spec => []IndexCurrent
  BY Invariance, PTL DEF IInv

(* The total of the index becomes wrong only likewise, or by the merge of  *)
(* a change of a record or of the total that main already has.             *)
THEOREM Counted == Spec => []TotalCurrent
  BY Invariance, PTL DEF IInv
=============================================================================
