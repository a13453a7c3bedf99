-------------------------- MODULE MainBranchProofs --------------------------
(***************************************************************************)
(* Proofs about MainBranch for any number of merges, jobs, attempts and    *)
(* network faults.                                                         *)
(*                                                                         *)
(* The versions stay consecutive because a push is accepted only from the  *)
(* tree it was rebased to (PulledFromTip), and a bump that survives its    *)
(* rebases still adds one to that tree's version (BumpsByOne).  Attempts   *)
(* are accounted for because a refusal means the branch moved after the    *)
(* job's own fetch (FetchPaid), and a conflict that it moved after the     *)
(* job's checkout (MovedOn).                                               *)
(***************************************************************************)
EXTENDS MainBranch, TLAPS

(* Jobs of merges to come have not started. *)
NotYetMerged == \A j \in Jobs : File(j) # "deps" /\ j[2] > merges => pc[j] = "idle"

(* A job has used no attempt before its loop. *)
FreshTries == \A j \in Jobs : pc[j] \in {"idle", "queued"} => tries[j] = 0 /\ stuck[j] = 0

(* In its loop it has an attempt left. *)
AttemptLeft == \A j \in Jobs :
    pc[j] \in {"trying", "pulled", "stuck"} => tries[j] < Attempts(j)

(* Nothing has stopped it before its first conflict, and a conflict did    *)
(* after that.                                                             *)
StuckOnce == \A j \in Jobs :
    /\ pc[j] \in {"trying", "pulled"} => stuck[j] = 0
    /\ pc[j] = "stuck" => stuck[j] > 0

(* As long as nothing was pushed since its checkout, it works on the tip.  *)
MovedOn == \A j \in Jobs : since[j] = commits => base[j] = tip

(* It has seen no more commits than there are. *)
PastCommits == \A j \in Jobs : at[j] <= commits /\ since[j] <= commits

BumpsByOne == \A j \in Jobs :
    File(j) = "version" /\ pc[j] \in {"trying", "pulled"} =>
        change[j] \in {base[j]["version"], base[j]["version"] + 1}

PulledFromTip == \A j \in Jobs : pc[j] = "pulled" /\ at[j] = commits => base[j] = tip

FetchPaid == \A j \in Jobs : pc[j] = "pulled" => tries[j] <= faults[j] + (at[j] - since[j])

IInv == /\ TypeOK
        /\ NotYetMerged
        /\ FreshTries
        /\ AttemptLeft
        /\ StuckOnce
        /\ MovedOn
        /\ PastCommits
        /\ BumpsByOne
        /\ PulledFromTip
        /\ FetchPaid
        /\ AttemptsAccountedFor

-----------------------------------------------------------------------------
(* What a job is: its file is one of the tree's, and it has an attempt. *)
LEMMA JobFacts ==
    ASSUME NEW j \in Jobs
    PROVE  /\ File(j) \in {"version", "report", "deps"}
           /\ File(j) \in Files
           /\ Attempts(j) \in 1..LoopAttempts
<1>1. j[1] \in OnPush \cup {"deps"}
  BY DEF Jobs
<1>2. File(j) \in {"version", "report", "deps"}
  BY <1>1, OnPushAssumption DEF File
<1> QED
  BY <1>2, AttemptsAssumption DEF Files, Attempts

(* The invariant holds before anything has been merged. *)
LEMMA InitInvariant == Init => IInv
<1> SUFFICES ASSUME Init PROVE IInv
  OBVIOUS
<1>1. tip \in Trees
  BY DEF Init, Trees
<1>2. TypeOK
  BY <1>1, BoundsAssumption, AttemptsAssumption, JobFacts DEF Init, TypeOK
<1>3. NotYetMerged /\ FreshTries /\ AttemptLeft /\ PastCommits /\ StuckOnce /\ MovedOn
  BY JobFacts DEF Init, NotYetMerged, FreshTries, AttemptLeft, PastCommits, StuckOnce, MovedOn
<1>4. BumpsByOne /\ PulledFromTip /\ FetchPaid /\ AttemptsAccountedFor
  BY DEF Init, BumpsByOne, PulledFromTip, FetchPaid, AttemptsAccountedFor
<1> QED
  BY <1>2, <1>3, <1>4 DEF IInv

-----------------------------------------------------------------------------
(* The steps *)

(* A merge moves the branch and starts its jobs. *)
LEMMA MergeStep ==
    ASSUME IInv, NEW c \in 0..MaxCode, NEW skip \in BOOLEAN, Merge(c, skip)
    PROVE  IInv'
<1> USE DEF IInv
<1> DEFINE started == IF skip THEN {} ELSE OnPush \X {merges + 1}
<1>1. /\ merges < MaxMerges
      /\ merges' = merges + 1
      /\ tip' = [tip EXCEPT !["code"] = c]
      /\ commits' = commits + 1
      /\ pc' = [j \in Jobs |-> IF j \in started THEN "queued" ELSE pc[j]]
      /\ base' = [j \in Jobs |-> IF j \in started THEN tip' ELSE base[j]]
      /\ since' = [j \in Jobs |-> IF j \in started THEN commits' ELSE since[j]]
      /\ UNCHANGED <<change, at, tries, faults, stuck>>
  BY DEF Merge
<1>2. merges \in Nat /\ commits \in Nat /\ c \in Nat
  BY BoundsAssumption DEF TypeOK
<1>3. \A j \in Jobs : j \in started => pc[j] = "idle"
  BY <1>2, OnPushAssumption DEF NotYetMerged, File
<1>4. tip' \in Trees
  BY <1>1, <1>2 DEF TypeOK, Trees
<1>5. TypeOK'
  <2>1. merges' \in 0..MaxMerges /\ commits' \in Nat
    BY <1>1, <1>2, BoundsAssumption DEF TypeOK
  <2>2. pc' \in [Jobs -> {"idle"} \cup Working \cup Outcomes]
    BY <1>1 DEF TypeOK, Working
  <2>3. base' \in [Jobs -> Trees] /\ since' \in [Jobs -> Nat]
    BY <1>1, <1>4, <2>1 DEF TypeOK
  <2> QED
    BY <1>1, <1>4, <2>1, <2>2, <2>3 DEF TypeOK, Attempts, File
<1>6. NotYetMerged'
  <2> SUFFICES ASSUME NEW j \in Jobs, File(j) # "deps", j[2] > merges'
               PROVE  pc'[j] = "idle"
    BY DEF NotYetMerged, File
  <2>1. j[2] \in Nat
    BY DEF Jobs, File
  <2>2. j \notin started /\ j[2] > merges
    BY <1>1, <1>2, <2>1
  <2> QED
    BY <1>1, <2>2 DEF NotYetMerged
<1>7. FreshTries' /\ AttemptLeft' /\ StuckOnce'
  BY <1>1, <1>3 DEF FreshTries, AttemptLeft, StuckOnce, Attempts, File
<1>8. PastCommits'
  BY <1>1, <1>2 DEF PastCommits, TypeOK
<1>9. BumpsByOne'
  BY <1>1 DEF BumpsByOne, File
<1>10. PulledFromTip'
  BY <1>1, <1>2 DEF PulledFromTip, PastCommits, TypeOK
<1>11. FetchPaid'
  BY <1>1 DEF FetchPaid
<1>12. AttemptsAccountedFor'
  <2> SUFFICES ASSUME NEW j \in Jobs
               PROVE  /\ tries'[j] - stuck'[j] <= faults'[j] + (commits' - since'[j])
                      /\ stuck'[j] > 0 => since'[j] < commits'
    BY DEF AttemptsAccountedFor
  <2>1. tries[j] \in Nat /\ faults[j] \in Nat /\ since[j] \in Nat /\ stuck[j] \in Nat
    BY DEF TypeOK
  <2>2. CASE j \in started
    BY <1>1, <1>2, <1>3, <2>1, <2>2 DEF FreshTries
  <2>3. CASE j \notin started
    BY <1>1, <1>2, <2>1, <2>3 DEF AttemptsAccountedFor
  <2> QED
    BY <2>2, <2>3
<1>13. MovedOn'
  BY <1>1, <1>2 DEF MovedOn, PastCommits, TypeOK
<1> QED
  BY <1>5, <1>6, <1>7, <1>8, <1>9, <1>10, <1>11, <1>12, <1>13

(* The nightly run starts from the head of main. *)
LEMMA StartStep ==
    ASSUME IInv, NEW k \in Jobs, StartNightly(k)
    PROVE  IInv'
<1> USE DEF IInv
<1>1. TypeOK'
  BY DEF StartNightly, TypeOK, Goto, Working, remote, Attempts, File
<1>2. NotYetMerged' /\ FreshTries' /\ AttemptLeft' /\ StuckOnce'
  BY DEF StartNightly, TypeOK, Goto, NotYetMerged, FreshTries, AttemptLeft, StuckOnce, remote,
         File, Attempts
<1>3. PastCommits' /\ MovedOn'
  BY DEF StartNightly, TypeOK, PastCommits, MovedOn, remote
<1>4. BumpsByOne' /\ PulledFromTip' /\ FetchPaid'
  BY DEF StartNightly, TypeOK, Goto, BumpsByOne, PulledFromTip, FetchPaid, remote, File
<1>5. AttemptsAccountedFor'
  <2> SUFFICES ASSUME NEW j \in Jobs
               PROVE  (/\ tries[j] - stuck[j] <= faults[j] + (commits - since[j])
                       /\ stuck[j] > 0 => since[j] < commits)'
    BY DEF AttemptsAccountedFor
  <2>1. CASE j = k
    BY <2>1 DEF StartNightly, TypeOK, FreshTries, remote
  <2>2. CASE j # k
    BY <2>2 DEF StartNightly, TypeOK, AttemptsAccountedFor, remote
  <2> QED
    BY <2>1, <2>2
<1> QED
  BY <1>1, <1>2, <1>3, <1>4, <1>5

(* What a job commits: the next version, if the job is a bump. *)
LEMMA ProductFacts ==
    ASSUME TypeOK, NEW k \in Jobs, NEW p \in Product(k)
    PROVE  /\ p \in Nat
           /\ File(k) = "version" => p = base[k]["version"] + 1
<1>1. base[k] \in [Files -> Nat]
  BY DEF TypeOK, Trees
<1>2. base[k]["version"] \in Nat /\ base[k]["code"] \in Nat /\ base[k]["deps"] \in Nat
  BY <1>1 DEF Files
<1>3. CASE File(k) = "version"
  BY <1>2, <1>3 DEF Product
<1>4. CASE File(k) = "report"
  BY <1>2, <1>4 DEF Product
<1>5. CASE File(k) = "deps"
  BY <1>2, <1>5 DEF Product
<1> QED
  BY <1>3, <1>4, <1>5, JobFacts

(* A job builds and commits. *)
LEMMA CommitStep ==
    ASSUME IInv, NEW k \in Jobs, Commit(k)
    PROVE  IInv'
<1> USE DEF IInv
<1>1. /\ pc[k] = "queued"
      /\ UNCHANGED <<tip, commits, merges, base, since, at, tries, faults, stuck>>
  BY DEF Commit
<1>2. PICK l \in {"failed", "done", "trying"} : pc' = [pc EXCEPT ![k] = l]
  BY DEF Commit, Goto
<1>3. change' \in [Jobs -> Nat] /\ (\A j \in Jobs : j # k => change'[j] = change[j])
  BY ProductFacts DEF Commit, TypeOK
<1>4. File(k) = "version" /\ pc'[k] = "trying" => change'[k] = base[k]["version"] + 1
  BY <1>1, ProductFacts DEF Commit, Goto, TypeOK
<1>5. TypeOK'
  BY <1>1, <1>2, <1>3 DEF TypeOK, Working, Outcomes, Attempts, File
<1>6. NotYetMerged' /\ FreshTries' /\ StuckOnce'
  BY <1>1, <1>2 DEF TypeOK, NotYetMerged, FreshTries, StuckOnce, File
<1>7. AttemptLeft'
  BY <1>1, <1>2, JobFacts DEF TypeOK, FreshTries, AttemptLeft, Attempts, File
<1>8. PastCommits' /\ AttemptsAccountedFor' /\ MovedOn'
  BY <1>1 DEF PastCommits, AttemptsAccountedFor, MovedOn
<1>9. BumpsByOne'
  BY <1>1, <1>2, <1>3, <1>4 DEF TypeOK, BumpsByOne, File
<1>10. PulledFromTip' /\ FetchPaid'
  BY <1>1, <1>2 DEF TypeOK, PulledFromTip, FetchPaid
<1> QED
  BY <1>5, <1>6, <1>7, <1>8, <1>9, <1>10

-----------------------------------------------------------------------------
(* A job that has met no conflict has paid for all its attempts. *)
LEMMA PaidSoFar ==
    ASSUME IInv, NEW k \in Jobs, pc[k] \in {"trying", "pulled"}
    PROVE  tries[k] <= faults[k] + (commits - since[k])
<1>1. stuck[k] = 0
  BY DEF IInv, StuckOnce
<1>2. tries[k] - stuck[k] <= faults[k] + (commits - since[k])
  BY DEF IInv, AttemptsAccountedFor
<1>3. tries[k] \in Nat
  BY DEF IInv, TypeOK
<1> QED
  BY <1>1, <1>2, <1>3

(* A rebase that went through leaves a bump that adds one to the tip's     *)
(* version, or nothing.                                                    *)
LEMMA RebasedStep ==
    ASSUME IInv, NEW k \in Jobs, NEW content \in Nat, Rebased(k, content),
           File(k) = "version" => content \in {tip["version"], tip["version"] + 1}
    PROVE  IInv'
<1> USE DEF IInv
<1>1. /\ pc[k] = "trying"
      /\ pc' = [pc EXCEPT ![k] = "pulled"]
      /\ base' = [base EXCEPT ![k] = tip]
      /\ change' = [change EXCEPT ![k] = content]
      /\ at' = [at EXCEPT ![k] = commits]
      /\ UNCHANGED <<tip, commits, merges, since, tries, faults, stuck>>
  BY DEF Rebased, Goto, Fetched, remote
<1>2. TypeOK'
  BY <1>1 DEF TypeOK, Working, Attempts, File
<1>3. NotYetMerged' /\ FreshTries' /\ AttemptLeft' /\ StuckOnce'
  BY <1>1 DEF TypeOK, NotYetMerged, FreshTries, AttemptLeft, StuckOnce, Attempts, File
<1>4. PastCommits' /\ AttemptsAccountedFor' /\ MovedOn'
  BY <1>1 DEF TypeOK, PastCommits, AttemptsAccountedFor, MovedOn
<1>5. BumpsByOne'
  BY <1>1 DEF TypeOK, BumpsByOne, File
<1>6. PulledFromTip'
  BY <1>1 DEF TypeOK, PulledFromTip
<1>7. FetchPaid'
  <2> SUFFICES ASSUME NEW j \in Jobs, pc'[j] = "pulled"
               PROVE  tries'[j] <= faults'[j] + (at'[j] - since'[j])
    BY DEF FetchPaid
  <2>1. CASE j = k
    BY <1>1, <2>1, PaidSoFar DEF TypeOK
  <2>2. CASE j # k
    BY <1>1, <2>2 DEF TypeOK, FetchPaid
  <2> QED
    BY <2>1, <2>2
<1> QED
  BY <1>2, <1>3, <1>4, <1>5, <1>6, <1>7

(* A failed attempt is paid for by the fault or the commit that failed it, *)
(* or is one that the conflict costs.                                      *)
LEMMA RetryStep ==
    ASSUME IInv, NEW k \in Jobs, NEW next \in {"trying", "stuck"}, Retry(k, next),
           pc[k] \in {"trying", "pulled", "stuck"},
           UNCHANGED <<remote, base, since, change>>,
           at' \in [Jobs -> Nat], \A j \in Jobs : at'[j] <= commits /\ (j # k => at'[j] = at[j]),
           faults' \in [Jobs -> 0..MaxFaults],
           \A j \in Jobs : faults'[j] >= faults[j],
           \/ /\ stuck' = stuck /\ next = "trying" /\ pc[k] # "stuck"
              /\ tries[k] + 1 <= faults'[k] + (commits - since[k])
           \/ /\ stuck' = [stuck EXCEPT ![k] = @ + 1] /\ next = "stuck"
              /\ since[k] < commits
    PROVE  IInv'
<1> USE DEF IInv
<1>1. PICK l \in {next, "failed", "lost"} :
        /\ pc' = [pc EXCEPT ![k] = l]
        /\ l = next => tries[k] + 1 < Attempts(k)
  BY DEF Retry, Goto, GiveUp
<1>2. /\ tries' = [tries EXCEPT ![k] = tries[k] + 1]
      /\ UNCHANGED <<tip, commits, merges, base, since, change>>
  BY DEF Retry, remote
<1>3. tries[k] + 1 \in 0..Attempts(k) /\ stuck[k] \in Nat /\ Attempts(k) \in Nat
  BY JobFacts DEF TypeOK, AttemptLeft
<1>4. /\ stuck' \in [Jobs -> Nat]
      /\ \A j \in Jobs : stuck'[j] \in {stuck[j], stuck[j] + 1} /\ (j # k => stuck'[j] = stuck[j])
  BY DEF TypeOK
<1>5. TypeOK'
  <2>1. tries' \in [Jobs -> Nat] /\ (\A j \in Jobs : stuck'[j] <= tries'[j] /\ tries'[j] <= Attempts(j))
    BY <1>2, <1>3, <1>4 DEF TypeOK
  <2> QED
    BY <1>1, <1>2, <1>4, <2>1 DEF TypeOK, Outcomes, Working, Attempts, File
<1>6. NotYetMerged' /\ FreshTries' /\ AttemptLeft'
  BY <1>1, <1>2, <1>3, <1>4 DEF TypeOK, NotYetMerged, FreshTries, AttemptLeft, Attempts, File
<1>7. StuckOnce'
  BY <1>1, <1>3 DEF TypeOK, StuckOnce
<1>8. PastCommits' /\ MovedOn'
  BY <1>2 DEF PastCommits, MovedOn
<1>9. BumpsByOne'
  BY <1>1, <1>2 DEF TypeOK, BumpsByOne, File
<1>10. FetchPaid' /\ PulledFromTip'
  <2> SUFFICES ASSUME NEW j \in Jobs, pc'[j] = "pulled"
               PROVE  /\ tries'[j] <= faults'[j] + (at'[j] - since'[j])
                      /\ at'[j] = commits' => base'[j] = tip'
    BY DEF FetchPaid, PulledFromTip
  <2>1. j # k /\ pc[j] = "pulled" /\ tries'[j] = tries[j] /\ at'[j] = at[j]
    BY <1>1, <1>2 DEF TypeOK
  <2>2. tries[j] <= faults[j] + (at[j] - since[j]) /\ (at[j] = commits => base[j] = tip)
    BY <2>1 DEF FetchPaid, PulledFromTip
  <2> QED
    BY <1>2, <2>1, <2>2 DEF TypeOK
<1>11. AttemptsAccountedFor'
  <2> SUFFICES ASSUME NEW j \in Jobs
               PROVE  /\ tries'[j] - stuck'[j] <= faults'[j] + (commits' - since'[j])
                      /\ stuck'[j] > 0 => since'[j] < commits'
    BY DEF AttemptsAccountedFor
  <2>1. /\ tries[j] \in Nat /\ stuck[j] \in Nat /\ since[j] \in Nat /\ commits \in Nat
        /\ faults[j] \in Nat /\ faults'[j] \in Nat /\ faults'[j] >= faults[j]
        /\ tries[j] - stuck[j] <= faults[j] + (commits - since[j])
        /\ stuck[j] > 0 => since[j] < commits
    BY DEF TypeOK, AttemptsAccountedFor
  <2>2. CASE j = k
    BY <1>2, <2>1, <2>2 DEF TypeOK
  <2>3. CASE j # k
    BY <1>2, <1>4, <2>1, <2>3 DEF TypeOK
  <2> QED
    BY <2>2, <2>3
<1> QED
  BY <1>5, <1>6, <1>7, <1>8, <1>9, <1>10, <1>11

(* In the clone left in the middle of a rebase each attempt fails. *)
LEMMA PullAgainStep ==
    ASSUME IInv, NEW k \in Jobs, PullAgain(k)
    PROVE  IInv'
<1>1. /\ pc[k] = "stuck" /\ Retry(k, "stuck")
      /\ stuck' = [stuck EXCEPT ![k] = @ + 1]
      /\ UNCHANGED <<remote, base, since, change, at, faults>>
  BY DEF PullAgain, Unfinished
<1>2. since[k] < commits
  BY <1>1 DEF IInv, StuckOnce, AttemptsAccountedFor
<1>3. at' \in [Jobs -> Nat] /\ (\A j \in Jobs : at'[j] <= commits /\ at'[j] = at[j])
  BY <1>1 DEF IInv, TypeOK, PastCommits
<1>4. faults' \in [Jobs -> 0..MaxFaults] /\ (\A j \in Jobs : faults'[j] >= faults[j])
  BY <1>1 DEF IInv, TypeOK
<1> QED
  BY <1>1, <1>2, <1>3, <1>4, RetryStep

(* A pull rebases the commit or stops on a conflict, which another commit  *)
(* has caused.                                                             *)
LEMMA PullStep ==
    ASSUME IInv, NEW k \in Jobs, Pull(k)
    PROVE  IInv'
<1> USE DEF IInv
<1>1. tip \in [Files -> Nat] /\ tip[File(k)] \in Nat /\ change[k] \in Nat
  BY JobFacts DEF TypeOK, Trees
<1>2. CASE Rebased(k, tip[File(k)])
  BY <1>1, <1>2, RebasedStep
<1>3. CASE Applies(k) /\ Rebased(k, change[k])
  <2>1. File(k) = "version" => change[k] \in {tip["version"], tip["version"] + 1}
    BY <1>3 DEF Applies, BumpsByOne, Rebased
  <2> QED
    BY <1>1, <1>3, <2>1, RebasedStep
<1>4. CASE ~Upstreamed(k) /\ ~Applies(k) /\ Conflict(k)
  <2>1. base[k] # tip
    BY <1>4 DEF Applies
  <2>2. since[k] < commits
    BY <2>1 DEF MovedOn, PastCommits, TypeOK
  <2>3. /\ pc[k] = "trying" /\ Retry(k, "stuck")
        /\ at' = [at EXCEPT ![k] = commits]
        /\ stuck' = [stuck EXCEPT ![k] = @ + 1]
        /\ UNCHANGED <<remote, base, since, change, faults>>
    BY <1>4 DEF Conflict, Fetched, Unfinished
  <2>4. at' \in [Jobs -> Nat] /\ (\A j \in Jobs : at'[j] <= commits /\ (j # k => at'[j] = at[j]))
    BY <2>3 DEF TypeOK, PastCommits
  <2>5. faults' \in [Jobs -> 0..MaxFaults] /\ (\A j \in Jobs : faults'[j] >= faults[j])
    BY <2>3 DEF TypeOK
  <2> QED
    BY <2>2, <2>3, <2>4, <2>5, RetryStep
<1> QED
  BY <1>2, <1>3, <1>4 DEF Pull

(* A push is accepted from a commit on top of the head of main, and a bump *)
(* then moves main to its own version or the next.                         *)
LEMMA AcceptedVersion ==
    ASSUME IInv, NEW k \in Jobs, Accepted(k)
    PROVE  tip'["version"] \in {tip["version"], tip["version"] + 1}
<1>1. /\ pc[k] = "pulled" /\ at[k] = commits
      /\ tip' = [tip EXCEPT ![File(k)] = change[k]]
  BY DEF Accepted
<1>2. base[k] = tip
  BY <1>1 DEF IInv, PulledFromTip
<1>3. tip \in [Files -> Nat] /\ "version" \in Files
  BY DEF IInv, TypeOK, Trees, Files
<1>4. CASE File(k) = "version"
  BY <1>1, <1>2, <1>3, <1>4 DEF IInv, BumpsByOne
<1>5. CASE File(k) # "version"
  BY <1>1, <1>3, <1>5
<1> QED
  BY <1>4, <1>5

(* An accepted push moves the branch, unless nothing was left to push. *)
LEMMA AcceptedStep ==
    ASSUME IInv, NEW k \in Jobs, Accepted(k)
    PROVE  IInv'
<1> USE DEF IInv
<1>1. /\ pc[k] = "pulled" /\ at[k] = commits
      /\ tip' = [tip EXCEPT ![File(k)] = change[k]]
      /\ commits' = IF tip' = tip THEN commits ELSE commits + 1
      /\ pc' = [pc EXCEPT ![k] = "done"]
      /\ UNCHANGED <<merges, base, since, change, at, tries, faults, stuck>>
  BY DEF Accepted, Goto
<1>2. commits \in Nat /\ commits' \in Nat /\ commits' >= commits
      /\ (tip' = tip \/ commits' = commits + 1)
  BY <1>1 DEF TypeOK
<1>3. tip' \in Trees
  BY <1>1, JobFacts DEF TypeOK, Trees
<1>4. TypeOK'
  BY <1>1, <1>2, <1>3 DEF TypeOK, Outcomes, Attempts, File
<1>5. NotYetMerged' /\ FreshTries' /\ AttemptLeft' /\ StuckOnce'
  BY <1>1 DEF TypeOK, NotYetMerged, FreshTries, AttemptLeft, StuckOnce, Attempts, File
<1>6. PastCommits' /\ AttemptsAccountedFor' /\ MovedOn'
  BY <1>1, <1>2 DEF TypeOK, PastCommits, AttemptsAccountedFor, MovedOn
<1>7. BumpsByOne' /\ FetchPaid'
  BY <1>1 DEF TypeOK, BumpsByOne, FetchPaid, File
<1>8. PulledFromTip'
  BY <1>1, <1>2 DEF TypeOK, PulledFromTip, PastCommits
<1> QED
  BY <1>4, <1>5, <1>6, <1>7, <1>8

(* A refused push: the branch has moved since the job fetched. *)
LEMMA RefusedStep ==
    ASSUME IInv, NEW k \in Jobs, Refused(k, "trying")
    PROVE  IInv'
<1> USE DEF IInv
<1>1. /\ pc[k] = "pulled" /\ at[k] # commits
      /\ Retry(k, "trying")
      /\ UNCHANGED <<remote, base, since, change, at>>
      /\ faults' = faults /\ stuck' = stuck
  BY DEF Refused
<1>2. at[k] + 1 <= commits
  BY <1>1 DEF TypeOK, PastCommits
<1>3. tries[k] + 1 <= faults[k] + (commits - since[k])
  BY <1>1, <1>2 DEF TypeOK, FetchPaid
<1>4. faults' \in [Jobs -> 0..MaxFaults] /\ (\A j \in Jobs : faults'[j] >= faults[j])
  BY <1>1 DEF TypeOK
<1> QED
  BY <1>1, <1>3, <1>4, RetryStep DEF TypeOK, PastCommits

(* The network fails an attempt. *)
LEMMA FaultStep ==
    ASSUME IInv, NEW k \in Jobs, Fault(k)
    PROVE  IInv'
<1> USE DEF IInv
<1>1. /\ pc[k] \in {"trying", "pulled"} /\ faults[k] < MaxFaults
      /\ faults' = [faults EXCEPT ![k] = faults[k] + 1]
      /\ Retry(k, "trying")
      /\ UNCHANGED <<remote, base, since, change, at, stuck>>
  BY DEF Fault
<1>2. faults' \in [Jobs -> 0..MaxFaults] /\ (\A j \in Jobs : faults'[j] >= faults[j])
  BY <1>1, BoundsAssumption DEF TypeOK
<1>3. tries[k] + 1 <= faults'[k] + (commits - since[k])
  BY <1>1, PaidSoFar DEF TypeOK
<1> QED
  BY <1>1, <1>2, <1>3, RetryStep DEF TypeOK, PastCommits

-----------------------------------------------------------------------------
(* IInv is inductive. *)
LEMMA NextInvariant == IInv /\ [Next]_vars => IInv'
<1> SUFFICES ASSUME IInv, [Next]_vars PROVE IInv'
  OBVIOUS
<1>1. ASSUME NEW c \in 0..MaxCode, NEW skip \in {FALSE, MaySkipCi}, Merge(c, skip) PROVE IInv'
  BY <1>1, MergeStep, SkipAssumption
<1>2. ASSUME NEW j \in Jobs, StartNightly(j) PROVE IInv'
  BY <1>2, StartStep
<1>3. ASSUME NEW j \in Jobs, Commit(j) PROVE IInv'
  BY <1>3, CommitStep
<1>4. ASSUME NEW j \in Jobs, Pull(j) PROVE IInv'
  BY <1>4, PullStep
<1>5. ASSUME NEW j \in Jobs, Push(j) PROVE IInv'
  BY <1>5, AcceptedStep, RefusedStep DEF Push
<1>6. ASSUME NEW j \in Jobs, Fault(j) PROVE IInv'
  BY <1>6, FaultStep
<1>7. ASSUME NEW j \in Jobs, PullAgain(j) PROVE IInv'
  BY <1>7, PullAgainStep
<1>8. CASE UNCHANGED vars
  <2>1. UNCHANGED <<tip, commits, merges, pc, base, since, change, at, tries, faults, stuck>>
    BY <1>8 DEF vars, remote, local
  <2>2. TypeOK' /\ NotYetMerged' /\ FreshTries' /\ AttemptLeft' /\ StuckOnce' /\ MovedOn'
    BY <2>1 DEF IInv, TypeOK, NotYetMerged, FreshTries, AttemptLeft, StuckOnce, MovedOn, Attempts, File
  <2>3. PastCommits' /\ BumpsByOne' /\ PulledFromTip' /\ FetchPaid' /\ AttemptsAccountedFor'
    BY <2>1 DEF IInv, PastCommits, BumpsByOne, PulledFromTip, FetchPaid, AttemptsAccountedFor, File
  <2> QED
    BY <2>2, <2>3 DEF IInv
<1> QED
  BY <1>1, <1>2, <1>3, <1>4, <1>5, <1>6, <1>7, <1>8 DEF Next

(* IInv holds throughout. *)
THEOREM MainBranchInvariant == Spec => []IInv
  BY InitInvariant, NextInvariant, PTL DEF Spec

(* Every reachable state is well typed: no job loses more attempts than it *)
(* has, which are those of the loop, or the one of the nightly job.        *)
THEOREM TypeCorrect == Spec => []TypeOK
<1>1. IInv => TypeOK
  BY DEF IInv
<1> QED
  BY <1>1, MainBranchInvariant, PTL

(* Up to its first conflict a job loses no attempt except to a network     *)
(* fault or to a commit that reached main after its checkout, and without  *)
(* such a commit there is no conflict.                                     *)
THEOREM AttemptsPaid == Spec => []AttemptsAccountedFor
<1>1. IInv => AttemptsAccountedFor
  BY DEF IInv
<1> QED
  BY <1>1, MainBranchInvariant, PTL

(* The version on main stays or grows by one at each step, whatever number *)
(* of bumps race, in whatever order they are rebased, refused and retried. *)
THEOREM Consecutive == Spec => VersionsConsecutive
<1> DEFINE Step == tip'["version"] \in {tip["version"], tip["version"] + 1}
<1>1. IInv /\ [Next]_vars => [Step]_vars
  <2> SUFFICES ASSUME IInv, Next PROVE Step
    BY DEF vars
  <2>1. tip \in [Files -> Nat]
    BY DEF IInv, TypeOK, Trees
  <2>2. CASE tip' = tip
    BY <2>2
  <2>3. ASSUME NEW c \in 0..MaxCode, NEW skip \in {FALSE, MaySkipCi}, Merge(c, skip) PROVE Step
    BY <2>1, <2>3 DEF Merge
  <2>4. ASSUME NEW j \in Jobs, Push(j) PROVE Step
    <3>1. CASE Accepted(j)
      BY <3>1, AcceptedVersion
    <3>2. CASE Refused(j, "trying")
      BY <3>2, <2>2 DEF Refused, remote
    <3> QED
      BY <2>4, <3>1, <3>2 DEF Push
  <2>5. ASSUME NEW j \in Jobs,
               StartNightly(j) \/ Commit(j) \/ Pull(j) \/ PullAgain(j) \/ Fault(j)
        PROVE  Step
    <3>1. tip' = tip
      BY <2>5 DEF StartNightly, Commit, Pull, Rebased, Conflict, PullAgain, Fault, remote
    <3> QED
      BY <3>1
  <2> QED
    BY <2>3, <2>4, <2>5 DEF Next
<1> QED
  BY <1>1, MainBranchInvariant, PTL DEF Spec, VersionsConsecutive
=============================================================================
