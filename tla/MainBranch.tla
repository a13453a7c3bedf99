----------------------------- MODULE MainBranch -----------------------------
(***************************************************************************)
(* Who writes to the main branch and how they race: developers merging     *)
(* pull requests, and the workflows that commit to main on their own.      *)
(*                                                                         *)
(* auto-bump-version.yml and sbom-cbom.yml start on each merge, check out  *)
(* the merge commit, change one file each (the version in pom.xml, the     *)
(* audit report) and run "git pull --rebase && git push" up to five times. *)
(* nightly-dependency-update.yml, without a PAT, pushes a verified change  *)
(* of the dependencies with one attempt.                                   *)
(*                                                                         *)
(* The tree is a function from its parts to their contents; the version    *)
(* and the dependencies are distinct lines of pom.xml.  The content of     *)
(* "code" stands for what the audit would report of it.                    *)
(* Git is external: a rebase applies a change when the file upstream is    *)
(* what the change was made to, drops it when upstream already carries it, *)
(* and stops on a conflict otherwise; a push is refused when the branch    *)
(* has moved since it was fetched.                                         *)
(***************************************************************************)
EXTENDS Integers

CONSTANTS
    OnPush,        \* the workflows that start on a push to main: what they write
    MaxMerges,     \* bound: pull requests merged
    MaxNightly,    \* bound: nightly runs
    MaxCode,       \* bound: distinct states of the code
    LoopAttempts,  \* attempts of the retry loops (5)
    MaxFaults,     \* bound: attempts of a job that fail on the network
    MaySkipCi      \* whether a merge may say [skip ci]

ASSUME OnPushAssumption == OnPush \subseteq {"version", "report"}
ASSUME BoundsAssumption ==
    {MaxMerges, MaxNightly, MaxCode, MaxFaults} \subseteq Nat
ASSUME AttemptsAssumption == LoopAttempts \in Nat \ {0}
ASSUME SkipAssumption == MaySkipCi \in BOOLEAN

Files == {"code", "version", "report", "deps"}
Trees == [Files -> Nat]
Jobs  == (OnPush \X (1..MaxMerges)) \cup ({"deps"} \X (1..MaxNightly))

(* A job is named for the file it writes.  The nightly push has no loop.   *)
File(j)     == j[1]
Attempts(j) == IF File(j) = "deps" THEN 1 ELSE LoopAttempts

VARIABLES
    tip,      \* the tree at the head of main
    commits,  \* commits on main
    merges,   \* pull requests merged
    pc,       \* job -> where it is
    base,     \* job -> the tree its commit was made on or last rebased to
    since,    \* job -> the commits that were on main when it checked out
    change,   \* job -> the content its commit gives its file
    at,       \* job -> the commits on main when it last fetched
    tries,    \* job -> attempts lost
    faults,   \* job -> attempts that failed on the network
    stuck     \* job -> attempts spent on a rebase that stopped on a conflict

remote == <<tip, commits, merges>>
local  == <<pc, base, since, change, at, tries, faults, stuck>>
vars   == <<remote, local>>

Working  == {"queued", "trying", "pulled", "stuck"}
Outcomes == {"done", "lost", "failed"}   \* "lost": green without its change

TypeOK ==
    /\ tip \in Trees
    /\ commits \in Nat
    /\ merges \in 0..MaxMerges
    /\ pc \in [Jobs -> {"idle"} \cup Working \cup Outcomes]
    /\ base \in [Jobs -> Trees]
    /\ since \in [Jobs -> Nat]
    /\ change \in [Jobs -> Nat]
    /\ at \in [Jobs -> Nat]
    /\ tries \in [Jobs -> Nat]
    /\ faults \in [Jobs -> 0..MaxFaults]
    /\ stuck \in [Jobs -> Nat]
    /\ \A j \in Jobs : stuck[j] <= tries[j] /\ tries[j] <= Attempts(j)

Init ==
    /\ tip = [f \in Files |-> 0]
    /\ commits = 0
    /\ merges = 0
    /\ pc = [j \in Jobs |-> "idle"]
    /\ base = [j \in Jobs |-> tip]
    /\ since = [j \in Jobs |-> 0]
    /\ change = [j \in Jobs |-> 0]
    /\ at = [j \in Jobs |-> 0]
    /\ tries = [j \in Jobs |-> 0]
    /\ faults = [j \in Jobs |-> 0]
    /\ stuck = [j \in Jobs |-> 0]

Goto(j, l) == pc' = [pc EXCEPT ![j] = l]

-----------------------------------------------------------------------------
(* Starting *)

(* A merge starts the bump and the audit of the merge commit, unless it    *)
(* says [skip ci].  What the workflows push themselves starts nothing: it  *)
(* is pushed with GITHUB_TOKEN and says so as well.                        *)
Merge(c, skip) ==
    LET started == IF skip THEN {} ELSE OnPush \X {merges + 1}
    IN  /\ merges < MaxMerges
        /\ merges' = merges + 1
        /\ tip' = [tip EXCEPT !["code"] = c]
        /\ commits' = commits + 1
        /\ pc' = [j \in Jobs |-> IF j \in started THEN "queued" ELSE pc[j]]
        /\ base' = [j \in Jobs |-> IF j \in started THEN tip' ELSE base[j]]
        /\ since' = [j \in Jobs |-> IF j \in started THEN commits' ELSE since[j]]
        /\ UNCHANGED <<change, at, tries, faults, stuck>>

(* 02:00 UTC: the head of main is checked out. *)
StartNightly(j) ==
    /\ File(j) = "deps"
    /\ pc[j] = "idle"
    /\ Goto(j, "queued")
    /\ base' = [base EXCEPT ![j] = tip]
    /\ since' = [since EXCEPT ![j] = commits]
    /\ UNCHANGED <<remote, change, at, tries, faults, stuck>>

(* What the job makes of its file: the next version, the report of the     *)
(* code it checked out, newer dependencies.                                *)
Product(j) == CASE File(j) = "version" -> {base[j]["version"] + 1}
                [] File(j) = "report"  -> {base[j]["code"]}
                [] File(j) = "deps"    -> {base[j]["deps"], base[j]["deps"] + 1}

(* The job builds and commits, or finds nothing to commit.  A failing      *)
(* build fails the job.                                                    *)
Commit(j) ==
    /\ pc[j] = "queued"
    /\ \/ /\ Goto(j, "failed")
          /\ UNCHANGED change
       \/ \E p \in Product(j) :
            /\ change' = [change EXCEPT ![j] = p]
            /\ Goto(j, IF p = base[j][File(j)] THEN "done" ELSE "trying")
    /\ UNCHANGED <<tip, commits, merges, base, since, at, tries, faults, stuck>>

-----------------------------------------------------------------------------
(* git pull --rebase && git push *)

(* The loop ends green whatever happened in it; the nightly step fails.    *)
GiveUp(j) == IF File(j) = "deps" THEN "failed" ELSE "lost"

Fetched(j) == at' = [at EXCEPT ![j] = commits]

(* Nothing is left of the commit to apply: upstream carries its change, or *)
(* carried it when it was last rebased.                                    *)
Upstreamed(j) == change[j] \in {base[j][File(j)], tip[File(j)]}

(* Upstream still has the file the commit was made to. *)
Applies(j) == ~Upstreamed(j) /\ base[j][File(j)] = tip[File(j)]

Rebased(j, content) == /\ pc[j] = "trying"
                       /\ Goto(j, "pulled")
                       /\ base' = [base EXCEPT ![j] = tip]
                       /\ change' = [change EXCEPT ![j] = content]
                       /\ Fetched(j)
                       /\ UNCHANGED <<remote, since, tries, faults, stuck>>

(* Faulty: the loop runs once more than it should. *)
RetryOnceMore(j, next) ==
    /\ tries' = [tries EXCEPT ![j] = @ + 1]
    /\ Goto(j, IF tries[j] <= Attempts(j) THEN next ELSE GiveUp(j))

(* The attempt failed: the loop starts its next one, if it has one left. *)
Retry(j, next) ==
    /\ tries' = [tries EXCEPT ![j] = @ + 1]
    /\ Goto(j, IF tries[j] + 1 < Attempts(j) THEN next ELSE GiveUp(j))

Unfinished(j) == stuck' = [stuck EXCEPT ![j] = @ + 1]

(* A rebase that stops on a conflict leaves the clone in the middle of it. *)
Conflict(j) == /\ pc[j] = "trying"
               /\ Retry(j, "stuck")
               /\ Unfinished(j)
               /\ Fetched(j)
               /\ UNCHANGED <<remote, base, since, change, faults>>

(* There every further pull of the loop fails on the unmerged file, before *)
(* it has fetched anything.                                                *)
PullAgain(j) == /\ pc[j] = "stuck"
                /\ Retry(j, "stuck")
                /\ Unfinished(j)
                /\ UNCHANGED <<remote, base, since, change, at, faults>>

(* Faulty: conflicts are resolved in favour of the job's own change. *)
PullOwn(j) == \/ Upstreamed(j) /\ Rebased(j, tip[File(j)])
              \/ ~Upstreamed(j) /\ Rebased(j, change[j])

Pull(j) == \/ Upstreamed(j) /\ Rebased(j, tip[File(j)])
           \/ Applies(j) /\ Rebased(j, change[j])
           \/ ~Upstreamed(j) /\ ~Applies(j) /\ Conflict(j)

Accepted(j) ==
    /\ pc[j] = "pulled"
    /\ at[j] = commits
    /\ tip' = [tip EXCEPT ![File(j)] = change[j]]
    /\ commits' = IF tip' = tip THEN commits ELSE commits + 1
    /\ Goto(j, "done")
    /\ UNCHANGED <<merges, base, since, change, at, tries, faults, stuck>>

Refused(j, next) ==
    /\ pc[j] = "pulled"
    /\ at[j] # commits
    /\ Retry(j, next)
    /\ UNCHANGED <<remote, base, since, change, at, faults, stuck>>

(* Faulty: a refused push is repeated without fetching again. *)
PushBlindly(j) == Accepted(j) \/ Refused(j, "pulled")

Push(j) == Accepted(j) \/ Refused(j, "trying")

(* The network fails the pull or the push. *)
Fault(j) ==
    /\ pc[j] \in {"trying", "pulled"}
    /\ faults[j] < MaxFaults
    /\ faults' = [faults EXCEPT ![j] = @ + 1]
    /\ Retry(j, "trying")
    /\ UNCHANGED <<remote, base, since, change, at, stuck>>

-----------------------------------------------------------------------------
Next == \/ \E c \in 0..MaxCode, skip \in {FALSE, MaySkipCi} : Merge(c, skip)
        \/ \E j \in Jobs : \/ StartNightly(j)
                           \/ Commit(j)
                           \/ Pull(j)
                           \/ PullAgain(j)
                           \/ Push(j)
                           \/ Fault(j)

Spec == Init /\ [][Next]_vars

-----------------------------------------------------------------------------
(* The version on main never goes back and never skips a number, although  *)
(* every bump is computed from the version of an older checkout and they   *)
(* arrive in any order.                                                    *)
VersionsConsecutive == [][tip'["version"] \in {tip["version"], tip["version"] + 1}]_vars

(* Up to a conflict a job loses an attempt only to the network or to a     *)
(* commit that reached main after its checkout, and to each only once.  A  *)
(* conflict, which only such a commit can cause, costs it all the others.  *)
AttemptsAccountedFor ==
    \A j \in Jobs :
        /\ tries[j] - stuck[j] <= faults[j] + (commits - since[j])
        /\ stuck[j] > 0 => since[j] < commits

-----------------------------------------------------------------------------
(* What the documents say and the code does not do. *)

Settled == \A j \in Jobs : pc[j] \notin Working \cup {"failed"}

(* README.md:126 has the workflow update the audit report on each push to  *)
(* main, and README.md:174 calls it the latest: when every job has ended,  *)
(* and none in failure, main carries the report of the code on main.       *)
AuditCurrent == Settled => tip["report"] = tip["code"]
=============================================================================
