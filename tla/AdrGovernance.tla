--------------------------- MODULE AdrGovernance ----------------------------
(***************************************************************************)
(* The gate on architecture decision records: pull requests that change    *)
(* records and code, the job of adr-gatekeeper.yml that verifies the       *)
(* records and rates the change (adr_gatekeeper.py), and merges into main. *)
(*                                                                         *)
(* A tree gives each part its content: a record of docs/adr what the rules *)
(* read of it, a file of code or a template of docs/adr/templates the      *)
(* author of its last change.  Of the index, the block of a record in      *)
(* tools/adr_index.json, its row in docs/adr/README.md and the lines       *)
(* total_records and last_updated are parts of their own, for git merges   *)
(* them apart from each other.                                             *)
(***************************************************************************)
EXTENDS Integers, Sequences, FiniteSets, FiniteSetsExt

CONSTANTS
    PRs,
    AdrFiles,     \* sequence of the records of docs/adr, in the order of their names
    Templates,    \* other files docs/adr/**/*.md, but for README.md
    CodeFiles,
    IdOf,         \* record -> its number
    Block, Row,   \* record -> its part of adr_index.json, of README.md
    Total, Updated,
    Docs,         \* record -> what it may say
    Days,         \* dates reindexing may write; Absent is an older one
    Absent,
    Weight,       \* code file -> what its patterns weigh
    Mentions,     \* code file -> keyword rules a change to it matches
    RuleWeight,   \* keyword rule -> what it weighs
    Minimum,      \* score from which an ADR is required
    Mains,        \* trees main may start with
    MaxChanges    \* bound: records and other files a pull request changes, of each kind

AdrPaths == {AdrFiles[i] : i \in DOMAIN AdrFiles}
Texts    == CodeFiles \cup Templates
Blocks   == {Block[f] : f \in AdrPaths}
Rows     == {Row[f] : f \in AdrPaths}
Json     == Blocks \cup {Total, Updated}
Index    == Json \cup Rows
Files    == AdrPaths \cup Texts \cup Index

ASSUME WeightAssumption ==
    /\ Weight \in [CodeFiles -> Nat] /\ Minimum \in Nat \ {0}
    /\ DOMAIN Mentions = CodeFiles
    /\ RuleWeight \in [UNION {Mentions[f] : f \in CodeFiles} -> Nat]
ASSUME PartsAssumption ==
    /\ AdrFiles \in Seq(AdrPaths)
    /\ \A i, j \in DOMAIN AdrFiles : AdrFiles[i] = AdrFiles[j] => i = j
    /\ \A f, g \in AdrPaths : Block[f] = Block[g] \/ Row[f] = Row[g] => f = g
    /\ AdrPaths \cap Texts = {} /\ (AdrPaths \cup Texts) \cap Index = {}
    /\ CodeFiles \cap Templates = {}
    /\ Blocks \cap Rows = {} /\ {Total, Updated} \cap (Blocks \cup Rows) = {}
    /\ Total # Updated

(* What block and row show of a record; its sections are in neither, and   *)
(* a row has the status only, which names the record that supersedes it.   *)
InBlock(doc) == IF doc = Absent THEN Absent ELSE <<doc.supersedes, doc.by>>
InRow(doc)   == IF doc = Absent THEN Absent ELSE <<doc.by>>

Says     == {Absent} \cup UNION {Docs[f] : f \in AdrPaths}
InBlocks == {InBlock(doc) : doc \in Says}
InRows   == {InRow(doc) : doc \in Says}

Contents(f) == CASE f \in AdrPaths -> Docs[f] \cup {Absent}
                 [] f \in Texts    -> PRs \cup {Absent}
                 [] f \in Blocks   -> InBlocks
                 [] f \in Rows     -> InRows
                 [] f = Total      -> 0..Len(AdrFiles)
                 [] f = Updated    -> Days \cup {Absent}

VARIABLES
    main,       \* tree of main
    state,      \* of a pull request: "none", "open" or "merged"
    fork,       \* tree of main its branch was made from or last updated to
    head,       \* tree of its branch
    base,       \* tree of main its merge ref was made with
    verdict,    \* of the check of its head: "none", "pending", "passed" or "failed"
    brought,    \* history: files a pull request changed when it was merged
    raced,      \* history: a merge has found main changed since the check's merge ref
    unindexed,  \* history: an entry is wrong that a merge brought from a wrong index
    miscounted  \* history: the total is wrong, likewise or by a change made twice

vars == <<main, state, fork, head, base, verdict, brought, raced, unindexed, miscounted>>
history == <<brought, raced, unindexed, miscounted>>

IsTree(t)   == DOMAIN t = Files /\ \A f \in Files : t[f] \in Contents(f)
AreTrees(t) == DOMAIN t = PRs /\ \A p \in PRs : IsTree(t[p])

TypeOK ==
    /\ IsTree(main)
    /\ AreTrees(fork) /\ AreTrees(head) /\ AreTrees(base)
    /\ state \in [PRs -> {"none", "open", "merged"}]
    /\ verdict \in [PRs -> {"none", "pending", "passed", "failed"}]
    /\ \A p \in PRs : /\ state[p] = "none" => verdict[p] = "none"
                      /\ state[p] = "merged" => verdict[p] = "passed"
    /\ brought \in [PRs -> SUBSET Files]
    /\ {raced, unindexed, miscounted} \subseteq BOOLEAN

-----------------------------------------------------------------------------
(* adr_gatekeeper.py *)

(* Places of the records of a tree, in the order of their files. *)
Records(t) == {i \in DOMAIN AdrFiles : t[AdrFiles[i]] # Absent}
WithId(t, n) == {i \in Records(t) : IdOf[AdrFiles[i]] = n}

(* The record superseded must exist and name the one that supersedes it;   *)
(* of two records with its number the first counts.                        *)
LinkHolds(t, i) ==
    LET doc == t[AdrFiles[i]] IN
    doc.supersedes # 0 =>
        \E j \in WithId(t, doc.supersedes) :
            /\ \A k \in WithId(t, doc.supersedes) : j <= k
            /\ t[AdrFiles[j]].by = IdOf[AdrFiles[i]]

VerifyAdrs(t) == \A i \in Records(t) : t[AdrFiles[i]].sections /\ LinkHolds(t, i)

(* Each file counts by its patterns, each keyword rule once per change.    *)
Score(files) ==
    LET code  == files \cap CodeFiles
        rules == UNION {Mentions[f] : f \in code}
    IN  MapThenSumSet(LAMBDA f : Weight[f], code) + MapThenSumSet(LAMBDA r : RuleWeight[r], rules)

(* Any change to a record or a template will do, its removal included;     *)
(* lifted: what the diff shows of the index matches rules as well.         *)
EvaluateSignificance(files, lifted) ==
    \/ files \cap (AdrPaths \cup Templates) # {}
    \/ ~lifted /\ ~(Score(files) >= Minimum)

RecordOf(e) == CHOOSE f \in AdrPaths : e \in {Block[f], Row[f]}

(* Faulty: reindexing adds the records that are not in the index. *)
ReindexedNew(t, day) ==
    [e \in Files |-> CASE e \in Blocks /\ t[e] = Absent -> InBlock(t[RecordOf(e)])
                       [] e \in Rows /\ t[e] = Absent   -> InRow(t[RecordOf(e)])
                       [] e = Total    -> Cardinality(Records(t))
                       [] e = Updated  -> day
                       [] OTHER        -> t[e]]

(* Faulty: the total is that of the index as it was loaded. *)
ReindexedLoaded(t, day) ==
    [e \in Files |-> CASE e \in Blocks -> InBlock(t[RecordOf(e)])
                       [] e \in Rows   -> InRow(t[RecordOf(e)])
                       [] e = Total    -> Cardinality({b \in Blocks : t[b] # Absent})
                       [] e = Updated  -> day
                       [] OTHER        -> t[e]]

(* reindex writes the index of the records of the tree. *)
Reindexed(t, day) ==
    [e \in Files |-> CASE e \in Blocks -> InBlock(t[RecordOf(e)])
                       [] e \in Rows   -> InRow(t[RecordOf(e)])
                       [] e = Total    -> Cardinality(Records(t))
                       [] e = Updated  -> day
                       [] OTHER        -> t[e]]

(* Parts of the index are as reindexing would write them. *)
AsReindexed(t, parts) == LET r == Reindexed(t, t[Updated]) IN \A e \in parts : t[e] = r[e]

ShowsRecords(t) == \A f \in AdrPaths : t[Block[f]] = InBlock(t[f]) /\ t[Row[f]] = InRow(t[f])
CountsRecords(t) == t[Total] = Cardinality(Records(t))

ASSUME MainsAssumption ==
    /\ Absent \notin PRs
    /\ \A t \in Mains : /\ IsTree(t) /\ VerifyAdrs(t)
                        /\ \A f \in Texts : t[f] = Absent

-----------------------------------------------------------------------------
(* git *)

Changed(p)     == {f \in Files : head[p][f] # fork[p][f]}
Conflicting(p) == {f \in Changed(p) : main[f] \notin {fork[p][f], head[p][f]}}
Merged(p, t)   == [f \in Files |-> IF f \in Changed(p) THEN head[p][f] ELSE t[f]]

(* Changes of a branch that main already has, made by another. *)
MadeTwice(p) == {f \in Changed(p) : main[f] # fork[p][f]}

MergeRef(p) == Merged(p, base[p])

(* Faulty: a diff of two dots, with main as it is when the check runs. *)
DiffWithMain(p) == {f \in Files : MergeRef(p)[f] # main[f]}

(* Files of the diff of three dots: the merge ref against its own base. *)
DiffFiles(p) == {f \in Files : MergeRef(p)[f] # base[p][f]}

(* Faulty: the check of the first head stands for those that follow.       *)
TriggerOnOpen(p) ==
    /\ base' = [base EXCEPT ![p] = main]
    /\ verdict' = [verdict EXCEPT ![p] =
         IF Conflicting(p)' # {} THEN "none" ELSE IF @ = "none" THEN "pending" ELSE @]

(* An event of the pull request: a merge ref is made of its new head and   *)
(* a check asked for, unless it conflicts with main.                       *)
Trigger(p) ==
    /\ base' = [base EXCEPT ![p] = main]
    /\ verdict' = [verdict EXCEPT ![p] = IF Conflicting(p)' = {} THEN "pending" ELSE "none"]

-----------------------------------------------------------------------------
Init ==
    /\ main \in Mains
    /\ state = [p \in PRs |-> "none"]
    /\ verdict = [p \in PRs |-> "none"]
    /\ fork = [p \in PRs |-> main] /\ head = fork /\ base = fork
    /\ brought = [p \in PRs |-> {}] /\ raced = FALSE
    /\ unindexed = ~ShowsRecords(main) /\ miscounted = ~CountsRecords(main)

(* A commit adds, changes or removes a record, changes another file or     *)
(* takes such a change back.                                               *)
Commits(p, t, from, f) ==
    {[t EXCEPT ![f] = new] : new \in
        {new \in Contents(f) \ {t[f]} : f \in Texts => new \in {p, from[f]}}}

(* A branch is made from main and opened with its first commit.  What else *)
(* its author commits before that is as if pushed to an open pull request. *)
Open(p) ==
    /\ state[p] = "none"
    /\ state' = [state EXCEPT ![p] = "open"]
    /\ fork' = [fork EXCEPT ![p] = main]
    /\ \E f \in AdrPaths \cup Texts : \E tree \in Commits(p, main, main, f) :
         head' = [head EXCEPT ![p] = tree]
    /\ UNCHANGED <<main, history>>
    /\ Trigger(p)

Push(p, tree) ==
    /\ state[p] = "open"
    /\ head' = [head EXCEPT ![p] = tree]
    /\ UNCHANGED <<main, state, fork, history>>
    /\ Trigger(p)

Commit(p) ==
    /\ \E f \in AdrPaths \cup Texts : \E tree \in Commits(p, head[p], fork[p], f) : Push(p, tree)
    /\ Cardinality((Changed(p) \cap AdrPaths)') <= MaxChanges
    /\ Cardinality((Changed(p) \cap Texts)') <= MaxChanges

(* adr_gatekeeper.py --reindex in the branch. *)
Reindex(p) == \E day \in Days : Push(p, Reindexed(head[p], day))

(* The pull request is closed and opened again. *)
Reopen(p) == Push(p, head[p])

(* main is merged into the branch, where a conflict in the index is        *)
(* resolved by reindexing.                                                 *)
UpdateBranch(p) ==
    /\ state[p] = "open"
    /\ main # fork[p]
    /\ Conflicting(p) \subseteq Index
    /\ \E tree \in {Reindexed(Merged(p, main), day) : day \in Days}
                    \cup (IF Conflicting(p) = {} THEN {Merged(p, main)} ELSE {}) :
         head' = [head EXCEPT ![p] = tree]
    /\ fork' = [fork EXCEPT ![p] = main]
    /\ UNCHANGED <<main, state, history>>
    /\ Trigger(p)

Check(p) ==
    /\ state[p] = "open"
    /\ verdict[p] = "pending"
    /\ \E lifted \in {FALSE, DiffFiles(p) \cap Index # {}} :
         verdict' = [verdict EXCEPT ![p] =
           IF VerifyAdrs(MergeRef(p)) /\ EvaluateSignificance(DiffFiles(p), lifted) THEN "passed" ELSE "failed"]
    /\ UNCHANGED <<main, state, fork, head, base, history>>

(* Merged, the branch is deleted. *)
MergeIf(p, verdicts) ==
    /\ state[p] = "open"
    /\ verdict[p] \in verdicts
    /\ Conflicting(p) = {}
    /\ main' = Merged(p, main)
    /\ state' = [state EXCEPT ![p] = "merged"]
    /\ raced' = (raced \/ main # base[p])
    /\ unindexed' = (~ShowsRecords(main') /\
         (unindexed \/ ~AsReindexed(head[p], Blocks \cup Rows) \/ ~AsReindexed(fork[p], Blocks \cup Rows)))
    /\ miscounted' = (~CountsRecords(main') /\
         (miscounted \/ ~AsReindexed(head[p], {Total}) \/ ~AsReindexed(fork[p], {Total})
            \/ MadeTwice(p) \cap (AdrPaths \cup {Total}) # {}))
    /\ brought' = [brought EXCEPT ![p] = Changed(p)]
    /\ fork' = [fork EXCEPT ![p] = main'] /\ head' = [head EXCEPT ![p] = main']
    /\ base' = [base EXCEPT ![p] = main']
    /\ UNCHANGED verdict

(* Faulty: a pull request is merged while its check runs. *)
MergeEarly(p) == MergeIf(p, {"pending", "passed"})

Merge(p) == MergeIf(p, {"passed"})

Next == \E p \in PRs :
    \/ Open(p) \/ Commit(p) \/ Reindex(p) \/ Reopen(p)
    \/ UpdateBranch(p)
    \/ Check(p)
    \/ Merge(p)

Spec == Init /\ [][Next]_vars

-----------------------------------------------------------------------------
(* A pull request whose own changes of code reach the score that requires  *)
(* an ADR is merged only if it touches a file under docs/adr itself, be it *)
(* a template: one that others merge in the meantime, before or after its  *)
(* check, does not count for it, nor does one it had when it was opened.   *)
GateHolds ==
    \A p \in PRs : state[p] = "merged" /\ Score(brought[p]) >= Minimum
        => brought[p] \cap (AdrPaths \cup Templates) # {}

(* Main passes the verification of its records unless some pull request    *)
(* was merged with a main that had changed after its merge ref was made.   *)
MainVerifies == raced \/ VerifyAdrs(main)

(* Blocks and rows of main are those of its records unless a merge brought *)
(* in the work of an index that was not that of its records, in the branch *)
(* or in the main it was made from: merges that race, each with the index  *)
(* of its own records, leave out and bring back no entry.                  *)
IndexCurrent == unindexed \/ ShowsRecords(main)

(* total_records of main is right on the same condition, and unless a      *)
(* branch was merged that had changed it, or a record, just as main had.   *)
TotalCurrent == miscounted \/ CountsRecords(main)
=============================================================================
