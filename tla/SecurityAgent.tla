--------------------------- MODULE SecurityAgent ---------------------------
(***************************************************************************)
(* security_agent.py: a scan of source files for patterns, fixes applied   *)
(* to what was found (--apply), a second scan and a report, while others   *)
(* edit the files, some cannot be read or written, and writes fail.        *)
(*                                                                         *)
(* A file is a sequence of the places that matter, each of a kind: a       *)
(* "secret"; a "random" generator; a "wrapped" one, in a secret's string;  *)
(* a "masked" secret, in whose string it was replaced; a "query", for      *)
(* which, as for most of what is looked for, there is no fix; a "quoted"   *)
(* one, in a secret's string; and "plain" text.  Matches that leave each   *)
(* other alone are places of their own.  The text of a match is its kind,  *)
(* so that it may stand at several places.                                 *)
(***************************************************************************)
EXTENDS Integers, SequencesExt

CONSTANTS
    Files,      \* files the walk hands to scan_file
    Texts,      \* what they may hold at first
    FirstModes, \* and what can be done with them
    MaxEdits,   \* bound: edits by others
    NoFile

Kinds == {"secret", "random", "wrapped", "masked", "query", "quoted", "plain"}

(* What the agent can do with a file: scan it, which takes it for UTF-8;   *)
(* read it to fix it, which takes it for the encoding of the locale; and   *)
(* write it.                                                               *)
Uses  == {"scan", "read", "write"}
Modes == SUBSET Uses

ASSUME SecurityAgentAssumption ==
    /\ Texts \subseteq Seq(Kinds) /\ Texts # {}
    /\ FirstModes \subseteq Modes
    /\ MaxEdits \in Nat
    /\ NoFile \notin Files

VARIABLES
    apply,     \* --apply was given
    pc,        \* what the agent does next
    todo,      \* files it has still to do that for
    file,      \* the file it has read and will write
    text,      \* file -> its places
    access,    \* file -> what can be done with it
    buffer,    \* the fixed content of file
    coding,    \* what could be done with file when it was read
    findings,  \* of the scan, in order
    report,    \* rows of security_report.md
    seen,      \* history: file -> what the last scan read
    left,      \* edits others may still make
    edits,     \* history: file -> edits by others
    placed,    \* history: file -> places it had at first or others have added
    barred,    \* history: files that at some time could not be read or written
    overrun,   \* history: files edited between the agent's read and its write
    torn,      \* history: files whose writing failed halfway
    queries    \* history: file -> queries by themselves others have left in it

agent  == <<pc, todo, file, buffer, coding, findings, report, seen>>
others == <<left, edits, placed, barred, overrun, queries>>
vars   == <<apply, agent, text, access, torn, others>>

-----------------------------------------------------------------------------
(* Places of a sequence *)

Places(t, kinds) == {i \in DOMAIN t : t[i] \in kinds}
Count(t, kinds)  == Cardinality(Places(t, kinds))

(* The number of a place among others. *)
Rank(i, places) == Cardinality({j \in places : j <= i})

(* What stands at the places, in their order. *)
Pick(s, places) ==
    [n \in 1..Cardinality(places) |-> s[CHOOSE i \in places : Rank(i, places) = n]]

-----------------------------------------------------------------------------
(* The patterns *)

PatternsRandomFirst == <<"random", "secret", "query">>  \* Faulty: another order

Patterns  == <<"secret", "random", "query">>
Fixable   == {"secret", "random"}
Severity(p) == CASE p = "query" -> 1 [] p = "secret" -> 2 [] p = "random" -> 3

Matching(p) == CASE p = "secret" -> {"secret", "wrapped", "masked", "quoted"}
                 [] p = "random" -> {"random", "wrapped"}
                 [] p = "query"  -> {"query", "quoted"}

(* The text of a match, and the kinds that hold it. *)
Match(p, kind) == IF p = "random" THEN "random" ELSE kind
Holding(m)     == IF m = "random" THEN Matching("random") ELSE {m}

FixedBy(p, kind) == IF p = "random" /\ kind = "wrapped" THEN "masked" ELSE "plain"

Finding == [file : Files, pattern : Range(Patterns), match : Kinds]

FindingsOf(f, p) ==
    LET kinds == Pick(text[f], Places(text[f], Matching(p)))
    IN  [n \in DOMAIN kinds |-> [file |-> f, pattern |-> p, match |-> Match(p, kinds[n])]]

FindingsIn(f) == FindingsOf(f, Patterns[1]) \o FindingsOf(f, Patterns[2]) \o FindingsOf(f, Patterns[3])

Found(f, p, m) == {i \in DOMAIN findings : findings[i] = [file |-> f, pattern |-> p, match |-> m]}

(* Each fix replaces the first occurrence of its match that is left.  Those *)
(* of one pattern do not get in each other's way: n of one match replace    *)
(* the first n places that hold it, unless the encoding spells it in other  *)
(* characters.                                                              *)
ToPatch(t, f, p, garbled) ==
    {i \in DOMAIN t : \E m \in Kinds \ garbled :
        /\ t[i] \in Holding(m)
        /\ Rank(i, Places(t, Holding(m))) <= Cardinality(Found(f, p, m))}

(* Faulty: the replacement does not take the place of the match. *)
PatchBeside(t, f, p, garbled) ==
    IF p \in Fixable THEN t \o [n \in 1..Cardinality(ToPatch(t, f, p, garbled)) |-> "plain"] ELSE t

Patch(t, f, p, garbled) ==
    IF p \in Fixable
    THEN [i \in DOMAIN t |-> IF i \in ToPatch(t, f, p, garbled) THEN FixedBy(p, t[i]) ELSE t[i]]
    ELSE t

(* The fixes of a file come in the order of the findings. *)
Fixed(t, f, garbled) ==
    Patch(Patch(Patch(t, f, Patterns[1], garbled), f, Patterns[2], garbled), f, Patterns[3], garbled)

HasFixes(f) == \E x \in Range(findings) : x.file = f /\ x.pattern \in Fixable

Rows(s)  == Pick(findings, {i \in DOMAIN findings : Severity(findings[i].pattern) = s})
SortedFindings == Rows(1) \o Rows(2) \o Rows(3)

-----------------------------------------------------------------------------
TypeOK ==
    /\ apply \in BOOLEAN
    /\ pc \in {"scan", "fix", "write", "rescan", "report", "done"}
    /\ todo \subseteq Files
    /\ file \in Files \cup {NoFile} /\ (file # NoFile <=> pc = "write")
    /\ DOMAIN text = Files /\ DOMAIN seen = Files
    /\ access \in [Files -> Modes] /\ coding \in Modes
    /\ {findings, report} \subseteq Seq(Finding)
    (* No content of a file outgrows what it had and what others have added. *)
    /\ {buffer} \cup Range(text) \cup Range(seen) \subseteq Seq(Kinds)
    /\ \A f \in Files : Len(text[f]) <= placed[f] /\ Len(seen[f]) <= placed[f]
    /\ Len(buffer) <= (IF pc = "write" THEN placed[file] ELSE 0)
    /\ left \in 0..MaxEdits
    /\ edits \in [Files -> 0..MaxEdits]
    /\ {overrun, torn, barred} \subseteq SUBSET Files

Init ==
    /\ apply \in BOOLEAN
    /\ pc = "scan" /\ todo = Files /\ file = NoFile /\ buffer = <<>>
    /\ coding = {} /\ torn = {}
    /\ text \in [Files -> Texts] /\ access \in [Files -> FirstModes]
    /\ findings = <<>> /\ report = <<>>
    /\ seen = [f \in Files |-> <<>>]
    /\ left = MaxEdits /\ edits = [f \in Files |-> 0] /\ overrun = {}
    /\ placed = [f \in Files |-> Len(text[f])]
    /\ barred = {f \in Files : access[f] # Uses}
    /\ queries = [f \in Files |-> Count(text[f], {"query"})]

-----------------------------------------------------------------------------
(* scan_file; a file that cannot be decoded is reported on the console only. *)
ScanFile(f) ==
    /\ pc \in {"scan", "rescan"} /\ f \in todo
    /\ todo' = todo \ {f}
    /\ IF "scan" \in access[f]
       THEN seen' = [seen EXCEPT ![f] = text[f]] /\ findings' = findings \o FindingsIn(f)
       ELSE seen' = [seen EXCEPT ![f] = <<>>] /\ UNCHANGED findings
    /\ UNCHANGED <<apply, pc, file, text, access, torn, buffer, coding, report, others>>

EndScan ==
    /\ pc \in {"scan", "rescan"} /\ todo = {}
    /\ IF pc = "scan" /\ apply
       THEN pc' = "fix" /\ todo' = {f \in Files : HasFixes(f)}
       ELSE pc' = "report" /\ UNCHANGED todo
    /\ UNCHANGED <<apply, file, text, access, torn, buffer, coding, findings, report, seen, others>>

(* Faulty: the fixes are applied to what was scanned. *)
ReadScanned(f) ==
    /\ pc = "fix" /\ f \in todo
    /\ pc' = "write" /\ file' = f
    /\ coding' = access[f]
    /\ buffer' = Fixed(seen[f], f, {})
    /\ UNCHANGED <<apply, todo, text, access, torn, findings, report, seen, others>>

(* apply_fixes reads a file again and fixes what it has read.  An encoding *)
(* that is not the file's fails, or reads other characters in a secret's   *)
(* string and writes them back as they were.                               *)
ReadFile(f) ==
    /\ pc = "fix" /\ f \in todo
    /\ \/ /\ "read" \notin access[f]
          /\ todo' = todo \ {f}
          /\ UNCHANGED <<pc, file, buffer, coding>>
       \/ /\ pc' = "write" /\ file' = f /\ coding' = access[f]
          /\ \E garbled \in SUBSET Matching("secret") :
               /\ "read" \in access[f] => garbled = {}
               /\ buffer' = Fixed(text[f], f, garbled)
          /\ UNCHANGED todo
    /\ UNCHANGED <<apply, text, access, torn, findings, report, seen, others>>

(* Opening the file for writing empties it; a write that fails after that  *)
(* leaves what was written.                                                *)
WriteFile ==
    /\ pc = "write"
    /\ \/ "write" \notin access[file] /\ UNCHANGED <<text, access, torn>>
       \/ /\ "write" \in access[file]
          /\ \E n \in 0..Len(buffer) :
               /\ text' = [text EXCEPT ![file] = SubSeq(buffer, 1, n)]
               /\ torn' = IF n = Len(buffer) THEN torn ELSE torn \cup {file}
          /\ access' = [access EXCEPT ![file] = coding \cup {"write"}]
    /\ pc' = "fix" /\ todo' = todo \ {file} /\ file' = NoFile
    /\ buffer' = <<>> /\ coding' = {}
    /\ UNCHANGED <<apply, findings, report, seen, others>>

(* Faulty: the second scan adds to the findings of the first. *)
RescanAdding ==
    /\ pc = "fix" /\ todo = {}
    /\ pc' = "rescan" /\ todo' = Files
    /\ UNCHANGED <<apply, file, text, access, torn, buffer, coding, findings, report, seen, others>>

Rescan ==
    /\ pc = "fix" /\ todo = {}
    /\ pc' = "rescan" /\ todo' = Files
    /\ findings' = <<>>
    /\ UNCHANGED <<apply, file, text, access, torn, buffer, coding, report, seen, others>>

WriteReport ==
    /\ pc = "report"
    /\ pc' = "done"
    /\ report' = SortedFindings
    /\ UNCHANGED <<apply, todo, file, text, access, torn, buffer, coding, findings, seen, others>>

-----------------------------------------------------------------------------
(* Someone else edits a file: a place is added or removed, or the file is  *)
(* saved in another encoding or protected, or can be used again.           *)
Edit(f) ==
    /\ left > 0 /\ pc # "done"
    /\ left' = left - 1
    /\ edits' = [edits EXCEPT ![f] = @ + 1]
    /\ overrun' = IF file = f THEN overrun \cup {f} ELSE overrun
    /\ \/ /\ \E i \in 1..Len(text[f]) + 1, k \in Kinds \ {"masked", "plain"} :
                text' = [text EXCEPT ![f] = InsertAt(@, i, k)]
          /\ placed' = [placed EXCEPT ![f] = @ + 1]
          /\ UNCHANGED access
       \/ /\ \E i \in 1..Len(text[f]) : text' = [text EXCEPT ![f] = RemoveAt(@, i)]
          /\ UNCHANGED <<access, placed>>
       \/ /\ \E uses \in Modes : access' = [access EXCEPT ![f] = uses]
          /\ UNCHANGED <<text, placed>>
    /\ barred' = IF access'[f] = Uses THEN barred ELSE barred \cup {f}
    /\ queries' = [queries EXCEPT ![f] = @ + Count(text'[f], {"query"}) - Count(text[f], {"query"})]
    /\ UNCHANGED <<apply, agent, torn>>

Next ==
    \/ \E f \in Files : ScanFile(f) \/ ReadFile(f) \/ Edit(f)
    \/ EndScan \/ WriteFile \/ Rescan \/ WriteReport

Spec == Init /\ [][Next]_vars

-----------------------------------------------------------------------------
(* What apply_fixes can fix is gone when it is done, but for the two       *)
(* findings that one edit of others can bring: wherever matches overlap    *)
(* and however often a text occurs, no fix prevents another.  A failed     *)
(* write does not bring back what it fixes.                                *)
FixablesGone ==
    pc \in {"report", "done"} /\ apply => \A f \in Files :
        \/ Count(seen[f], Matching("secret")) + Count(seen[f], Matching("random")) <= 2 * edits[f]
        \/ f \in barred

(* The agent takes nothing it has no fix for from a file, unless it stands *)
(* in a secret's string, also where others have changed the file since the *)
(* scan; what is lost is lost to an edit between its reading and its       *)
(* writing of a file, or to a write that fails.                            *)
OthersKept ==
    \A f \in Files : Count(text[f], {"query"}) = queries[f] \/ f \in overrun \cup torn

(* The report has one row for each finding in what the last scan read, the *)
(* most severe ones first, and none that --apply has removed.              *)
ReportCurrent ==
    pc = "done" =>
        /\ \A i, j \in DOMAIN report : i < j => Severity(report[i].pattern) <= Severity(report[j].pattern)
        /\ \A f \in Files, p \in Range(Patterns) :
             Cardinality({i \in DOMAIN report : report[i].file = f /\ report[i].pattern = p})
               = Count(seen[f], Matching(p))
=============================================================================
