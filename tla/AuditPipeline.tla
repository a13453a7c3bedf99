--------------------------- MODULE AuditPipeline ----------------------------
(***************************************************************************)
(* The job of sbom-cbom.yml that audits a commit: the generator writes a   *)
(* CBOM, scan_crypto_ast.py scans the code (SourceScan) and reconciles its *)
(* call sites with the CBOM (CbomReconcile), test_boms.sh verifies it, and *)
(* analyze_cbom.py makes the report (CbomAnalysis) that is published.      *)
(* How reports of several jobs reach the main branch is in MainBranch.     *)
(***************************************************************************)
EXTENDS Integers, Sequences, FiniteSets, Functions

CONSTANTS
    RuleNames, Layouts, MaxLines,                       \* of SourceScan
    Names, Base, Within, Sha3, Kinds, MaxGenerated,     \* of CbomReconcile
    PostQuantum, Vulnerable, CoveredBy, Catalog, MaxListed,  \* of CbomAnalysis
    Sboms,                                              \* dependencies the code may have
    Upstreams                                           \* CBOMs of vendors, or none

VARIABLES
    step,                                               \* step of the job
    lang, line, delim, found, mode, calls, astray, due, excused,  \* of SourceScan
    file, cbom, pc, scanned, todo, comps, loaded, settled,  \* of CbomReconcile
    bomFormat,                                          \* format of the CBOM
    sbomFile,                                           \* state of each SBOM file
    sbom,                                               \* dependencies of the code
    report

scan      == <<lang, line, delim, found, mode, calls, astray, due, excused>>
reconcile == <<file, cbom, pc, scanned, todo, comps, loaded, settled>>
result    == <<bomFormat, sbomFile, sbom, report>>
vars      == <<step, scan, reconcile, result>>

Scan     == INSTANCE SourceScan
Cbom     == INSTANCE CbomReconcile WITH Locations <- 1..MaxLines, MaxSites <- MaxLines
Analysis == INSTANCE CbomAnalysis

None    == [rating |-> "none"]
Formats == {"cyclonedx", "spdx"}   \* of SBOMs
Files   == {"absent", "broken", "whole"}

ASSUME LayoutsAssumption ==
    /\ MaxLines \in Nat /\ RuleNames \cap Scan!Marks = {}
    /\ \A layout \in Layouts : layout[3] \in Seq(RuleNames \cup Scan!Marks)

(* Names that match are of one family and so of one class.                 *)
ASSUME ClassesAssumption ==
    /\ RuleNames \subseteq Names /\ Kinds \subseteq BOOLEAN
    /\ \A m, n \in Names : Cbom!Matches(m, n) => Analysis!ClassOf(m) = Analysis!ClassOf(n)

ASSUME SbomsAssumption ==
    <<>> \in Sboms /\ MaxListed \in Nat /\ \A s \in Sboms : s \in Seq(Range(s))

TypeOK ==
    /\ step \in {"generate", "scan", "reconcile", "verify", "analyse", "publish",
                 "published", "failed"}
    /\ Scan!TypeOK
    /\ Cbom!TypeOK
    /\ bomFormat \in {"CycloneDX", "other"}
    /\ sbomFile \in [Formats -> Files]
    /\ sbom \in Sboms
    /\ report # None =>
         /\ \A class \in Analysis!Classes : /\ report.rows[class] \subseteq Cbom!Components
                                            /\ report.deps[class] \subseteq DOMAIN sbom
         /\ report.blind \subseteq DOMAIN sbom /\ report.more \in Nat
         /\ report.rating \in {"FirstPartyOnly", "HIGH", "MEDIUM", "LOW"}

Init ==
    /\ step = "generate"
    /\ Scan!Init
    /\ Cbom!Init
    /\ bomFormat = "CycloneDX"
    /\ sbomFile = [f \in Formats |-> "whole"]
    /\ sbom = <<>>
    /\ report = None

-----------------------------------------------------------------------------
(* cbomkit may fail without failing the job; it leaves no CBOM then, or a  *)
(* part of one.  A CBOM that the scanner starts has the right format.      *)
GeneratorFails ==
    /\ step = "generate"
    /\ step' = "scan"
    /\ file' \in {"absent", "broken"}
    /\ UNCHANGED <<scan, cbom, pc, scanned, todo, comps, loaded, settled, result>>

Generate ==
    /\ step = "generate"
    /\ step' = "scan"
    /\ \E cs \in Cbom!Generated : Cbom!Generate(cs)
    /\ bomFormat' \in {"CycloneDX", "other"}
    /\ UNCHANGED <<scan, sbomFile, sbom, report>>

ScanLine ==
    /\ step = "scan"
    /\ Scan!Next
    /\ UNCHANGED <<step, reconcile, result>>

(* The file has been read. *)
EndScan ==
    /\ step = "scan"
    /\ Cbom!Start(found)
    /\ step' = "reconcile"
    /\ UNCHANGED <<scan, result>>

(* A CBOM that is not JSON: the step fails, and with it the job. *)
RejectCbom ==
    /\ step = "scan"
    /\ file = "broken"
    /\ step' = "failed"
    /\ UNCHANGED <<scan, reconcile, result>>

Reconcile ==
    /\ step = "reconcile"
    /\ \/ \E s \in todo : Cbom!ReconcileSite(s)
       \/ Cbom!BeginWrite
    /\ UNCHANGED <<step, scan, result>>

EndReconcile ==
    /\ step = "reconcile"
    /\ Cbom!EndWrite
    /\ step' = "verify"
    /\ UNCHANGED <<scan, result>>

(* Both SBOMs were written before the CBOM, but nothing reads them before  *)
(* the harness.  It checks the one that is listed first, and asks for a    *)
(* CBOM that is JSON and CycloneDX, whatever is in it.                     *)
Verify ==
    /\ step = "verify"
    /\ sbomFile' \in [Formats -> Files]
    /\ \E first \in Formats :
         /\ sbomFile'[first] = "absent" => \A f \in Formats : sbomFile'[f] = "absent"
         /\ step' = IF sbomFile'[first] = "whole" /\ file = "whole" /\ bomFormat = "CycloneDX"
                    THEN "analyse" ELSE "failed"
    /\ UNCHANGED <<scan, reconcile, bomFormat, sbom, report>>

(* The SBOM that is assessed: the one in CycloneDX if there is one.        *)
Assessed == IF sbomFile["cyclonedx"] # "absent" THEN "cyclonedx" ELSE "spdx"

(* An SBOM that cannot be read counts as one without dependencies.         *)
Read(deps) == IF sbomFile[Assessed] = "whole" THEN deps ELSE <<>>

(* A vendor's CBOM may have been put beside it. *)
Analyse ==
    /\ step = "analyse"
    /\ step' = "publish"
    /\ sbom' \in Sboms
    /\ \E upstream \in Upstreams : report' = Analysis!Report(cbom, Read(sbom'), upstream)
    /\ UNCHANGED <<scan, reconcile, bomFormat, sbomFile>>

Publish ==
    /\ step = "publish"
    /\ step' = "published"
    /\ UNCHANGED <<scan, reconcile, result>>

Done == step \in {"published", "failed"} /\ UNCHANGED vars

Next ==
    \/ GeneratorFails \/ Generate
    \/ ScanLine \/ EndScan \/ RejectCbom
    \/ Reconcile \/ EndReconcile
    \/ Verify
    \/ Analyse
    \/ Publish
    \/ Done

Spec == Init /\ [][Next]_vars

-----------------------------------------------------------------------------
RowsWith(loc) == {class \in Analysis!Classes :
                    \E comp \in report.rows[class] : loc \in comp.occ}

(* A published report shows the calls that the scanner is held to, each at *)
(* its location and in the table of its class, whatever the generator      *)
(* wrote: no docstring and no block comment that the scanner follows       *)
(* swallows code after it.  It is not held to calls behind a comment, a    *)
(* printing statement or the end of a string on the same line, nor to what *)
(* comes after a line that misleads it.                                    *)
CallsReported ==
    step = "published" =>
        \A c \in due : Analysis!ClassOf(c.name) \in RowsWith(c.loc)

(* A location that a published report shows holds a call of that class, or *)
(* a mention that the scanner takes for one: behind code on the same line, *)
(* in a docstring of one line, or after a line that misleads it.  Nothing  *)
(* that a comment or a docstring of its own lines says becomes a finding.  *)
NothingInvented ==
    step = "published" =>
        \A loc \in 1..MaxLines : \A class \in RowsWith(loc) :
            \E c \in calls \cup excused : c.loc = loc /\ Analysis!ClassOf(c.name) = class

(* A report rates the audit HIGH only if at most 20.05 % of the            *)
(* dependencies and the code itself have no verified profile, however many *)
(* assets and versions the dependencies have, and it accounts for all of   *)
(* these although it lists the first ones only: the threshold is 80 %, and *)
(* a score of 79.95 % is rounded up to it.  It calls itself first-party    *)
(* only where the code has no dependencies, or where the SBOM that is      *)
(* assessed cannot be read and the harness has checked the other one.      *)
RatingEarned ==
    report # None =>
        /\ report.rating = "HIGH" =>
             2000 * (Cardinality(report.blind) + report.more) <= 401 * (Len(sbom) + 1)
        /\ report.rating = "FirstPartyOnly" =>
             \/ sbom = <<>>
             \/ sbomFile["cyclonedx"] = "broken" /\ sbomFile["spdx"] = "whole"
=============================================================================
