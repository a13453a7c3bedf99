--------------------------- MODULE CbomReconcile ---------------------------
(***************************************************************************)
(* scan_crypto_ast.py against a CBOM that lives on disk: the generator     *)
(* that writes the CBOM, runs that scan the code and reconcile the call    *)
(* sites they find with it, and runs that are killed.  The code may be     *)
(* edited between two runs: each finds any sites.                          *)
(*                                                                         *)
(* Names are the upper-case names of components.  How two names relate is  *)
(* given by Base (what precedes the first "-"), Within (one is a substring *)
(* of the other) and Sha3 (those that start with "SHA-3").                 *)
(***************************************************************************)
EXTENDS Integers, Sequences, FiniteSets

CONSTANTS
    Names,         \* names of components
    RuleNames,     \* names the scanner's rules give to the sites they find
    Base,          \* name -> what precedes its first "-"
    Within,        \* <<m, n>>: m is a substring of n
    Sha3,          \* names starting with "SHA-3"
    Locations,     \* file and line
    Kinds,         \* of generated components: TRUE for a cryptographic asset
    MaxGenerated,  \* bound: components of a generated CBOM
    MaxSites       \* bound: call sites in the code

ASSUME NamesAssumption == RuleNames \subseteq Names
ASSUME KindsAssumption == Kinds \subseteq BOOLEAN

Sites      == [loc : Locations, name : RuleNames]
Components == [name : Names, crypto : BOOLEAN, occ : SUBSET Locations]

(* What a scan may find. *)
Codes == {sites \in SUBSET Sites : Cardinality(sites) <= MaxSites}

(* What the generator may write: components without line numbers, which    *)
(* are cryptographic assets or, from some generators, libraries.           *)
Generated == UNION {[1..n -> [name : Names, crypto : Kinds, occ : {{}}]] : n \in 0..MaxGenerated}

VARIABLES
    file,     \* oss/cbom.json: "absent", "broken" (not JSON) or "whole"
    cbom,     \* the components in it, if it is whole
    pc,       \* where the run is
    scanned,  \* the call sites it has found
    todo,     \* those it has still to reconcile
    comps,    \* the components it holds in memory
    loaded,   \* history: the components it loaded
    settled   \* history: the sites of the last run that wrote what was generated

run  == <<scanned, todo, comps, loaded>>
disk == <<file, cbom>>
vars == <<disk, pc, run, settled>>

TypeOK ==
    /\ file \in {"absent", "broken", "whole"}
    /\ cbom \in Seq(Components)
    /\ pc \in {"idle", "reconciling", "writing"}
    /\ scanned \subseteq Sites
    /\ todo \subseteq scanned
    /\ comps \in Seq(Components)
    /\ loaded \in Seq(Components)
    /\ settled \subseteq Sites

Init ==
    /\ file = "absent"
    /\ cbom = <<>>
    /\ pc = "idle"
    /\ scanned = {} /\ todo = {}
    /\ comps = <<>> /\ loaded = <<>>
    /\ settled = {}

(* The run's memory goes with its process. *)
End == /\ pc' = "idle"
       /\ scanned' = {} /\ todo' = {}
       /\ comps' = <<>> /\ loaded' = <<>>

-----------------------------------------------------------------------------
(* Matching a site's name with the components *)

Matches(candidate, existing) ==
    \/ candidate = existing
    \/ /\ ~({candidate, existing} \subseteq Sha3)
       /\ Base[candidate] = Base[existing]
       /\ <<candidate, existing>> \in Within \/ <<existing, candidate>> \in Within

(* comp_map is a dict: it keeps its keys in the order in which they were   *)
(* first inserted, and with each the last component inserted.              *)
FirstMatch(cs, n) == {i \in DOMAIN cs : /\ Matches(n, cs[i].name)
                                        /\ \A j \in 1..(i - 1) : ~Matches(n, cs[j].name)}

(* Faulty: a new component is not entered in comp_map. *)
FindLoadedComp(cs, n) ==
    {k \in DOMAIN loaded : \E i \in FirstMatch(cs, n) :
        /\ cs[k].name = cs[i].name
        /\ \A l \in DOMAIN loaded : l > k => cs[l].name # cs[i].name}

FindMatchingComp(cs, n) ==
    {k \in DOMAIN cs : \E i \in FirstMatch(cs, n) :
        /\ cs[k].name = cs[i].name
        /\ \A l \in DOMAIN cs : l > k => cs[l].name # cs[i].name}

-----------------------------------------------------------------------------
(* What happens around the runs *)

Generate(cs) ==
    /\ pc = "idle"
    /\ file' = "whole"
    /\ cbom' = cs
    /\ settled' = {}
    /\ UNCHANGED <<pc, run>>

(* The run is killed, or its write fails. *)
Kill ==
    /\ pc # "idle"
    /\ End
    /\ UNCHANGED <<disk, settled>>

-----------------------------------------------------------------------------
(* A run *)

(* A CBOM that cannot be parsed ends the run before it has changed anything. *)
Start(sites) ==
    /\ pc = "idle"
    /\ file # "broken"
    /\ pc' = "reconciling"
    /\ scanned' = sites
    /\ todo' = sites
    /\ comps' = IF file = "absent" THEN <<>> ELSE cbom
    /\ loaded' = comps'
    /\ UNCHANGED <<disk, settled>>

(* Faulty: a new component is named for the base of the site's name. *)
NewComponentOfBase(s) == [name |-> Base[s.name], crypto |-> TRUE, occ |-> {s.loc}]

NewComponent(s) == [name |-> s.name, crypto |-> TRUE, occ |-> {s.loc}]

(* Faulty: an occurrence is left out if any component has it. *)
RecordOnce(s) ==
    \/ /\ FindMatchingComp(comps, s.name) = {}
       /\ comps' = Append(comps, NewComponent(s))
    \/ \E k \in FindMatchingComp(comps, s.name) :
         comps' = IF \E i \in DOMAIN comps : s.loc \in comps[i].occ
                  THEN comps
                  ELSE [comps EXCEPT ![k].occ = @ \cup {s.loc}]

Record(s) ==
    \/ /\ FindMatchingComp(comps, s.name) = {}
       /\ comps' = Append(comps, NewComponent(s))
    \/ \E k \in FindMatchingComp(comps, s.name) :
         comps' = [comps EXCEPT ![k].occ = @ \cup {s.loc}]

(* The sites come in whatever order the tree is walked. *)
ReconcileSite(s) ==
    /\ pc = "reconciling"
    /\ s \in todo
    /\ todo' = todo \ {s}
    /\ Record(s)
    /\ UNCHANGED <<disk, pc, scanned, loaded, settled>>

(* Opening the file for writing truncates it. *)
BeginWrite ==
    /\ pc = "reconciling"
    /\ todo = {}
    /\ pc' = "writing"
    /\ file' = "broken"
    /\ cbom' = <<>>
    /\ UNCHANGED <<run, settled>>

EndWrite ==
    /\ pc = "writing"
    /\ End
    /\ file' = "whole"
    /\ cbom' = comps
    /\ settled' = scanned

Next ==
    \/ \E cs \in Generated : Generate(cs)
    \/ \E sites \in Codes : Start(sites)
    \/ \E s \in Sites : ReconcileSite(s)
    \/ BeginWrite
    \/ EndWrite
    \/ Kill

Spec == Init /\ [][Next]_vars

-----------------------------------------------------------------------------
Covers(cs, s) == \E i \in DOMAIN cs : s.loc \in cs[i].occ /\ Matches(s.name, cs[i].name)

(* A CBOM that a run has written holds each call site that run found,      *)
(* under a component that matches it, whatever components the CBOM had     *)
(* before, in whatever order the sites came, and however many earlier runs *)
(* were killed.                                                            *)
SitesCovered == file = "whole" => \A s \in settled : Covers(cbom, s)

(* A run that finds the sites the run before it found writes back what it  *)
(* loaded: no component and no occurrence is added twice.                  *)
RepeatChangesNothing == pc = "writing" /\ scanned = settled => comps = loaded
=============================================================================
