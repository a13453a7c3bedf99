---------------------------- MODULE CbomAnalysis ----------------------------
(***************************************************************************)
(* analyze_cbom.py: the assessment of a CBOM and of the dependencies an    *)
(* SBOM lists, as operators on them.                                       *)
(***************************************************************************)
EXTENDS Integers, Sequences, FiniteSets, Functions

CONSTANTS
    PostQuantum,  \* names a post-quantum pattern matches
    Vulnerable,   \* names a quantum-vulnerable pattern matches
    CoveredBy,    \* name of an upstream component -> the dependencies whose
                  \* package or name it matches
    Catalog,      \* known profiles in the order they are tried: the dependencies
                  \* each one covers and the classes of its crypto assets
    MaxListed     \* unassimilated dependencies that the report lists (15)

Classes == {"pqc", "vulnerable", "symmetric"}

ClassOf(name) ==
    CASE name \in PostQuantum -> "pqc"
      [] name \in Vulnerable \ PostQuantum -> "vulnerable"
      [] OTHER -> "symmetric"

(* Components of an upstream CBOM become profiles, tried after the known   *)
(* ones: one that is no cryptographic asset vouches that there is none.    *)
LoadCatalog(upstream) ==
    Catalog \o [i \in DOMAIN upstream |->
                  [covers |-> CoveredBy[upstream[i].name],
                   assets |-> IF upstream[i].crypto THEN <<ClassOf(upstream[i].name)>> ELSE <<>>]]

(* The profile of a dependency: the first one that covers it, if any does. *)
ProfileOf(dep, profiles) ==
    {i \in DOMAIN profiles : /\ dep \in profiles[i].covers
                             /\ \A j \in 1..(i - 1) : dep \notin profiles[j].covers}

AssetsOf(dep, profiles) == UNION {Range(profiles[i].assets) : i \in ProfileOf(dep, profiles)}

-----------------------------------------------------------------------------
(* The tables of the report *)

(* Components of a post-quantum or vulnerable name are listed whatever     *)
(* they are, the others only if they are cryptographic assets.             *)
Listed(comp, class) ==
    /\ ClassOf(comp.name) = class
    /\ class = "symmetric" => comp.crypto

(* The table of a class has its components with their occurrences and the  *)
(* dependencies (by their places in the SBOM) with an asset of the class.  *)
FirstParty(cbom, class) == {comp \in Range(cbom) : Listed(comp, class)}
ThirdParty(sbom, ps, class) == {i \in DOMAIN sbom : class \in AssetsOf(sbom[i], ps)}

-----------------------------------------------------------------------------
(* The confidence in the audit *)

WithAssets(sbom, ps) == {dep \in Range(sbom) : AssetsOf(dep, ps) # {}}
Inert(sbom, ps) == {i \in DOMAIN sbom : ProfileOf(sbom[i], ps) # {} /\ AssetsOf(sbom[i], ps) = {}}
Unassimilated(sbom, ps) == {i \in DOMAIN sbom : ProfileOf(sbom[i], ps) = {}}

(* Faulty: assets counted where the dependencies that have them should be. *)
VerifiedAssets(sbom, ps) ==
    Cardinality({pair \in Range(sbom) \X Classes : pair[2] \in AssetsOf(pair[1], ps)})
      + Cardinality(Inert(sbom, ps))

(* Dependencies with assets count once per name, inert ones each time. *)
Verified(sbom, ps) == Cardinality(WithAssets(sbom, ps)) + Cardinality(Inert(sbom, ps))

(* round(n / d * 100, 1) in tenths of a percent. *)
Tenths(n, d) == (2000 * n + d) \div (2 * d)

(* The first-party code counts as one more verified dependency. *)
Score(sbom, ps) == IF sbom = <<>> THEN 1000
                   ELSE Tenths(Verified(sbom, ps) + 1, Len(sbom) + 1)

(* "HIGH (First-Party Only)" where there are no dependencies. *)
Rating(sbom, score) ==
    CASE sbom = <<>> -> "FirstPartyOnly"
      [] sbom # <<>> /\ score >= 800 -> "HIGH"
      [] sbom # <<>> /\ score \in 500..799 -> "MEDIUM"
      [] OTHER -> "LOW"

(* The first of a set of places, up to as many as are listed. *)
FirstOf(places) == {i \in places : Cardinality({j \in places : j < i}) < MaxListed}

(* The report of a CBOM and an SBOM, with an upstream CBOM. *)
Report(cbom, sbom, upstream) ==
    LET ps    == LoadCatalog(upstream)
        blind == Unassimilated(sbom, ps)
    IN  [rows   |-> [class \in Classes |-> FirstParty(cbom, class)],
         deps   |-> [class \in Classes |-> ThirdParty(sbom, ps, class)],
         blind  |-> FirstOf(blind),
         more   |-> Cardinality(blind) - Cardinality(FirstOf(blind)),
         rating |-> Rating(sbom, Score(sbom, ps))]
=============================================================================
