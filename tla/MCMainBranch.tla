---------------------------- MODULE MCMainBranch ----------------------------
(* Bounded instances of MainBranch for TLC. *)
EXTENDS MainBranch

BumpOnly == {"version"}
Both     == {"version", "report"}   \* auto-bump-version.yml and sbom-cbom.yml
=============================================================================
