------------------------- MODULE MCBomDistribution --------------------------
(* A publisher and a host that fetches what was published. *)
EXTENDS BomDistribution

CONSTANTS publisher, user

Both     == {publisher, user}
AsUsed   == {"below"}   \* attach_oci_bom.sh -c oss/cbom.json ...
=============================================================================
