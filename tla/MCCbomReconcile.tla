-------------------------- MODULE MCCbomReconcile --------------------------
(* Instances of CbomReconcile with names of the scanner's rules and names  *)
(* a generator gives to components.                                        *)
EXTENDS CbomReconcile

AllNames  == {"SHA-3", "SHA-384", "AES", "AES-256-GCM"}
RulesOnly == {"SHA-3", "SHA-384", "AES-256-GCM"}
BaseOf    == [n \in AllNames |-> IF n \in {"SHA-3", "SHA-384"} THEN "SHA" ELSE "AES"]
Parts     == {<<n, n>> : n \in AllNames} \cup {<<"SHA-3", "SHA-384">>, <<"AES", "AES-256-GCM">>}
StartSha3 == {"SHA-3", "SHA-384"}
=============================================================================
