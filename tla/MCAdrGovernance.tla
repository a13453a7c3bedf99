-------------------------- MODULE MCAdrGovernance ---------------------------
(* Instances of AdrGovernance: two files that claim number 1 and a record  *)
(* that supersedes the first; a service that needs no ADR and a page that  *)
(* needs one for a keyword.                                                *)
EXTENDS AdrGovernance, TLC

Doc(supersedes, by) == [sections |-> TRUE, supersedes |-> supersedes, by |-> by]

ThreeFiles == <<"0001-a", "0001-b", "0002-c">>
Three      == {"0001-a", "0001-b", "0002-c"}
TwoCodes   == {"service", "page"}
OneTemplate == {"template"}
Numbers    == [f \in Three |-> IF f = "0002-c" THEN 2 ELSE 1]
BlockNames == [f \in Three |-> CASE f = "0001-a" -> "block 1a" [] f = "0001-b" -> "block 1b" [] f = "0002-c" -> "block 2c"]
RowNames   == [f \in Three |-> CASE f = "0001-a" -> "row 1a" [] f = "0001-b" -> "row 1b" [] f = "0002-c" -> "row 2c"]
FewDocs    == [f \in Three |-> CASE f = "0001-a" -> {Doc(0, 0), Doc(0, 2)}
                                 [] f = "0001-b" -> {Doc(0, 0)}
                                 [] f = "0002-c" -> {Doc(1, 0)}]
Weights    == [f \in TwoCodes |-> IF f = "service" THEN 15 ELSE 0]
Keywords   == [f \in TwoCodes |-> IF f = "page" THEN {"REST"} ELSE {}]
RuleWeights == [r \in {"REST"} |-> 30]

(* Main starts with record 1, for which its index is right, or also with   *)
(* the record that supersedes it, which adr_index.json lacks.              *)
Record1  == [f \in Files |-> IF f = "0001-a" THEN Doc(0, 2) ELSE Absent]
Indexed1 == Reindexed(Record1, Absent)
Start == {Indexed1, [Indexed1 EXCEPT !["0002-c"] = Doc(1, 0), !["row 2c"] = InRow(Doc(1, 0))]}
Symmetry == Permutations(PRs) \cup Permutations(Days)
=============================================================================
