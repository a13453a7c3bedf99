-------------------------- MODULE MCAuditPipeline ---------------------------
(* Instances of AuditPipeline: a file with calls to two rules' names, with *)
(* comments and strings that the scanner follows and some that mislead it. *)
EXTENDS AuditPipeline

TwoRules == {"RSA-2048", "AES-256-GCM"}
AllNames == TwoRules \cup {"AES", "RSA"}
BaseOf   == [n \in AllNames |-> IF n \in {"RSA-2048", "RSA"} THEN "RSA" ELSE "AES"]
Parts    == {<<n, n>> : n \in AllNames} \cup {<<"RSA", "RSA-2048">>, <<"AES", "AES-256-GCM">>}

Code    == {<<lg, "code", l>> : lg \in {"py", "c"},
                                l \in {<<"RSA-2048">>, <<"RSA-2048", "AES-256-GCM">>}}
Prints  == {<<"py", "code", <<"print", "RSA-2048">>>>}
Remarks == {<<"py", "code", <<"hash", "RSA-2048">>>>, <<"c", "code", <<"slashes", "RSA-2048">>>>}
Docs    == {<<"py", "code", <<q, "RSA-2048">>>> : q \in {"dq", "sq"}}
              \cup {<<"py", q, <<"text", q>>>> : q \in {"dq", "sq"}}
              \cup {<<"py", "dq", <<"text", "sq", "RSA-2048">>>>}
              \cup {<<"py", "code", <<"dq", "text", "dq">>>>}
Blocks  == {<<"c", "code", <<"open", "RSA-2048">>>>,
            <<"c", "code", <<"open", "RSA-2048", "close">>>>,
            <<"c", "open", <<"RSA-2048">>>>,
            <<"c", "open", <<"star", "RSA-2048">>>>,
            <<"c", "open", <<"text", "close">>>>}

(* Where what the scanner sees differs from the language: behind code, and *)
(* at the start of a line.                                                 *)
Trailing == {<<"py", "code", <<"AES-256-GCM", "hash", "RSA-2048">>>>,
             <<"c", "code", <<"AES-256-GCM", "slashes", "RSA-2048">>>>,
             <<"py", "code", <<"lit", "RSA-2048", "lit", "AES-256-GCM">>>>,
             <<"py", "code", <<"dq", "RSA-2048", "dq">>>>,
             <<"py", "code", <<"print", "lit", "table", "RSA-2048", "lit">>>>,
             <<"py", "code", <<"text", "table", "RSA-2048">>>>}
Missed   == {<<"c", "code", <<"open", "close", "AES-256-GCM">>>>,
             <<"c", "open", <<"close", "AES-256-GCM">>>>,
             <<"py", "dq", <<"dq", "AES-256-GCM">>>>,
             <<"c", "code", <<"star", "AES-256-GCM">>>>}
Misled   == {<<"py", "code", <<"AES-256-GCM", "dq">>>>,
             <<"c", "code", <<"AES-256-GCM", "open", "RSA-2048">>>>,
             <<"py", "code", <<"dq", "dq", "dq">>>>,
             <<"py", "dq", <<"dq", "text", "sq">>>>,
             <<"c", "code", <<"dq">>>>}

AllLines == Code \cup Prints \cup Remarks \cup Docs \cup Blocks
              \cup Trailing \cup Missed \cup Misled

TwoProfiles == <<[covers |-> {"tomcat"}, assets |-> <<"vulnerable", "symmetric">>],
                 [covers |-> {"slf4j", "tomcat"}, assets |-> <<>>]>>
OtherCovered == [n \in {"other"} |-> {"other"}]
OtherVouched == {<<>>, <<[name |-> "other", crypto |-> FALSE]>>, <<[name |-> "other", crypto |-> TRUE]>>}

(* Up to three dependencies; a name that comes twice comes in two versions. *)
(* Their order makes no difference to the report.                          *)
Repeat(dep, n) == [i \in 1..n |-> dep]
SmallSboms == {Repeat("tomcat", n[1]) \o Repeat("slf4j", n[2]) \o Repeat("other", n[3]) :
                 n \in {m \in (0..3) \X (0..3) \X (0..3) : m[1] + m[2] + m[3] <= 3}}
=============================================================================
