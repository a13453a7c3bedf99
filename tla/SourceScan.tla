----------------------------- MODULE SourceScan -----------------------------
(***************************************************************************)
(* scan_source_files of scan_crypto_ast.py reading one source file line by *)
(* line, beside the lexical structure of the file in its own language.     *)
(*                                                                         *)
(* A stripped line is a sequence of tokens: the marks the scanner looks    *)
(* for and, for each call a rule matches, the name the rule gives.  Other  *)
(* text is "text" where it keeps a mark from being the first, and left     *)
(* out elsewhere.                                                          *)
(***************************************************************************)
EXTENDS Integers, Sequences, FiniteSets, Functions

CONSTANTS
    RuleNames,   \* names the rules give to the calls they match
    Layouts,     \* <<language, mode, line>>: the lines a file may have in a mode
    MaxLines     \* bound: lines of a file

Languages == {"py", "c"}   \* lexical families: Python; Java, JS, C, Go, ...
Quotes    == {"dq", "sq"}  \* the two triple quotes
Remarks   == {"hash", "slashes"}
Marks     == Quotes \cup Remarks \cup {"open", "close", "star", "lit", "print", "table", "text"}
Lasting   == Quotes \cup {"open"}   \* strings and comments of several lines

VARIABLES
    lang,   \* language of the file
    line,   \* lines read
    delim,  \* scanner: the delimiter it waits for, or "none"
    found,  \* call sites the scanner has reported
    mode,   \* language: "code" or the mark of the string or comment it is in
    calls,  \* calls the file contains
    astray, \* history: the scanner may have lost track of strings and comments
    due,    \* history: the calls that the scanner is held to
    excused \* history: mentions outside code that it takes for calls

scanner  == <<delim, found>>
language == <<mode, calls>>
history  == <<astray, due, excused>>
vars     == <<lang, line, scanner, language, history>>

Site(name) == [loc |-> line + 1, name |-> name]

TypeOK ==
    /\ lang \in Languages
    /\ line \in 0..MaxLines
    /\ delim \in Quotes \cup {"close", "none"}
    /\ mode \in Lasting \cup {"code"}
    /\ astray \in BOOLEAN
    /\ {found, calls, due, excused} \subseteq SUBSET [loc : 1..MaxLines, name : RuleNames]

Init ==
    /\ lang \in Languages
    /\ line = 0
    /\ delim = "none" /\ found = {}
    /\ mode = "code"  /\ calls = {}
    /\ astray = FALSE /\ due = {} /\ excused = {}

-----------------------------------------------------------------------------
(* The language *)

(* The marks that open a string or a comment, and the mark that closes it. *)
(* "lit" is the quote of an ordinary string.                               *)
Opening    == [py |-> Quotes \cup {"lit", "hash"}, c |-> {"lit", "open", "slashes"}]
Closing(d) == IF d = "open" THEN "close" ELSE d

(* How a token changes the mode; "rest" is a comment up to the end of line. *)
After(m, t) ==
    CASE m = "code" /\ t \in Opening[lang] -> IF t \in Remarks THEN "rest" ELSE t
      [] m \in Lasting \cup {"lit"} /\ t = Closing(m) -> "code"
      [] OTHER -> m

(* The mode after each token of a line. *)
Modes(l) == LET m[i \in 0..Len(l)] == IF i = 0 THEN mode ELSE After(m[i - 1], l[i])
            IN  m

(* Names in code are calls, others are mentions. *)
CallsOn(l)    == {Site(l[i]) : i \in {k \in DOMAIN l : l[k] \in RuleNames /\ Modes(l)[k - 1] = "code"}}
MentionsOn(l) == {Site(l[i]) : i \in {k \in DOMAIN l : l[k] \in RuleNames /\ Modes(l)[k - 1] # "code"}}

Lex(l) ==
    /\ calls' = calls \cup CallsOn(l)
    /\ mode' = IF Modes(l)[Len(l)] \in Lasting THEN Modes(l)[Len(l)] ELSE "code"

-----------------------------------------------------------------------------
(* The scanner *)

First(l)    == IF l = <<>> THEN "text" ELSE Head(l)
Count(l, t) == Cardinality({i \in DOMAIN l : l[i] = t})

Unreported(d) == delim' = d /\ UNCHANGED found

(* Waiting for a delimiter: the line that has it is skipped as well. *)
SkipWithin(l) ==
    /\ delim # "none"
    /\ Unreported(IF delim \in Range(l) THEN "none" ELSE delim)

(* Faulty: a docstring that closes on its line is taken for an open one. *)
OpensAnyDocstring(l) == First(l) \in Quotes

(* A docstring that opens and does not close on its line. *)
OpensDocstring(l) == First(l) \in Quotes /\ Count(l, First(l)) < 2

SkipDocstring(l) ==
    /\ delim = "none"
    /\ OpensDocstring(l)
    /\ Unreported(First(l))

(* Faulty: the scanner does not wait for the end of a block comment. *)
SkipBlockLine(l) == delim = "none" /\ First(l) = "open" /\ Unreported("none")

SkipBlock(l) ==
    /\ delim = "none"
    /\ First(l) = "open"
    /\ Unreported(IF "close" \in Range(l) THEN "none" ELSE "close")

(* Comments of one line and what looks like the inside of a block comment; *)
(* what NON_CALL_PATTERNS match at the start of a line ("print") or        *)
(* anywhere on it ("table").                                               *)
Passed(l) == First(l) \in Remarks \cup {"star", "close", "print"} \/ "table" \in Range(l)

SkipLine(l) ==
    /\ delim = "none"
    /\ ~OpensDocstring(l) /\ First(l) # "open"
    /\ Passed(l)
    /\ Unreported("none")

(* Faulty: lines are counted from 0. *)
ReportFromZero(l) ==
    /\ delim = "none"
    /\ ~OpensDocstring(l) /\ First(l) # "open"
    /\ ~Passed(l)
    /\ found' = found \cup {[loc |-> line, name |-> n] : n \in Range(l) \cap RuleNames}
    /\ UNCHANGED delim

Report(l) ==
    /\ delim = "none"
    /\ ~OpensDocstring(l) /\ First(l) # "open"
    /\ ~Passed(l)
    /\ found' = found \cup {Site(n) : n \in Range(l) \cap RuleNames}
    /\ UNCHANGED delim

Scan(l) == \/ SkipWithin(l)
           \/ SkipDocstring(l)
           \/ SkipBlock(l)
           \/ SkipLine(l)
           \/ Report(l)

-----------------------------------------------------------------------------
(* What the scanner can be held to: it looks at how a line starts, and     *)
(* follows a string or comment of several lines only if it opens there.    *)

(* A line that starts like a string or a comment that is none in its       *)
(* language, or that leaves one open which was not open from its start.    *)
Misleads(l) ==
    \/ mode = "code" /\ First(l) \in Lasting \ Opening[lang]
    \/ /\ Modes(l)[Len(l)] \in Lasting
       /\ \E i \in DOMAIN l : Modes(l)[i] \notin Lasting

(* A line that starts with what the scanner can tell from a comment, and   *)
(* that it does not pass over.                                             *)
StartsInCode(l) == mode = "code" /\ First(l) \notin Lasting /\ ~Passed(l)

(* A string in triple quotes that closes on the line it opens on. *)
OneLineDocstring(l) ==
    mode = "code" /\ First(l) \in Quotes /\ \E i \in 2..Len(l) : l[i] = First(l)

Judge(l) ==
    /\ astray' = (astray \/ Misleads(l))
    /\ due' = due \cup (IF StartsInCode(l) /\ ~astray THEN CallsOn(l) ELSE {})
    /\ excused' = excused \cup (IF StartsInCode(l) \/ OneLineDocstring(l) \/ astray
                                THEN MentionsOn(l) ELSE {})

-----------------------------------------------------------------------------
ReadLine(l) ==
    /\ line < MaxLines
    /\ <<lang, mode, l>> \in Layouts
    /\ Scan(l)
    /\ Lex(l)
    /\ Judge(l)
    /\ line' = line + 1
    /\ UNCHANGED lang

Next == \E layout \in Layouts : ReadLine(layout[3])

Spec == Init /\ [][Next]_vars
=============================================================================
