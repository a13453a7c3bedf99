------------------------ MODULE AuditPipelineProofs -------------------------
(***************************************************************************)
(* Proofs about AuditPipeline, for any rules, any source file, any         *)
(* components of the generator and any dependencies.                       *)
(*                                                                         *)
(* The argument has three parts.  Reading a line leaves the scanner and    *)
(* the language in step (LineInStep): until a line misleads it the scanner *)
(* waits for a delimiter exactly where a string or a comment is open       *)
(* (FollowsInside, FollowsCode), and so finds the calls it is held to and  *)
(* nothing that is neither a call nor excused.  Reconciling the sites      *)
(* makes each of them covered and adds no other (RecordEffect).  The       *)
(* report then lists what the CBOM holds.                                  *)
(***************************************************************************)
EXTENDS AuditPipeline, FiniteSetTheorems, WellFoundedInduction, TLAPS

USE DEF Scan!Quotes, Scan!Remarks, Scan!Marks

Tokens == RuleNames \cup Scan!Marks

(* A nonempty set of numbers has a least one. *)
LEMMA Least ==
    ASSUME NEW T, T \subseteq Nat, T # {}
    PROVE  \E m \in T : \A k \in T : m <= k
<1> DEFINE R == OpToRel(<, Nat)
<1>1. IsWellFoundedOn(R, Nat)
  BY NatLessThanWellFounded, Zenon
<1>2. PICK m \in T : \A k \in T : ~(<<k, m>> \in R)
  BY <1>1, WFMin, Zenon
<1>3. \A k \in T : ~(k < m)
  BY <1>2 DEF OpToRel
<1> QED
  BY <1>3

(* The library's operators mean the same in every module. *)
LEMMA SameOperators ==
    /\ \A f : Scan!Range(f) = Range(f) /\ Analysis!Range(f) = Range(f)
    /\ \A S : Scan!Cardinality(S) = Cardinality(S) /\ Analysis!Cardinality(S) = Cardinality(S)
<1>1. \A f : Scan!Range(f) = Range(f) /\ Analysis!Range(f) = Range(f)
  BY DEF Scan!Range, Analysis!Range, Range
<1>2. \A S : Scan!Cardinality(S) = Cardinality(S) /\ Analysis!Cardinality(S) = Cardinality(S)
  BY Zenon DEF Scan!Cardinality, Analysis!Cardinality, Cardinality
<1> QED
  BY <1>1, <1>2

-----------------------------------------------------------------------------
(* Modes along a line *)

(* The recursion that defines Modes has a solution for lines of any length. *)
LEMMA ModesExist ==
    ASSUME NEW l
    PROVE  \A n \in Nat : \E m :
             m = [i \in 0..n |-> IF i = 0 THEN mode ELSE Scan!After(m[i - 1], l[i])]
<1> DEFINE Solved(n) ==
      \E m : m = [i \in 0..n |-> IF i = 0 THEN mode ELSE Scan!After(m[i - 1], l[i])]
<1> DEFINE Unsolved == {n \in Nat : ~Solved(n)}
<1> SUFFICES ASSUME Unsolved # {} PROVE FALSE
  OBVIOUS
<1>1. PICK n \in Unsolved : \A k \in Unsolved : n <= k
  <2>1. Unsolved \subseteq Nat
    OBVIOUS
  <2> HIDE DEF Unsolved
  <2> QED BY <2>1, Least
<1>2. CASE n = 0
  <2> DEFINE m == [i \in 0..n |-> mode]
  <2>1. m = [i \in 0..n |-> IF i = 0 THEN mode ELSE Scan!After(m[i - 1], l[i])]
    BY <1>2
  <2> QED BY <2>1, <1>1
<1>3. CASE n # 0
  <2>1. n \in Nat /\ n - 1 \in Nat /\ n - 1 \notin Unsolved
    BY <1>1, <1>3
  <2>2. PICK p : p = [i \in 0..(n - 1) |-> IF i = 0 THEN mode ELSE Scan!After(p[i - 1], l[i])]
    BY <2>1
  <2> DEFINE m == [i \in 0..n |-> IF i = n THEN Scan!After(p[n - 1], l[n]) ELSE p[i]]
  <2>3. \A i \in 0..n : m[i] = IF i = 0 THEN mode ELSE Scan!After(m[i - 1], l[i])
    <3> SUFFICES ASSUME NEW i \in 0..n
                 PROVE  m[i] = IF i = 0 THEN mode ELSE Scan!After(m[i - 1], l[i])
      OBVIOUS
    <3>1. CASE i = n
      <4>1. m[i - 1] = p[i - 1]
        BY <3>1, <2>1, <1>3
      <4> QED BY <3>1, <4>1, <1>3
    <3>2. CASE i # n /\ i # 0
      <4>1. i \in 0..(n - 1) /\ i - 1 \in 0..n /\ i - 1 # n
        BY <3>2, <2>1
      <4>2. m[i] = p[i] /\ m[i - 1] = p[i - 1]
        BY <4>1, <3>2
      <4>3. p[i] = IF i = 0 THEN mode ELSE Scan!After(p[i - 1], l[i])
        BY <4>1, <2>2
      <4> QED BY <4>2, <4>3
    <3>3. CASE i = 0
      <4>1. i \in 0..(n - 1) /\ i # n
        BY <3>3, <2>1, <1>3
      <4>2. p[i] = mode
        BY <4>1, <3>3, <2>2
      <4> QED BY <4>1, <4>2, <3>3
    <3> QED BY <3>1, <3>2, <3>3
  <2>4. m = [i \in 0..n |-> IF i = 0 THEN mode ELSE Scan!After(m[i - 1], l[i])]
    BY <2>3
  <2>5. Solved(n)
    BY <2>4
  <2> QED BY <2>5, <1>1
<1> QED
  BY <1>2, <1>3

(* The mode before the first token is that of the file, and each token     *)
(* changes it.                                                             *)
LEMMA ModesStep ==
    ASSUME NEW l, Len(l) \in Nat
    PROVE  /\ Scan!Modes(l)[0] = mode
           /\ \A i \in 1..Len(l) : Scan!Modes(l)[i] = Scan!After(Scan!Modes(l)[i - 1], l[i])
<1> DEFINE m == Scan!Modes(l)
<1>1. m = [i \in 0..Len(l) |-> IF i = 0 THEN mode ELSE Scan!After(m[i - 1], l[i])]
  BY ModesExist DEF Scan!Modes
<1> HIDE DEF m
<1>2. m[0] = mode
  BY <1>1
<1>3. \A i \in 1..Len(l) : m[i] = Scan!After(m[i - 1], l[i])
  BY <1>1
<1> QED
  BY <1>2, <1>3 DEF m

(* A mode that no token changes stays. *)
LEMMA ModeStays ==
    ASSUME NEW l, Len(l) \in Nat, NEW a \in 0..Len(l), NEW b \in a..Len(l), NEW m,
           Scan!Modes(l)[a] = m,
           \A i \in (a + 1)..b : Scan!After(m, l[i]) = m
    PROVE  \A i \in a..b : Scan!Modes(l)[i] = m
<1> DEFINE T == {i \in a..b : Scan!Modes(l)[i] # m}
<1> SUFFICES ASSUME T # {} PROVE FALSE
  OBVIOUS
<1>1. PICK i \in T : \A k \in T : i <= k
  <2>1. T \subseteq Nat
    OBVIOUS
  <2> HIDE DEF T
  <2> QED BY <2>1, Least
<1>2. i \in a..b /\ i # a /\ Scan!Modes(l)[i] # m
  BY <1>1
<1>3. i - 1 \in a..b /\ i - 1 \notin T /\ i \in (a + 1)..b /\ i \in 1..Len(l)
  BY <1>1, <1>2
<1>4. Scan!Modes(l)[i - 1] = m
  BY <1>3
<1>5. Scan!Modes(l)[i] = Scan!After(m, l[i])
  BY <1>3, <1>4, ModesStep
<1> QED
  BY <1>2, <1>3, <1>5

(* A string or comment that is open after the token at a stays open if its *)
(* closing mark does not come again on the line.                           *)
LEMMA StaysOpen ==
    ASSUME NEW l, Len(l) \in Nat, NEW a \in 0..Len(l), NEW d \in Scan!Lasting,
           Scan!Modes(l)[a] = d, \A i \in (a + 1)..Len(l) : l[i] # Scan!Closing(d)
    PROVE  Scan!Modes(l)[Len(l)] = d
<1>1. \A t : t # Scan!Closing(d) => Scan!After(d, t) = d
  BY DEF Scan!After, Scan!Lasting
<1>2. \A i \in (a + 1)..Len(l) : Scan!After(d, l[i]) = d
  BY <1>1
<1>3. Len(l) \in a..Len(l)
  OBVIOUS
<1>4. \A i \in a..Len(l) : Scan!Modes(l)[i] = d
  BY <1>2, <1>3, ModeStays, SMTT(30)
<1> QED
  BY <1>3, <1>4

(* If the mark does come again, the line is in code after it.              *)
LEMMA Closes ==
    ASSUME NEW l, Len(l) \in Nat, NEW a \in 0..Len(l), NEW d \in Scan!Lasting,
           Scan!Modes(l)[a] = d, \E i \in (a + 1)..Len(l) : l[i] = Scan!Closing(d)
    PROVE  \E i \in 1..Len(l) : Scan!Modes(l)[i] = "code"
<1> DEFINE T == {i \in (a + 1)..Len(l) : l[i] = Scan!Closing(d)}
<1>1. PICK i \in T : \A k \in T : i <= k
  <2>1. T \subseteq Nat /\ T # {}
    OBVIOUS
  <2> HIDE DEF T
  <2> QED BY <2>1, Least
<1>2. i \in (a + 1)..Len(l) /\ l[i] = Scan!Closing(d)
  BY <1>1
<1>3. i - 1 \in a..Len(l) /\ i \in 1..Len(l)
  BY <1>2
<1>4. \A k \in (a + 1)..(i - 1) : l[k] # Scan!Closing(d)
  <2> SUFFICES ASSUME NEW k \in (a + 1)..(i - 1), l[k] = Scan!Closing(d) PROVE FALSE
    OBVIOUS
  <2>1. k \in T /\ k < i
    BY <1>2
  <2> QED BY <2>1, <1>1, <1>2
<1>5. \A t : t # Scan!Closing(d) => Scan!After(d, t) = d
  BY DEF Scan!After, Scan!Lasting
<1>6. \A k \in (a + 1)..(i - 1) : Scan!After(d, l[k]) = d
  BY <1>4, <1>5
<1>7. \A k \in a..(i - 1) : Scan!Modes(l)[k] = d
  BY <1>3, <1>6, ModeStays, SMTT(30)
<1>8. Scan!Modes(l)[i] = Scan!After(d, l[i])
  BY <1>3, <1>7, ModesStep
<1>9. d # "code" /\ Scan!After(d, Scan!Closing(d)) = "code"
  BY DEF Scan!After, Scan!Lasting
<1> QED
  BY <1>2, <1>3, <1>8, <1>9

(* The mode a line leaves. *)
ModeAfter(l) == IF Scan!Modes(l)[Len(l)] \in Scan!Lasting THEN Scan!Modes(l)[Len(l)] ELSE "code"

(* A line that does not mislead and is in code somewhere ends in code.     *)
LEMMA EndsInCode ==
    ASSUME NEW l \in Seq(Tokens), ~Scan!Misleads(l),
           \E i \in 1..Len(l) : Scan!Modes(l)[i] \notin Scan!Lasting
    PROVE  ModeAfter(l) = "code"
BY DEF Scan!Misleads, ModeAfter

(* A docstring has its mark twice where the mark comes again on its line.  *)
LEMMA MarkCounted ==
    ASSUME NEW l \in Seq(Tokens), NEW d, Scan!First(l) = d, d # "text"
    PROVE  Scan!Count(l, d) < 2 <=> ~\E i \in 2..Len(l) : l[i] = d
<1> DEFINE At == {i \in DOMAIN l : l[i] = d}
<1>1. Len(l) \in Nat /\ DOMAIN l = 1..Len(l) /\ l # <<>> /\ l[1] = d /\ 1 \in 1..Len(l)
  BY DEF Scan!First
<1>2. ASSUME NEW i \in 2..Len(l), l[i] = d PROVE Scan!Count(l, d) >= 2
  <2>1. IsFiniteSet(1..Len(l)) /\ At \in SUBSET (1..Len(l))
    BY <1>1, FS_Interval
  <2>2. {1} \cup {i} \in SUBSET At /\ i \notin {1}
    BY <1>1, <1>2
  <2> HIDE DEF At
  <2>3. IsFiniteSet(At)
    BY <2>1, FS_Subset
  <2>4. IsFiniteSet({1}) /\ Cardinality({1}) = 1
    BY FS_Singleton, Zenon
  <2>5. Cardinality({1} \cup {i}) = Cardinality({1}) + 1
    BY <2>2, <2>4, FS_AddElement, Zenon
  <2>6. Cardinality({1} \cup {i}) <= Cardinality(At)
    BY <2>2, <2>3, FS_Subset, Zenon
  <2>7. Cardinality(At) \in Nat
    BY <2>3, FS_CardinalityType
  <2>8. Cardinality(At) >= 2
    BY <2>4, <2>5, <2>6, <2>7
  <2> QED BY <2>8, SameOperators DEF At, Scan!Count
<1>3. ASSUME ~\E i \in 2..Len(l) : l[i] = d PROVE Scan!Count(l, d) = 1
  <2>1. At = {1}
    BY <1>1, <1>3
  <2>2. Cardinality(At) = 1
    <3> HIDE DEF At
    <3> QED BY <2>1, FS_Singleton
  <2> QED BY <2>2, SameOperators DEF Scan!Count
<1>4. Scan!Count(l, d) \in Nat
  <2>1. IsFiniteSet(1..Len(l)) /\ At \in SUBSET (1..Len(l))
    BY <1>1, FS_Interval
  <2> HIDE DEF At
  <2>2. Cardinality(At) \in Nat
    BY <2>1, FS_Subset, FS_CardinalityType
  <2> QED BY <2>2, SameOperators DEF At, Scan!Count
<1> QED
  BY <1>2, <1>3, <1>4

-----------------------------------------------------------------------------
(* The scanner and the language *)

(* The delimiter that the scanner should wait for in a mode.               *)
Waiting(m) == IF m = "code" THEN "none" ELSE Scan!Closing(m)

(* Until a line misleads it the scanner waits for a delimiter exactly      *)
(* where the language is inside a string or a block comment; it has found  *)
(* what it is held to, and nothing but calls and what excuses it.          *)
InStep ==
    /\ ~astray => delim = Waiting(mode)
    /\ due \subseteq found
    /\ found \subseteq calls \cup excused

(* What a line of a file that the scanner follows does to the delimiter,   *)
(* inside a string or comment and in code.                                 *)
LEMMA FollowsInside ==
    ASSUME NEW l \in Seq(Tokens), mode \in Scan!Lasting, delim = Waiting(mode),
           Scan!Scan(l), ~Scan!Misleads(l)
    PROVE  delim' = Waiting(ModeAfter(l))
<1>1. delim = Scan!Closing(mode) /\ delim # "none" /\ mode # "code"
  BY DEF Waiting, Scan!Closing, Scan!Lasting
<1>2. Scan!SkipWithin(l)
  BY <1>1 DEF Scan!Scan, Scan!SkipDocstring, Scan!SkipBlock, Scan!SkipLine, Scan!Report
<1>3. delim' = IF delim \in Range(l) THEN "none" ELSE delim
  BY <1>2, SameOperators DEF Scan!SkipWithin, Scan!Unreported
<1>4. /\ Len(l) \in Nat /\ 0 \in 0..Len(l) /\ 0 + 1 = 1
      /\ Scan!Modes(l)[0] = mode
      /\ delim \in Range(l) <=> \E i \in 1..Len(l) : l[i] = Scan!Closing(mode)
  BY <1>1, ModesStep DEF Range
<1>5. CASE delim \in Range(l)
  <2>1. \E i \in 1..Len(l) : Scan!Modes(l)[i] = "code"
    BY <1>4, <1>5, Closes
  <2>2. ModeAfter(l) = "code"
    BY <2>1, EndsInCode DEF Scan!Lasting
  <2> QED BY <1>3, <1>5, <2>2 DEF Waiting
<1>6. CASE delim \notin Range(l)
  <2>1. Scan!Modes(l)[Len(l)] = mode
    BY <1>4, <1>6, StaysOpen
  <2> QED BY <1>1, <1>3, <1>6, <2>1 DEF ModeAfter, Waiting
<1> QED
  BY <1>5, <1>6

LEMMA FollowsCode ==
    ASSUME NEW l \in Seq(Tokens), mode = "code", delim = "none",
           Scan!Scan(l), ~Scan!Misleads(l)
    PROVE  delim' = Waiting(ModeAfter(l))
<1> DEFINE d == Scan!First(l)
<1>1. ~Scan!SkipWithin(l)
  BY DEF Scan!SkipWithin
<1>2. Len(l) \in Nat /\ DOMAIN l = 1..Len(l) /\ Scan!Modes(l)[0] = "code"
  BY ModesStep
<1>3. CASE d \in Scan!Lasting
  <2>1. l # <<>> /\ l[1] = d /\ d \in Scan!Opening[lang] /\ d \notin Scan!Remarks /\ d # "text"
    BY <1>3 DEF Scan!First, Scan!Misleads, Scan!Lasting
  <2>2. 1 \in 0..Len(l) /\ 1 \in 1..Len(l) /\ 1 - 1 = 0 /\ 1 + 1 = 2
    BY <1>2, <2>1
  <2>3. Scan!Modes(l)[1] = d
    <3>1. Scan!Modes(l)[1] = Scan!After(Scan!Modes(l)[1 - 1], l[1])
      BY <1>2, <2>2, ModesStep
    <3>2. \A t \in Scan!Opening[lang] \ Scan!Remarks : Scan!After("code", t) = t
      BY DEF Scan!After, Scan!Lasting
    <3> QED BY <1>2, <2>1, <2>2, <3>1, <3>2
  <2> DEFINE again == \E i \in 2..Len(l) : l[i] = Scan!Closing(d)
  <2>4. ModeAfter(l) = IF again THEN "code" ELSE d
    <3>1. CASE again
      <4>1. \E i \in 1..Len(l) : Scan!Modes(l)[i] = "code"
        BY <1>2, <1>3, <2>2, <2>3, <3>1, Closes
      <4> QED BY <3>1, <4>1, EndsInCode DEF Scan!Lasting
    <3>2. CASE ~again
      <4>1. Scan!Modes(l)[Len(l)] = d
        BY <1>2, <1>3, <2>2, <2>3, <3>2, StaysOpen
      <4> QED BY <1>3, <3>2, <4>1 DEF ModeAfter
    <3> QED BY <3>1, <3>2
  <2>5. CASE d = "open"
    <3>1. Scan!SkipBlock(l)
      BY <1>1, <2>5 DEF Scan!Scan, Scan!SkipDocstring, Scan!OpensDocstring, Scan!SkipLine, Scan!Report
    <3>2. delim' = IF "close" \in Range(l) THEN "none" ELSE "close"
      BY <3>1, SameOperators DEF Scan!SkipBlock, Scan!Unreported
    <3>3. Scan!Closing(d) = "close" /\ l[1] # "close"
      BY <2>1, <2>5 DEF Scan!Closing
    <3>4. "close" \in Range(l) <=> \E i \in 1..Len(l) : l[i] = "close"
      BY <1>2 DEF Range
    <3>5. "close" \in Range(l) <=> again
      BY <1>2, <3>3, <3>4
    <3> QED BY <2>4, <2>5, <3>2, <3>3, <3>5 DEF Waiting
  <2>6. CASE d \in Scan!Quotes
    <3>1. Scan!Closing(d) = d /\ d # "code" /\ d # "open"
      BY <2>6 DEF Scan!Closing
    <3>2. Scan!OpensDocstring(l) <=> ~again
      BY <2>1, <2>6, <3>1, MarkCounted DEF Scan!OpensDocstring
    <3>3. CASE Scan!OpensDocstring(l)
      <4>1. Scan!SkipDocstring(l)
        BY <1>1, <2>6, <3>1, <3>3 DEF Scan!Scan, Scan!SkipBlock, Scan!SkipLine, Scan!Report
      <4>2. delim' = d
        BY <4>1 DEF Scan!SkipDocstring, Scan!Unreported
      <4> QED BY <2>4, <3>1, <3>2, <3>3, <4>2 DEF Waiting
    <3>4. CASE ~Scan!OpensDocstring(l)
      <4>1. Scan!SkipLine(l) \/ Scan!Report(l)
        BY <1>1, <3>1, <3>4 DEF Scan!Scan, Scan!SkipBlock, Scan!SkipDocstring
      <4>2. delim' = "none"
        BY <4>1 DEF Scan!SkipLine, Scan!Report, Scan!Unreported
      <4> QED BY <2>4, <3>2, <3>4, <4>2 DEF Waiting
    <3> QED BY <3>3, <3>4
  <2> QED BY <1>3, <2>5, <2>6 DEF Scan!Lasting
<1>4. CASE d \notin Scan!Lasting
  <2>1. Scan!SkipLine(l) \/ Scan!Report(l)
    BY <1>1, <1>4 DEF Scan!Scan, Scan!SkipBlock, Scan!SkipDocstring, Scan!OpensDocstring, Scan!Lasting
  <2>2. delim' = "none"
    BY <2>1 DEF Scan!SkipLine, Scan!Report, Scan!Unreported
  <2>3. ModeAfter(l) = "code"
    <3>1. CASE l = <<>>
      <4>1. Scan!Modes(l)[Len(l)] = "code"
        BY <1>2, <3>1
      <4> QED BY <4>1 DEF ModeAfter
    <3>2. CASE l # <<>>
      <4>1. 1 \in 1..Len(l) /\ 1 - 1 = 0 /\ l[1] = d
        BY <1>2, <3>2 DEF Scan!First
      <4>2. Scan!Modes(l)[1] = Scan!After("code", d)
        BY <1>2, <4>1, ModesStep
      <4>3. Scan!After("code", d) \notin Scan!Lasting
        BY <1>4 DEF Scan!After, Scan!Lasting
      <4> QED BY <4>1, <4>2, <4>3, EndsInCode
    <3> QED BY <3>1, <3>2
  <2> QED BY <2>2, <2>3 DEF Waiting
<1> QED
  BY <1>3, <1>4

(* Reading any line keeps the scanner in step.                             *)
LEMMA LineInStep ==
    ASSUME Scan!TypeOK, InStep, NEW l \in Seq(Tokens),
           Scan!Scan(l), Scan!Lex(l), Scan!Judge(l)
    PROVE  InStep' /\ mode' \in Scan!Lasting \cup {"code"}
<1>1. mode' = ModeAfter(l) /\ calls' = calls \cup Scan!CallsOn(l)
  BY DEF Scan!Lex, ModeAfter
<1>2. mode \in Scan!Lasting \cup {"code"} /\ astray \in BOOLEAN
  BY DEF Scan!TypeOK
<1>3. ASSUME ~astray' PROVE delim' = Waiting(mode')
  <2>1. ~astray /\ ~Scan!Misleads(l) /\ delim = Waiting(mode)
    BY <1>2, <1>3 DEF Scan!Judge, InStep
  <2> QED BY <1>1, <1>2, <2>1, FollowsInside, FollowsCode DEF Waiting
<1>4. Scan!CallsOn(l) \cup Scan!MentionsOn(l) = {Scan!Site(n) : n \in Range(l) \cap RuleNames}
  BY DEF Scan!CallsOn, Scan!MentionsOn, Range
<1>5. found' = found \/ (Scan!Report(l) /\ found' = found \cup Scan!CallsOn(l) \cup Scan!MentionsOn(l))
  BY <1>4, SameOperators DEF Scan!Scan, Scan!SkipWithin, Scan!SkipDocstring, Scan!SkipBlock,
     Scan!SkipLine, Scan!Report, Scan!Unreported
<1>6. due' \subseteq found'
  <2>1. CASE Scan!StartsInCode(l) /\ ~astray
    <3>1. delim = "none"
      BY <2>1 DEF InStep, Waiting, Scan!StartsInCode
    <3>2. Scan!Report(l)
      BY <2>1, <3>1 DEF Scan!Scan, Scan!SkipWithin, Scan!SkipDocstring, Scan!OpensDocstring,
         Scan!SkipBlock, Scan!SkipLine, Scan!StartsInCode, Scan!Lasting
    <3>3. found' = found \cup Scan!CallsOn(l) \cup Scan!MentionsOn(l)
      BY <1>4, <3>2, SameOperators DEF Scan!Report
    <3> QED BY <2>1, <3>3 DEF InStep, Scan!Judge
  <2>2. CASE ~(Scan!StartsInCode(l) /\ ~astray)
    BY <1>5, <2>2 DEF InStep, Scan!Judge
  <2> QED BY <2>1, <2>2
<1>7. found' \subseteq calls' \cup excused'
  <2>1. CASE found' = found
    BY <1>1, <2>1 DEF InStep, Scan!Judge
  <2>2. CASE Scan!Report(l)
    <3>1. Scan!StartsInCode(l) \/ Scan!OneLineDocstring(l) \/ astray
      <4> SUFFICES ASSUME ~astray, Scan!First(l) \in Scan!Lasting
                   PROVE  Scan!OneLineDocstring(l)
        <5>1. mode = "code" \/ astray
          BY <1>2, <2>2 DEF InStep, Waiting, Scan!Report, Scan!Closing, Scan!Lasting
        <5> QED BY <2>2, <5>1 DEF Scan!Report, Scan!StartsInCode
      <4>1. mode = "code"
        BY <1>2, <2>2 DEF InStep, Waiting, Scan!Report, Scan!Closing, Scan!Lasting
      <4>2. Scan!First(l) \in Scan!Quotes /\ Scan!First(l) # "text" /\ ~(Scan!Count(l, Scan!First(l)) < 2)
        BY <2>2 DEF Scan!Report, Scan!OpensDocstring, Scan!Lasting
      <4>3. \E i \in 2..Len(l) : l[i] = Scan!First(l)
        BY <4>2, MarkCounted
      <4> QED BY <4>1, <4>2, <4>3 DEF Scan!OneLineDocstring
    <3>2. excused' = excused \cup Scan!MentionsOn(l)
      BY <3>1 DEF Scan!Judge
    <3> QED BY <1>1, <1>5, <3>2 DEF InStep
  <2> QED BY <1>5, <2>1, <2>2
<1> QED
  BY <1>1, <1>3, <1>6, <1>7 DEF InStep, ModeAfter

(* What a line adds to the calls and mentions are sites of that line.      *)
LEMMA CallsTyped ==
    ASSUME NEW l, MaxLines \in Nat, line \in 0..MaxLines, line < MaxLines
    PROVE  Scan!CallsOn(l) \cup Scan!MentionsOn(l) \subseteq [loc : 1..MaxLines, name : RuleNames]
<1>1. line + 1 \in 1..MaxLines
  OBVIOUS
<1>2. \A k \in DOMAIN l : l[k] \in RuleNames =>
        Scan!Site(l[k]) \in [loc : 1..MaxLines, name : RuleNames]
  BY <1>1 DEF Scan!Site
<1> QED
  BY <1>2 DEF Scan!CallsOn, Scan!MentionsOn

-----------------------------------------------------------------------------
(* Reconciling *)

(* Every site is covered by a component that matches it. *)
Shown(cs, sites) == \A s \in sites : Cbom!Covers(cs, s)

(* Every occurrence is that of a site that its component matches. *)
Backed(cs, sites) ==
    \A i \in DOMAIN cs : \A loc \in cs[i].occ :
        \E s \in sites : s.loc = loc /\ Cbom!Matches(s.name, cs[i].name)

AllCrypto(cs) == \A i \in DOMAIN cs : cs[i].crypto

(* What recording a site does: a component that matches it, an old one or  *)
(* a new one, has the site's location; nothing else is added or lost.      *)
LEMMA RecordEffect ==
    ASSUME comps \in Seq(Cbom!Components), NEW s \in Cbom!Sites, Cbom!Record(s)
    PROVE  /\ comps' \in Seq(Cbom!Components)
           /\ \E k \in DOMAIN comps' :
                /\ Cbom!Matches(s.name, comps'[k].name) /\ s.loc \in comps'[k].occ
                /\ \A i \in DOMAIN comps :
                     /\ i \in DOMAIN comps' /\ comps'[i].name = comps[i].name
                     /\ comps'[i].crypto = comps[i].crypto /\ comps[i].occ \subseteq comps'[i].occ
                /\ \A i \in DOMAIN comps' : \A loc \in comps'[i].occ :
                     (i = k /\ loc = s.loc) \/ (i \in DOMAIN comps /\ loc \in comps[i].occ)
                /\ \A i \in DOMAIN comps' : i \in DOMAIN comps \/ comps'[i].crypto
<1>1. s.loc \in 1..MaxLines /\ s.name \in RuleNames /\ s.name \in Names
  BY ClassesAssumption DEF Cbom!Sites
<1>2. Len(comps) \in Nat /\ DOMAIN comps = 1..Len(comps)
  OBVIOUS
<1>3. CASE comps' = Append(comps, Cbom!NewComponent(s))
  <2> DEFINE last == Len(comps) + 1
  <2>1. Cbom!NewComponent(s) \in Cbom!Components
    BY <1>1 DEF Cbom!NewComponent, Cbom!Components
  <2>2. comps' \in Seq(Cbom!Components)
    BY <1>3, <2>1
  <2>3. /\ DOMAIN comps' = 1..last /\ last \in 1..last
        /\ comps'[last] = Cbom!NewComponent(s)
        /\ \A i \in 1..Len(comps) : comps'[i] = comps[i]
    BY <1>2, <1>3, <2>1
  <2>4. comps'[last].name = s.name /\ comps'[last].crypto /\ comps'[last].occ = {s.loc}
    BY <2>3 DEF Cbom!NewComponent
  <2>5. Cbom!Matches(s.name, comps'[last].name)
    BY <2>4 DEF Cbom!Matches
  <2>6. \A i \in 1..last : i = last \/ i \in 1..Len(comps)
    BY <1>2
  <2> HIDE DEF last
  <2>7. \A i \in DOMAIN comps :
         /\ i \in DOMAIN comps' /\ comps'[i].name = comps[i].name
         /\ comps'[i].crypto = comps[i].crypto /\ comps[i].occ \subseteq comps'[i].occ
    <3>1. \A i \in 1..Len(comps) : i \in 1..last
      BY <1>2 DEF last
    <3> QED BY <1>2, <2>3, <3>1
  <2>8. \A i \in DOMAIN comps' : \A loc \in comps'[i].occ :
         (i = last /\ loc = s.loc) \/ (i \in DOMAIN comps /\ loc \in comps[i].occ)
    <3> SUFFICES ASSUME NEW i \in DOMAIN comps', NEW loc \in comps'[i].occ
                 PROVE  (i = last /\ loc = s.loc) \/ (i \in DOMAIN comps /\ loc \in comps[i].occ)
      OBVIOUS
    <3>1. CASE i = last
      <4>1. loc \in {s.loc}
        BY <2>4, <3>1, Zenon
      <4> QED BY <3>1, <4>1
    <3>2. CASE i \in 1..Len(comps)
      BY <1>2, <2>3, <3>2
    <3> QED BY <2>3, <2>6, <3>1, <3>2
  <2>9. \A i \in DOMAIN comps' : i \in DOMAIN comps \/ comps'[i].crypto
    BY <1>2, <2>3, <2>4, <2>6
  <2>10. last \in DOMAIN comps' /\ s.loc \in comps'[last].occ
    BY <2>3, <2>4
  <2> QED BY <2>2, <2>5, <2>7, <2>8, <2>9, <2>10, Zenon
<1>4. CASE \E k \in Cbom!FindMatchingComp(comps, s.name) :
             comps' = [comps EXCEPT ![k].occ = @ \cup {s.loc}]
  <2>1. PICK k \in DOMAIN comps : /\ Cbom!Matches(s.name, comps[k].name)
                                  /\ comps' = [comps EXCEPT ![k].occ = @ \cup {s.loc}]
    BY <1>4 DEF Cbom!FindMatchingComp, Cbom!FirstMatch
  <2>2. \A i \in DOMAIN comps : comps[i] \in Cbom!Components
    BY <1>2
  <2>3. /\ DOMAIN comps' = DOMAIN comps
        /\ \A i \in DOMAIN comps : i # k => comps'[i] = comps[i]
        /\ comps'[k] = [comps[k] EXCEPT !.occ = @ \cup {s.loc}]
    BY <2>1
  <2>4. /\ comps'[k].name = comps[k].name /\ comps'[k].crypto = comps[k].crypto
        /\ comps'[k].occ = comps[k].occ \cup {s.loc}
        /\ comps'[k] \in Cbom!Components
    BY <1>1, <2>2, <2>3 DEF Cbom!Components
  <2>5. comps' \in Seq(Cbom!Components)
    <3>1. \A i \in 1..Len(comps) : comps'[i] \in Cbom!Components
      BY <1>2, <2>2, <2>3, <2>4
    <3>2. comps' = [i \in 1..Len(comps) |-> comps'[i]]
      BY <1>2, <2>1
    <3> QED BY <1>2, <3>1, <3>2
  <2>6. \A i \in DOMAIN comps :
         /\ i \in DOMAIN comps' /\ comps'[i].name = comps[i].name
         /\ comps'[i].crypto = comps[i].crypto /\ comps[i].occ \subseteq comps'[i].occ
    BY <2>3, <2>4
  <2>7. \A i \in DOMAIN comps' : \A loc \in comps'[i].occ :
         (i = k /\ loc = s.loc) \/ (i \in DOMAIN comps /\ loc \in comps[i].occ)
    <3> SUFFICES ASSUME NEW i \in DOMAIN comps', NEW loc \in comps'[i].occ
                 PROVE  (i = k /\ loc = s.loc) \/ (i \in DOMAIN comps /\ loc \in comps[i].occ)
      OBVIOUS
    <3>1. CASE i = k
      <4>1. loc \in comps[k].occ \cup {s.loc}
        BY <2>4, <3>1
      <4>2. k \in DOMAIN comps
        OBVIOUS
      <4> QED BY <3>1, <4>1, <4>2, Zenon
    <3>2. CASE i # k
      BY <2>3, <3>2
    <3> QED BY <3>1, <3>2
  <2>8. \A i \in DOMAIN comps' : i \in DOMAIN comps \/ comps'[i].crypto
    BY <2>3
  <2>9. k \in DOMAIN comps' /\ Cbom!Matches(s.name, comps'[k].name) /\ s.loc \in comps'[k].occ
    BY <2>1, <2>3, <2>4
  <2> QED BY <2>5, <2>6, <2>7, <2>8, <2>9, Zenon
<1> QED
  BY <1>3, <1>4 DEF Cbom!Record

(* So the site is covered, and what was covered, backed or cryptographic   *)
(* stays so.                                                               *)
LEMMA RecordKeeps ==
    ASSUME comps \in Seq(Cbom!Components), NEW s \in Cbom!Sites, Cbom!Record(s),
           NEW done, NEW sites, s \in sites
    PROVE  /\ Shown(comps, done) => Shown(comps', done \cup {s})
           /\ Backed(comps, sites) => Backed(comps', sites)
           /\ AllCrypto(comps) => AllCrypto(comps')
<1>1. PICK k \in DOMAIN comps' :
        /\ Cbom!Matches(s.name, comps'[k].name) /\ s.loc \in comps'[k].occ
        /\ \A i \in DOMAIN comps :
             /\ i \in DOMAIN comps' /\ comps'[i].name = comps[i].name
             /\ comps'[i].crypto = comps[i].crypto /\ comps[i].occ \subseteq comps'[i].occ
        /\ \A i \in DOMAIN comps' : \A loc \in comps'[i].occ :
             (i = k /\ loc = s.loc) \/ (i \in DOMAIN comps /\ loc \in comps[i].occ)
        /\ \A i \in DOMAIN comps' : i \in DOMAIN comps \/ comps'[i].crypto
  BY RecordEffect
<1>2. ASSUME Shown(comps, done) PROVE Shown(comps', done \cup {s})
  BY <1>1, <1>2 DEF Shown, Cbom!Covers
<1>3. ASSUME Backed(comps, sites) PROVE Backed(comps', sites)
  <2> SUFFICES ASSUME NEW i \in DOMAIN comps', NEW loc \in comps'[i].occ
               PROVE  \E t \in sites : t.loc = loc /\ Cbom!Matches(t.name, comps'[i].name)
    BY DEF Backed
  <2> QED BY <1>1, <1>3 DEF Backed
<1>4. ASSUME AllCrypto(comps) PROVE AllCrypto(comps')
  BY <1>1, <1>4 DEF AllCrypto
<1> QED
  BY <1>2, <1>3, <1>4

-----------------------------------------------------------------------------
(* Types *)

(* What the generator writes are components without occurrences.           *)
LEMMA GeneratedTyped ==
    ASSUME NEW cs \in Cbom!Generated
    PROVE  /\ cs \in Seq(Cbom!Components)
           /\ \A i \in DOMAIN cs : cs[i].occ = {} /\ cs[i].crypto \in Kinds
<1>1. PICK n \in 0..MaxGenerated : cs \in [1..n -> [name : Names, crypto : Kinds, occ : {{}}]]
  BY DEF Cbom!Generated
<1>2. DOMAIN cs = 1..n /\ \A i \in 1..n : cs[i] \in [name : Names, crypto : Kinds, occ : {{}}]
  BY <1>1
<1>3. \A i \in 1..n : cs[i] \in Cbom!Components
  BY <1>2, ClassesAssumption DEF Cbom!Components
<1>4. cs \in Seq(Cbom!Components)
  BY <1>1, <1>3
<1> QED
  BY <1>2, <1>4

ResultTyped ==
    /\ bomFormat \in {"CycloneDX", "other"}
    /\ sbomFile \in [Formats -> Files]
    /\ sbom \in Sboms
    /\ report # None =>
         /\ \A class \in Analysis!Classes : /\ report.rows[class] \subseteq Cbom!Components
                                            /\ report.deps[class] \subseteq DOMAIN sbom
         /\ report.blind \subseteq DOMAIN sbom /\ report.more \in Nat
         /\ report.rating \in {"FirstPartyOnly", "HIGH", "MEDIUM", "LOW"}

(* A report lists components of the CBOM and places of the SBOM, and       *)
(* counts the unassimilated ones that it does not list.                    *)
LEMMA ReportsTyped ==
    ASSUME NEW cs \in Seq(Cbom!Components), NEW deps, NEW upstream,
           Len(deps) \in Nat, DOMAIN deps = 1..Len(deps)
    PROVE  LET r     == Analysis!Report(cs, deps, upstream)
               ps    == Analysis!LoadCatalog(upstream)
               blind == Analysis!Unassimilated(deps, ps)
           IN  /\ \A class \in Analysis!Classes : /\ r.rows[class] = Analysis!FirstParty(cs, class)
                                                  /\ r.rows[class] \subseteq Cbom!Components
                                                  /\ r.deps[class] \subseteq DOMAIN deps
               /\ r.blind \subseteq DOMAIN deps /\ r.more \in Nat
               /\ Cardinality(r.blind) + r.more = Cardinality(blind)
               /\ r.rating = Analysis!Rating(deps, Analysis!Score(deps, ps))
               /\ r.rating \in {"FirstPartyOnly", "HIGH", "MEDIUM", "LOW"}
<1> DEFINE ps    == Analysis!LoadCatalog(upstream)
           blind == Analysis!Unassimilated(deps, ps)
           first == Analysis!FirstOf(blind)
           r     == Analysis!Report(cs, deps, upstream)
<1>1. r = [rows   |-> [class \in Analysis!Classes |-> Analysis!FirstParty(cs, class)],
           deps   |-> [class \in Analysis!Classes |-> Analysis!ThirdParty(deps, ps, class)],
           blind  |-> first,
           more   |-> Cardinality(blind) - Cardinality(first),
           rating |-> Analysis!Rating(deps, Analysis!Score(deps, ps))]
  BY SameOperators DEF Analysis!Report
<1>2. \A class : Analysis!FirstParty(cs, class) \subseteq Cbom!Components
  BY SameOperators DEF Analysis!FirstParty, Range
<1>3. \A class : Analysis!ThirdParty(deps, ps, class) \subseteq DOMAIN deps
  BY DEF Analysis!ThirdParty
<1>4. \A score : Analysis!Rating(deps, score) \in {"FirstPartyOnly", "HIGH", "MEDIUM", "LOW"}
  BY DEF Analysis!Rating
<1>5. blind \subseteq DOMAIN deps /\ first \subseteq blind
  BY DEF Analysis!Unassimilated, Analysis!FirstOf
<1> HIDE DEF ps, blind, first, r
<1>6. /\ Cardinality(first) \in Nat /\ Cardinality(blind) \in Nat
      /\ Cardinality(first) <= Cardinality(blind)
  <2>1. IsFiniteSet(1..Len(deps))
    BY FS_Interval
  <2>2. IsFiniteSet(blind)
    BY <1>5, <2>1, FS_Subset
  <2>3. IsFiniteSet(first) /\ Cardinality(first) <= Cardinality(blind)
    BY <1>5, <2>2, FS_Subset
  <2> QED BY <2>2, <2>3, FS_CardinalityType
<1>7. \A class \in Analysis!Classes : /\ r.rows[class] = Analysis!FirstParty(cs, class)
                                      /\ r.deps[class] = Analysis!ThirdParty(deps, ps, class)
  BY <1>1
<1>8. /\ r.rating = Analysis!Rating(deps, Analysis!Score(deps, ps))
      /\ r.blind = first /\ r.more = Cardinality(blind) - Cardinality(first)
  BY <1>1
<1>9. r.blind \subseteq DOMAIN deps
  BY <1>5, <1>8
<1>10. r.more \in Nat /\ Cardinality(r.blind) + r.more = Cardinality(blind)
  BY <1>6, <1>8
<1>11. r.rating \in {"FirstPartyOnly", "HIGH", "MEDIUM", "LOW"}
  BY <1>4, <1>8
<1> QED
  BY <1>2, <1>3, <1>7, <1>8, <1>9, <1>10, <1>11 DEF r, blind, ps

(* What is read are the dependencies of the code, or none.                 *)
LEMMA ReadTyped ==
    ASSUME NEW deps \in Sboms
    PROVE  /\ Len(Read(deps)) \in Nat /\ DOMAIN Read(deps) = 1..Len(Read(deps))
           /\ DOMAIN Read(deps) \subseteq DOMAIN deps
<1>1. deps \in Seq(Range(deps))
  BY SbomsAssumption
<1>2. Len(deps) \in Nat /\ DOMAIN deps = 1..Len(deps)
  BY <1>1
<1>3. Len(<<>>) = 0 /\ DOMAIN <<>> = 1..0 /\ 1..0 = {}
  OBVIOUS
<1> QED
  BY <1>2, <1>3 DEF Read

LEMMA TypeStep ==
    ASSUME TypeOK, InStep, [Next]_vars
    PROVE  TypeOK' /\ InStep'
<1>1. /\ Scan!TypeOK /\ Cbom!TypeOK /\ ResultTyped
      /\ step \in {"generate", "scan", "reconcile", "verify", "analyse", "publish",
                   "published", "failed"}
  BY DEF TypeOK, ResultTyped
<1>2. UNCHANGED scan => Scan!TypeOK' /\ InStep'
  BY <1>1 DEF scan, Scan!TypeOK, InStep
<1>3. UNCHANGED reconcile => Cbom!TypeOK'
  BY <1>1 DEF reconcile, Cbom!TypeOK
<1>4. UNCHANGED result => ResultTyped'
  BY <1>1 DEF result, ResultTyped
<1> SUFFICES /\ step' \in {"generate", "scan", "reconcile", "verify", "analyse", "publish",
                           "published", "failed"}
             /\ Scan!TypeOK' /\ InStep' /\ Cbom!TypeOK' /\ ResultTyped'
  BY DEF TypeOK, ResultTyped
<1>5. CASE GeneratorFails
  <2>1. Cbom!TypeOK'
    BY <1>1, <1>5 DEF GeneratorFails, Cbom!TypeOK
  <2> QED BY <1>2, <1>4, <1>5, <2>1 DEF GeneratorFails
<1>6. CASE Generate
  <2>1. PICK cs \in Cbom!Generated : Cbom!Generate(cs)
    BY <1>6 DEF Generate
  <2>2. Cbom!TypeOK'
    BY <1>1, <2>1, GeneratedTyped DEF Cbom!Generate, Cbom!TypeOK, Cbom!run
  <2>3. ResultTyped'
    BY <1>1, <1>6 DEF Generate, ResultTyped
  <2> QED BY <1>2, <1>6, <2>2, <2>3 DEF Generate
<1>7. CASE ScanLine
  <2>1. PICK layout \in Layouts : Scan!ReadLine(layout[3])
    BY <1>7 DEF ScanLine, Scan!Next
  <2> DEFINE l == layout[3]
  <2>2. /\ line < MaxLines /\ <<lang, mode, l>> \in Layouts
        /\ Scan!Scan(l) /\ Scan!Lex(l) /\ Scan!Judge(l) /\ line' = line + 1 /\ lang' = lang
    BY <2>1 DEF Scan!ReadLine
  <2>3. l \in Seq(Tokens) /\ MaxLines \in Nat
    <3>1. <<lang, mode, l>>[3] = l
      OBVIOUS
    <3> QED BY <2>2, <3>1, LayoutsAssumption DEF Tokens
  <2>4. InStep' /\ mode' \in Scan!Lasting \cup {"code"}
    BY <1>1, <2>2, <2>3, LineInStep
  <2>5. Scan!TypeOK'
    <3> DEFINE Sites == [loc : 1..MaxLines, name : RuleNames]
    <3>1. Scan!CallsOn(l) \cup Scan!MentionsOn(l) \subseteq Sites
      BY <1>1, <2>2, <2>3, CallsTyped DEF Scan!TypeOK
    <3>2. calls \subseteq Sites /\ due \subseteq Sites /\ excused \subseteq Sites
      BY <1>1 DEF Scan!TypeOK
    <3> HIDE DEF Sites
    <3>3. calls' \subseteq Sites /\ due' \subseteq Sites /\ excused' \subseteq Sites
      BY <2>2, <3>1, <3>2 DEF Scan!Lex, Scan!Judge
    <3>4. found' \subseteq Sites
      BY <2>4, <3>3 DEF InStep
    <3>5. delim' \in Scan!Quotes \cup {"close", "none"}
      BY <1>1, <2>2 DEF Scan!TypeOK, Scan!Scan, Scan!SkipWithin, Scan!SkipDocstring, Scan!OpensDocstring,
         Scan!SkipBlock, Scan!SkipLine, Scan!Report, Scan!Unreported
    <3>6. line' \in 0..MaxLines /\ lang' \in Scan!Languages
      BY <1>1, <2>2, <2>3 DEF Scan!TypeOK
    <3>7. astray' \in BOOLEAN
      BY <2>2 DEF Scan!Judge
    <3> QED BY <2>4, <3>3, <3>4, <3>5, <3>6, <3>7 DEF Scan!TypeOK, Sites
  <2> QED BY <1>1, <1>3, <1>4, <1>7, <2>4, <2>5 DEF ScanLine
<1>8. CASE EndScan
  <2>1. Cbom!TypeOK'
    <3>1. Cbom!Start(found) /\ found \subseteq Cbom!Sites
      BY <1>1, <1>8 DEF EndScan, Scan!TypeOK, Cbom!Sites
    <3> QED BY <1>1, <3>1 DEF Cbom!Start, Cbom!TypeOK, Cbom!disk
  <2> QED BY <1>2, <1>4, <1>8, <2>1 DEF EndScan
<1>9. CASE RejectCbom
  BY <1>2, <1>3, <1>4, <1>9 DEF RejectCbom
<1>10. CASE Reconcile
  <2>1. ASSUME NEW s \in todo, Cbom!ReconcileSite(s) PROVE Cbom!TypeOK'
    <3>1. s \in Cbom!Sites /\ Cbom!Record(s) /\ comps \in Seq(Cbom!Components)
      BY <1>1, <2>1 DEF Cbom!TypeOK, Cbom!ReconcileSite
    <3>2. comps' \in Seq(Cbom!Components)
      BY <3>1, RecordEffect
    <3> QED BY <1>1, <2>1, <3>2 DEF Cbom!ReconcileSite, Cbom!TypeOK, Cbom!disk
  <2>2. ASSUME Cbom!BeginWrite PROVE Cbom!TypeOK'
    BY <1>1, <2>2 DEF Cbom!BeginWrite, Cbom!TypeOK, Cbom!run
  <2> QED BY <1>1, <1>2, <1>4, <1>10, <2>1, <2>2 DEF Reconcile
<1>11. CASE EndReconcile
  <2>1. Cbom!TypeOK'
    BY <1>1, <1>11 DEF EndReconcile, Cbom!EndWrite, Cbom!End, Cbom!TypeOK
  <2> QED BY <1>2, <1>4, <1>11, <2>1 DEF EndReconcile
<1>12. CASE Verify
  <2>1. ResultTyped'
    BY <1>1, <1>12 DEF Verify, ResultTyped
  <2> QED BY <1>2, <1>3, <1>12, <2>1 DEF Verify
<1>13. CASE Analyse
  <2>1. /\ sbom' \in Sboms /\ step' = "publish" /\ UNCHANGED <<scan, reconcile>>
        /\ bomFormat' = bomFormat /\ sbomFile' = sbomFile
    BY <1>13 DEF Analyse
  <2>2. PICK upstream \in Upstreams : report' = Analysis!Report(cbom, Read(sbom'), upstream)
    BY <1>13 DEF Analyse
  <2>3. /\ Len(Read(sbom')) \in Nat /\ DOMAIN Read(sbom') = 1..Len(Read(sbom'))
        /\ DOMAIN Read(sbom') \subseteq DOMAIN sbom'
    BY <2>1, ReadTyped
  <2>4. cbom \in Seq(Cbom!Components)
    BY <1>1 DEF Cbom!TypeOK
  <2>5. /\ \A class \in Analysis!Classes : /\ report'.rows[class] \subseteq Cbom!Components
                                           /\ report'.deps[class] \subseteq DOMAIN sbom'
        /\ report'.blind \subseteq DOMAIN sbom' /\ report'.more \in Nat
        /\ report'.rating \in {"FirstPartyOnly", "HIGH", "MEDIUM", "LOW"}
    BY <2>2, <2>3, <2>4, ReportsTyped
  <2>6. ResultTyped'
    BY <1>1, <2>1, <2>5 DEF ResultTyped
  <2> QED BY <1>2, <1>3, <2>1, <2>6
<1>14. CASE Publish
  BY <1>2, <1>3, <1>4, <1>14 DEF Publish
<1>15. CASE UNCHANGED vars
  BY <1>1, <1>2, <1>3, <1>4, <1>15 DEF vars
<1> QED
  BY <1>5, <1>6, <1>7, <1>8, <1>9, <1>10, <1>11, <1>12, <1>13, <1>14, <1>15 DEF Next, Done

-----------------------------------------------------------------------------
(* What the job knows at each of its steps *)

Phase ==
    /\ step \in {"generate", "scan"} => pc = "idle" /\ Backed(cbom, {})
    /\ step = "reconcile" =>
         /\ scanned = found
         /\ Shown(comps, found \ todo)
         /\ Backed(comps, found)
         /\ pc = "writing" => todo = {}
    /\ step \in {"verify", "analyse", "publish", "published"} =>
         Shown(cbom, found) /\ Backed(cbom, found)
    /\ step \in {"publish", "published"} =>
         \E upstream \in Upstreams : report = Analysis!Report(cbom, Read(sbom), upstream)
    /\ step \in {"analyse", "publish", "published"} => \E f \in Formats : sbomFile[f] = "whole"
    /\ step \notin {"publish", "published"} => report = None

Inv == TypeOK /\ InStep /\ Phase

LEMMA PhaseStep ==
    ASSUME Inv, [Next]_vars
    PROVE  Phase'
<1> USE DEF scan, reconcile, result
<1>1. TypeOK /\ Cbom!TypeOK /\ Phase
  BY DEF Inv, TypeOK
<1>2. CASE GeneratorFails
  BY <1>1, <1>2 DEF GeneratorFails, Phase
<1>3. CASE Generate
  <2>1. PICK cs \in Cbom!Generated : Cbom!Generate(cs)
    BY <1>3 DEF Generate
  <2>2. Backed(cbom', {})
    BY <2>1, GeneratedTyped DEF Backed, Cbom!Generate
  <2> QED BY <1>1, <1>3, <2>1, <2>2 DEF Generate, Cbom!Generate, Phase
<1>4. CASE ScanLine
  BY <1>1, <1>4 DEF ScanLine, Phase
<1>5. CASE EndScan
  <2>1. /\ step = "scan" /\ step' = "reconcile" /\ found' = found /\ report' = report
        /\ pc' = "reconciling" /\ scanned' = found /\ todo' = found
        /\ comps' = IF file = "absent" THEN <<>> ELSE cbom
    BY <1>5 DEF EndScan, Cbom!Start
  <2>2. Backed(comps', found)
    BY <1>1, <2>1 DEF Phase, Backed
  <2>3. Shown(comps', found \ todo')
    BY <2>1 DEF Shown
  <2> QED BY <1>1, <2>1, <2>2, <2>3 DEF Phase
<1>6. CASE RejectCbom
  BY <1>1, <1>6 DEF RejectCbom, Phase
<1>7. CASE Reconcile
  <2>1. /\ step = "reconcile" /\ step' = step /\ found' = found /\ report' = report
        /\ scanned = found /\ Shown(comps, found \ todo) /\ Backed(comps, found)
    BY <1>1, <1>7 DEF Reconcile, Phase
  <2>2. ASSUME NEW s \in todo, Cbom!ReconcileSite(s) PROVE Phase'
    <3>1. /\ pc = "reconciling" /\ pc' = pc /\ scanned' = scanned
          /\ todo' = todo \ {s} /\ Cbom!Record(s)
      BY <2>2 DEF Cbom!ReconcileSite
    <3>2. s \in Cbom!Sites /\ s \in found /\ comps \in Seq(Cbom!Components)
      BY <1>1, <2>1, <2>2 DEF Cbom!TypeOK
    <3>3. Shown(comps', (found \ todo) \cup {s}) /\ Backed(comps', found)
      BY <2>1, <3>1, <3>2, RecordKeeps
    <3>4. Shown(comps', found \ todo')
      BY <3>1, <3>3 DEF Shown
    <3> QED BY <1>1, <2>1, <3>1, <3>3, <3>4 DEF Phase
  <2>3. ASSUME Cbom!BeginWrite PROVE Phase'
    BY <1>1, <2>1, <2>3 DEF Cbom!BeginWrite, Cbom!run, Phase
  <2> QED BY <1>7, <2>2, <2>3 DEF Reconcile
<1>8. CASE EndReconcile
  <2>1. /\ step = "reconcile" /\ step' = "verify" /\ found' = found /\ report' = report
        /\ pc = "writing" /\ cbom' = comps
    BY <1>8 DEF EndReconcile, Cbom!EndWrite
  <2>2. found \ todo = found
    BY <1>1, <2>1 DEF Phase
  <2>3. Shown(cbom', found') /\ Backed(cbom', found')
    BY <1>1, <2>1, <2>2 DEF Phase
  <2> QED BY <1>1, <2>1, <2>3 DEF Phase
<1>9. CASE Verify
  <2>1. /\ step = "verify" /\ step' \in {"analyse", "failed"} /\ found' = found /\ cbom' = cbom
        /\ report' = report
        /\ step' = "analyse" => \E f \in Formats : sbomFile'[f] = "whole"
    BY <1>9 DEF Verify
  <2> QED BY <1>1, <2>1 DEF Phase
<1>10. CASE Analyse
  <2>1. /\ step = "analyse" /\ step' = "publish" /\ found' = found /\ cbom' = cbom
        /\ sbomFile' = sbomFile
        /\ \E upstream \in Upstreams : report' = Analysis!Report(cbom', Read(sbom'), upstream)
    BY <1>10 DEF Analyse
  <2>2. Read(sbom)' = Read(sbom')
    BY <2>1 DEF Read, Assessed
  <2>3. \E upstream \in Upstreams : report' = Analysis!Report(cbom', Read(sbom)', upstream)
    BY <2>1, <2>2
  <2> QED BY <1>1, <2>1, <2>3 DEF Phase
<1>11. CASE Publish
  <2>1. /\ step = "publish" /\ step' = "published" /\ found' = found /\ cbom' = cbom
        /\ sbomFile' = sbomFile /\ sbom' = sbom /\ report' = report
    BY <1>11 DEF Publish
  <2>2. Read(sbom)' = Read(sbom)
    BY <2>1 DEF Read, Assessed
  <2> QED BY <1>1, <2>1, <2>2 DEF Phase
<1>12. CASE UNCHANGED vars
  <2>1. Read(sbom)' = Read(sbom)
    BY <1>12 DEF vars, Read, Assessed
  <2> QED BY <1>1, <1>12, <2>1 DEF vars, Phase
<1> QED
  BY <1>2, <1>3, <1>4, <1>5, <1>6, <1>7, <1>8, <1>9, <1>10, <1>11, <1>12 DEF Next, Done

LEMMA Invariant == Spec => []Inv
<1>1. Init => Phase
  BY DEF Init, Cbom!Init, Phase, Backed
<1>2. Init => InStep
  BY DEF Init, Scan!Init, InStep, Waiting
<1>3. Init => TypeOK
  <2> SUFFICES ASSUME Init PROVE TypeOK
    OBVIOUS
  <2>1. Scan!TypeOK
    <3>1. found = {} /\ calls = {} /\ due = {} /\ excused = {} /\ astray = FALSE
      BY DEF Init, Scan!Init
    <3>2. lang \in Scan!Languages /\ line \in 0..MaxLines /\ delim = "none" /\ mode = "code"
      BY LayoutsAssumption DEF Init, Scan!Init
    <3>3. {found, calls, due, excused} \subseteq SUBSET [loc : 1..MaxLines, name : RuleNames]
      BY <3>1
    <3> QED BY <3>1, <3>2, <3>3 DEF Scan!TypeOK
  <2>2. Cbom!TypeOK
    BY DEF Init, Cbom!Init, Cbom!TypeOK
  <2>3. bomFormat \in {"CycloneDX", "other"} /\ sbomFile \in [Formats -> Files]
    BY DEF Init, Files
  <2> QED BY <2>1, <2>2, <2>3, SbomsAssumption DEF Init, TypeOK
<1>4. Inv /\ [Next]_vars => Inv'
  BY TypeStep, PhaseStep DEF Inv
<1> QED
  BY <1>1, <1>2, <1>3, <1>4, PTL DEF Spec, Inv

(* Every state of the job is well typed: the scanner's delimiter is one it *)
(* can wait for, each site has a line of the file and the name of a rule,  *)
(* and the tables of the report have components and dependencies.          *)
THEOREM TypeCorrect == Spec => []TypeOK
BY Invariant, PTL DEF Inv

-----------------------------------------------------------------------------
(* From the code to the report and back *)

(* What a report was made of.                                              *)
LEMMA Reporting ==
    ASSUME Inv, report # None
    PROVE  /\ \E f \in Formats : sbomFile[f] = "whole"
           /\ sbom \in Sboms /\ sbomFile \in [Formats -> Files]
           /\ cbom \in Seq(Cbom!Components)
           /\ \E upstream \in Upstreams : report = Analysis!Report(cbom, Read(sbom), upstream)
BY DEF Inv, Phase, TypeOK, Cbom!TypeOK

(* The tables of a published report are those of the CBOM, which holds     *)
(* what the scanner found.                                                 *)
LEMMA Published ==
    ASSUME Inv, step = "published"
    PROVE  /\ Shown(cbom, found) /\ Backed(cbom, found)
           /\ found \subseteq [loc : 1..MaxLines, name : RuleNames]
           /\ due \subseteq found /\ found \subseteq calls \cup excused
           /\ cbom \in Seq(Cbom!Components)
           /\ \A class \in Analysis!Classes : report.rows[class] = Analysis!FirstParty(cbom, class)
<1>1. /\ Shown(cbom, found) /\ Backed(cbom, found)
      /\ due \subseteq found /\ found \subseteq calls \cup excused
  BY DEF Inv, Phase, InStep
<1>2. /\ found \subseteq [loc : 1..MaxLines, name : RuleNames] /\ cbom \in Seq(Cbom!Components)
      /\ sbom \in Sboms
  BY DEF Inv, TypeOK, Scan!TypeOK, Cbom!TypeOK
<1>3. PICK upstream \in Upstreams : report = Analysis!Report(cbom, Read(sbom), upstream)
  BY DEF Inv, Phase
<1>4. Len(Read(sbom)) \in Nat /\ DOMAIN Read(sbom) = 1..Len(Read(sbom))
  BY <1>2, ReadTyped
<1> QED
  BY <1>1, <1>2, <1>3, <1>4, ReportsTyped

(* A site and a component that matches it are of one class.                *)
LEMMA OneClass ==
    ASSUME NEW c \in [loc : 1..MaxLines, name : RuleNames], NEW comp \in Cbom!Components,
           Cbom!Matches(c.name, comp.name)
    PROVE  /\ Analysis!ClassOf(c.name) = Analysis!ClassOf(comp.name)
           /\ Analysis!ClassOf(c.name) \in Analysis!Classes
<1>1. c.name \in Names /\ comp.name \in Names
  BY ClassesAssumption DEF Cbom!Components
<1>2. Analysis!ClassOf(c.name) = Analysis!ClassOf(comp.name)
  BY <1>1, ClassesAssumption
<1>3. Analysis!ClassOf(c.name) \in Analysis!Classes
  BY DEF Analysis!ClassOf, Analysis!Classes
<1> QED
  BY <1>2, <1>3

(* The scanner's own components are cryptographic assets, and so are all   *)
(* of them where the generator writes no other kind.                       *)
LEMMA AssetsStep ==
    ASSUME FALSE \notin Kinds, Inv, AllCrypto(cbom), AllCrypto(comps), [Next]_vars
    PROVE  AllCrypto(cbom') /\ AllCrypto(comps')
<1> USE DEF scan, reconcile, result
<1>1. Cbom!TypeOK
  BY DEF Inv, TypeOK
<1>2. AllCrypto(<<>>)
  BY DEF AllCrypto
<1>3. CASE Generate
  <2>1. PICK cs \in Cbom!Generated : Cbom!Generate(cs)
    BY <1>3 DEF Generate
  <2>2. \A i \in DOMAIN cs : cs[i].crypto
    BY GeneratedTyped, ClassesAssumption
  <2> QED BY <2>1, <2>2 DEF Cbom!Generate, Cbom!run, AllCrypto
<1>4. CASE EndScan
  BY <1>2, <1>4 DEF EndScan, Cbom!Start, Cbom!disk
<1>5. CASE Reconcile
  <2>1. ASSUME NEW s \in todo, Cbom!ReconcileSite(s) PROVE AllCrypto(cbom') /\ AllCrypto(comps')
    <3>1. s \in Cbom!Sites /\ comps \in Seq(Cbom!Components) /\ Cbom!Record(s) /\ cbom' = cbom
      BY <1>1, <2>1 DEF Cbom!TypeOK, Cbom!ReconcileSite, Cbom!disk
    <3> QED BY <3>1, RecordKeeps
  <2>2. ASSUME Cbom!BeginWrite PROVE AllCrypto(cbom') /\ AllCrypto(comps')
    BY <1>2, <2>2 DEF Cbom!BeginWrite, Cbom!run
  <2> QED BY <1>5, <2>1, <2>2 DEF Reconcile
<1>6. CASE EndReconcile
  BY <1>2, <1>6 DEF EndReconcile, Cbom!EndWrite, Cbom!End
<1>7. CASE UNCHANGED <<cbom, comps>>
  BY <1>7
<1> QED
  BY <1>3, <1>4, <1>5, <1>6, <1>7
     DEF Next, GeneratorFails, ScanLine, RejectCbom, Verify, Analyse, Publish, Done, vars

(* The table of its class lists a call, unless it is symmetric and the     *)
(* component that has its location is no cryptographic asset.              *)
LEMMA RowHasCall ==
    ASSUME Inv, step = "published", NEW c \in due,
           AllCrypto(cbom) \/ Analysis!ClassOf(c.name) # "symmetric"
    PROVE  Analysis!ClassOf(c.name) \in RowsWith(c.loc)
<1>1. PICK i \in DOMAIN cbom : c.loc \in cbom[i].occ /\ Cbom!Matches(c.name, cbom[i].name)
  BY Published DEF Shown, Cbom!Covers
<1>2. cbom[i] \in Cbom!Components /\ cbom[i] \in Analysis!Range(cbom)
  BY Published, SameOperators DEF Range
<1>3. /\ Analysis!ClassOf(c.name) = Analysis!ClassOf(cbom[i].name)
      /\ Analysis!ClassOf(c.name) \in Analysis!Classes
  BY <1>1, <1>2, Published, OneClass
<1>4. cbom[i] \in Analysis!FirstParty(cbom, Analysis!ClassOf(c.name))
  BY <1>2, <1>3 DEF Analysis!FirstParty, Analysis!Listed, AllCrypto
<1> QED
  BY <1>1, <1>3, <1>4, Published DEF RowsWith

(* Where the generator writes cryptographic assets only, a published       *)
(* report shows every call that the scanner is held to at its line in the  *)
(* table of its class: for a file of any length and with any lines, and    *)
(* for any components the generator wrote.                                 *)
THEOREM Reported == FALSE \notin Kinds => (Spec => []CallsReported)
<1> SUFFICES ASSUME FALSE \notin Kinds PROVE Spec => []CallsReported
  OBVIOUS
<1> DEFINE Assets == AllCrypto(cbom) /\ AllCrypto(comps)
<1>1. Init => Assets
  BY DEF Init, Cbom!Init, AllCrypto
<1>2. Inv /\ Assets /\ [Next]_vars => Assets'
  BY AssetsStep
<1>3. Inv /\ Assets => CallsReported
  BY RowHasCall DEF CallsReported
<1> QED
  BY <1>1, <1>2, <1>3, Invariant, PTL DEF Spec

(* Whatever kinds of components the generator writes, a published report   *)
(* shows every quantum-vulnerable or post-quantum call that the scanner is *)
(* held to: only a symmetric one can be lost, to a library of its name.    *)
QuantumCallsReported ==
    step = "published" =>
        \A c \in due : Analysis!ClassOf(c.name) # "symmetric" =>
                         Analysis!ClassOf(c.name) \in RowsWith(c.loc)

THEOREM QuantumReported == Spec => []QuantumCallsReported
<1>1. Inv => QuantumCallsReported
  BY RowHasCall DEF QuantumCallsReported
<1> QED
  BY <1>1, Invariant, PTL

(* A published report shows no location that holds neither a call of that  *)
(* class nor a mention that the scanner takes for one, whatever lines the  *)
(* file has and whatever kinds of components the generator wrote.          *)
THEOREM NoneInvented == Spec => []NothingInvented
<1>1. Inv => NothingInvented
  <2> SUFFICES ASSUME Inv, step = "published",
                      NEW loc \in 1..MaxLines, NEW class \in RowsWith(loc)
               PROVE  \E c \in calls \cup excused :
                         c.loc = loc /\ Analysis!ClassOf(c.name) = class
    BY DEF NothingInvented
  <2>1. PICK comp \in Analysis!FirstParty(cbom, class) : loc \in comp.occ
    BY Published DEF RowsWith
  <2>2. PICK i \in DOMAIN cbom : comp = cbom[i]
    BY SameOperators DEF Analysis!FirstParty, Range
  <2>3. Analysis!ClassOf(comp.name) = class /\ comp \in Cbom!Components
    BY <2>2, Published DEF Analysis!FirstParty, Analysis!Listed
  <2>4. PICK c \in found : c.loc = loc /\ Cbom!Matches(c.name, comp.name)
    BY <2>1, <2>2, Published DEF Backed
  <2>5. Analysis!ClassOf(c.name) = Analysis!ClassOf(comp.name)
    BY <2>3, <2>4, Published, OneClass
  <2>6. c \in calls \cup excused
    BY Published
  <2> QED BY <2>3, <2>4, <2>5, <2>6
<1> QED
  BY <1>1, Invariant, PTL

-----------------------------------------------------------------------------
(* The rating *)

(* A name with assets counts once however many places of the SBOM have it. *)
LEMMA NamesCounted ==
    ASSUME NEW deps, Len(deps) \in Nat, DOMAIN deps = 1..Len(deps), NEW ps
    PROVE  LET places == {i \in DOMAIN deps : Analysis!AssetsOf(deps[i], ps) # {}} IN
           /\ IsFiniteSet(places) /\ Cardinality(places) \in Nat
           /\ Cardinality(Analysis!WithAssets(deps, ps)) \in Nat
           /\ Cardinality(Analysis!WithAssets(deps, ps)) <= Cardinality(places)
<1> DEFINE places == {i \in DOMAIN deps : Analysis!AssetsOf(deps[i], ps) # {}}
           names  == Analysis!WithAssets(deps, ps)
           f      == [i \in places |-> deps[i]]
<1>1. IsFiniteSet(places)
  <2>1. IsFiniteSet(1..Len(deps)) /\ places \in SUBSET (1..Len(deps))
    BY FS_Interval
  <2> HIDE DEF places
  <2> QED BY <2>1, FS_Subset
<1>2. names = {deps[i] : i \in places}
  BY SameOperators DEF Analysis!WithAssets, Range
<1> HIDE DEF places, names
<1>3. f \in Surjection(places, names)
  BY <1>2 DEF Surjection
<1> HIDE DEF f
<1>4. IsFiniteSet(names) /\ Cardinality(names) <= Cardinality(places)
  BY <1>1, <1>3, FS_Surjection
<1>5. Cardinality(places) \in Nat /\ Cardinality(names) \in Nat
  BY <1>1, <1>4, FS_CardinalityType
<1> QED
  BY <1>1, <1>4, <1>5 DEF places, names

(* The places of an SBOM with assets, the inert and the unassimilated ones *)
(* are different places.                                                   *)
LEMMA PlacesCounted ==
    ASSUME NEW deps, Len(deps) \in Nat, DOMAIN deps = 1..Len(deps), NEW ps
    PROVE  /\ Analysis!Verified(deps, ps) \in Nat
           /\ Cardinality(Analysis!Unassimilated(deps, ps)) \in Nat
           /\ Analysis!Verified(deps, ps) + Cardinality(Analysis!Unassimilated(deps, ps)) <= Len(deps)
<1> DEFINE A == {i \in DOMAIN deps : Analysis!AssetsOf(deps[i], ps) # {}}
           B == Analysis!Inert(deps, ps)
           C == Analysis!Unassimilated(deps, ps)
<1>1. /\ IsFiniteSet(A) /\ Cardinality(A) \in Nat
      /\ Cardinality(Analysis!WithAssets(deps, ps)) \in Nat
      /\ Cardinality(Analysis!WithAssets(deps, ps)) <= Cardinality(A)
  BY NamesCounted
<1>2. A \cap B = {}
  BY DEF Analysis!Inert
<1>3. (A \cup B) \cap C = {}
  <2>1. \A i \in C : Analysis!ProfileOf(deps[i], ps) = {}
    BY DEF Analysis!Unassimilated
  <2>2. \A i \in C : Analysis!AssetsOf(deps[i], ps) = {}
    BY <2>1 DEF Analysis!AssetsOf
  <2> QED BY <2>1, <2>2 DEF Analysis!Inert
<1>4. A \subseteq 1..Len(deps) /\ B \subseteq 1..Len(deps) /\ C \subseteq 1..Len(deps)
  BY DEF Analysis!Inert, Analysis!Unassimilated
<1>5. Analysis!Verified(deps, ps) = Cardinality(Analysis!WithAssets(deps, ps)) + Cardinality(B)
  BY SameOperators DEF Analysis!Verified
<1> HIDE DEF A, B, C
<1>6. IsFiniteSet(1..Len(deps)) /\ Cardinality(1..Len(deps)) = Len(deps)
  <2>1. 1 \in Int /\ Len(deps) \in Int
    OBVIOUS
  <2>2. /\ IsFiniteSet(1..Len(deps))
        /\ Cardinality(1..Len(deps)) = IF 1 > Len(deps) THEN 0 ELSE Len(deps) - 1 + 1
    BY <2>1, FS_Interval, Zenon
  <2> QED BY <2>2
<1>7. IsFiniteSet(B) /\ IsFiniteSet(C)
  BY <1>4, <1>6, FS_Subset
<1>8. IsFiniteSet(A \cup B) /\ Cardinality(A \cup B) = Cardinality(A) + Cardinality(B)
  <2>1. Cardinality(A \cap B) = 0
    BY <1>2, FS_EmptySet
  <2>2. Cardinality(A) \in Nat /\ Cardinality(B) \in Nat
    BY <1>1, <1>7, FS_CardinalityType
  <2>3. /\ IsFiniteSet(A \cup B)
        /\ Cardinality(A \cup B) = Cardinality(A) + Cardinality(B) - Cardinality(A \cap B)
    BY <1>1, <1>7, FS_Union, Zenon
  <2> QED BY <2>1, <2>2, <2>3
<1>9. /\ IsFiniteSet((A \cup B) \cup C)
      /\ Cardinality((A \cup B) \cup C) = Cardinality(A \cup B) + Cardinality(C)
  <2>1. Cardinality((A \cup B) \cap C) = 0
    BY <1>3, FS_EmptySet
  <2>2. Cardinality(A \cup B) \in Nat /\ Cardinality(C) \in Nat
    BY <1>7, <1>8, FS_CardinalityType
  <2>3. /\ IsFiniteSet((A \cup B) \cup C)
        /\ Cardinality((A \cup B) \cup C)
             = Cardinality(A \cup B) + Cardinality(C) - Cardinality((A \cup B) \cap C)
    BY <1>7, <1>8, FS_Union, Zenon
  <2> QED BY <2>1, <2>2, <2>3
<1>10. Cardinality((A \cup B) \cup C) <= Len(deps)
  <2>1. (A \cup B) \cup C \in SUBSET (1..Len(deps))
    BY <1>4
  <2> QED BY <1>6, <2>1, FS_Subset
<1>11. Cardinality(B) \in Nat /\ Cardinality(C) \in Nat
  BY <1>7, FS_CardinalityType
<1> QED
  BY <1>1, <1>5, <1>8, <1>9, <1>10, <1>11 DEF C

(* A score that is rounded to 80.0 % or more is at least 79.95 %.          *)
LEMMA Rounded ==
    ASSUME NEW n \in Nat, NEW d \in Nat, d > 0, Analysis!Tenths(n, d) >= 800
    PROVE  2000 * n >= 1599 * d
<1> DEFINE q == (2000 * n + d) \div (2 * d)
<1>1. q >= 800 /\ 2 * d > 0 /\ 2 * d \in Nat /\ 2000 * n + d \in Nat
  BY DEF Analysis!Tenths
<1>2. q \in Int /\ (2 * d) * q <= 2000 * n + d
  BY <1>1
<1>3. (2 * d) * 800 <= (2 * d) * q
  <2> HIDE DEF q
  <2> QED BY <1>1, <1>2
<1> HIDE DEF q
<1>4. (2 * d) * q \in Int
  BY <1>2
<1> QED
  BY <1>2, <1>3, <1>4

(* The audit of any dependencies is rated HIGH only if at most 20.05 % of  *)
(* them and the code are unverified, however their assets and versions are *)
(* counted, and first-party only where there are none or their SBOM could  *)
(* not be read.                                                            *)
THEOREM Rated == Spec => []RatingEarned
<1>1. ASSUME Inv, report # None, report.rating = "HIGH"
      PROVE  2000 * (Cardinality(report.blind) + report.more) <= 401 * (Len(sbom) + 1)
  <2> DEFINE deps == Read(sbom)
  <2>1. PICK upstream \in Upstreams : report = Analysis!Report(cbom, deps, upstream)
    BY <1>1, Reporting
  <2> DEFINE ps    == Analysis!LoadCatalog(upstream)
             score == Analysis!Score(deps, ps)
             n     == Cardinality(Analysis!Unassimilated(deps, ps))
  <2>2. Len(deps) \in Nat /\ DOMAIN deps = 1..Len(deps)
    BY <1>1, Reporting, ReadTyped
  <2>3. /\ report.rating = Analysis!Rating(deps, score)
        /\ Cardinality(report.blind) + report.more = n
    BY <1>1, <2>1, <2>2, Reporting, ReportsTyped
  <2> HIDE DEF ps, deps
  <2>4. score >= 800 /\ deps # <<>>
    <3> HIDE DEF score
    <3>1. \A x : Analysis!Rating(deps, x) = "HIGH" => x >= 800 /\ deps # <<>>
      BY SMTT(60) DEF Analysis!Rating
    <3> QED BY <1>1, <2>3, <3>1
  <2>5. deps = sbom
    BY <2>4 DEF Read, deps
  <2>6. /\ Analysis!Verified(deps, ps) \in Nat /\ n \in Nat
        /\ Analysis!Verified(deps, ps) + n <= Len(deps)
    BY <2>2, PlacesCounted
  <2>7. Analysis!Tenths(Analysis!Verified(deps, ps) + 1, Len(deps) + 1) >= 800
    BY <2>4 DEF Analysis!Score
  <2>8. 2000 * (Analysis!Verified(deps, ps) + 1) >= 1599 * (Len(deps) + 1)
    BY <2>2, <2>6, <2>7, Rounded
  <2> HIDE DEF n
  <2> QED BY <2>2, <2>3, <2>5, <2>6, <2>8
<1>2. ASSUME Inv, report # None, report.rating = "FirstPartyOnly"
      PROVE  \/ sbom = <<>>
             \/ sbomFile["cyclonedx"] = "broken" /\ sbomFile["spdx"] = "whole"
  <2>1. PICK upstream \in Upstreams : report = Analysis!Report(cbom, Read(sbom), upstream)
    BY <1>2, Reporting
  <2>2. Len(Read(sbom)) \in Nat /\ DOMAIN Read(sbom) = 1..Len(Read(sbom))
    BY <1>2, Reporting, ReadTyped
  <2> DEFINE score == Analysis!Score(Read(sbom), Analysis!LoadCatalog(upstream))
  <2>3. report.rating = Analysis!Rating(Read(sbom), score)
    BY <1>2, <2>1, <2>2, Reporting, ReportsTyped
  <2> HIDE DEF score
  <2>4. Read(sbom) = <<>>
    BY <1>2, <2>3 DEF Analysis!Rating
  <2>5. PICK f \in {"cyclonedx", "spdx"} : sbomFile[f] = "whole"
    BY <1>2, Reporting DEF Formats
  <2>6. sbomFile["cyclonedx"] \in {"absent", "broken", "whole"}
    BY <1>2, Reporting DEF Formats, Files
  <2> QED BY <2>4, <2>5, <2>6 DEF Read, Assessed
<1>3. Inv => RatingEarned
  <2> SUFFICES ASSUME Inv, report # None PROVE RatingEarned
    BY DEF RatingEarned
  <2>1. CASE report.rating = "HIGH"
    BY <1>1, <2>1 DEF RatingEarned
  <2>2. CASE report.rating = "FirstPartyOnly"
    BY <1>2, <2>2 DEF RatingEarned
  <2> QED BY <2>1, <2>2 DEF RatingEarned
<1> QED
  BY <1>3, Invariant, PTL
=============================================================================
