------------------------ MODULE CbomReconcileProofs ------------------------
(***************************************************************************)
(* Proofs about CbomReconcile, for any names, any locations and any number *)
(* of components and call sites.                                           *)
(*                                                                         *)
(* What both safety properties rest on is Held(cs, s): the component that  *)
(* a lookup of s in cs finds has s among its occurrences.  RecordKeeps     *)
(* shows that reconciling a site makes it held, that every held site stays *)
(* held and that reconciling a held site changes nothing.                  *)
(*                                                                         *)
(* The last part is about BomDistribution, the way a CBOM takes to another *)
(* host: a script has seen the image the tag names (TagSeen), and what it  *)
(* fetched stays attached.                                                 *)
(***************************************************************************)
EXTENDS CbomReconcile, WellFoundedInduction, TLAPS

Held(cs, s) == \E k \in FindMatchingComp(cs, s.name) : s.loc \in cs[k].occ

-----------------------------------------------------------------------------
(* Lookups in comp_map *)

(* A nonempty set of positions has a first one. *)
LEMMA Least ==
    ASSUME NEW T, T \subseteq Nat, T # {}
    PROVE  \E m \in T : \A k \in T : m <= k
<1> DEFINE R == OpToRel(<, Nat)
<1>1. IsWellFoundedOn(R, Nat)
  BY NatLessThanWellFounded, Zenon
<1>2. PICK m \in T : \A k \in T : ~(<<k, m>> \in R)
  BY <1>1, WFMin, Zenon
<1>3. \A k \in T : ~(k < m)
  BY <1>2 DEF OpToRel
<1> QED
  BY <1>3

(* A nonempty set of positions of a sequence has a last one. *)
LEMMA Greatest ==
    ASSUME NEW n \in Nat, NEW T, T \subseteq 1..n, T # {}
    PROVE  \E m \in T : \A k \in T : k <= m
<1> DEFINE U == {n - t : t \in T}
<1>1. U \subseteq Nat /\ U # {}
  <2>1. ASSUME NEW t \in T PROVE n - t \in Nat
    OBVIOUS
  <2>2. PICK t \in T : TRUE
    OBVIOUS
  <2>3. n - t \in U
    OBVIOUS
  <2> QED BY <2>1, <2>3
<1>2. PICK u \in U : \A v \in U : u <= v
  <2>1. U \subseteq Nat
    BY <1>1
  <2>2. U # {}
    BY <1>1
  <2> HIDE DEF U
  <2> QED BY <2>1, <2>2, Least
<1>3. PICK m \in T : u = n - m
  BY <1>2
<1>4. \A k \in T : n - m <= n - k
  BY <1>2, <1>3
<1>5. \A k \in T : k <= m
  BY <1>4
<1> QED
  BY <1>5

(* A name matches itself. *)
LEMMA MatchesItself == \A n : Matches(n, n)
BY DEF Matches

(* A lookup finds something as soon as some component matches. *)
LEMMA LookupFinds ==
    ASSUME NEW cs \in Seq(Components), NEW n, NEW j \in DOMAIN cs, Matches(n, cs[j].name)
    PROVE  FindMatchingComp(cs, n) # {}
<1> DEFINE T == {i \in DOMAIN cs : Matches(n, cs[i].name)}
<1>1. T \subseteq 1..Len(cs) /\ T # {} /\ Len(cs) \in Nat
  OBVIOUS
<1>2. PICK i \in T : \A k \in T : i <= k
  <2> HIDE DEF T
  <2>1. T \subseteq Nat
    BY <1>1
  <2> QED BY <1>1, <2>1, Least
<1>3. \A k \in 1..(i - 1) : ~Matches(n, cs[k].name)
  <2> SUFFICES ASSUME NEW k \in 1..(i - 1), Matches(n, cs[k].name) PROVE FALSE
    OBVIOUS
  <2>1. k \in DOMAIN cs /\ k < i
    BY <1>2
  <2> QED BY <1>2, <2>1
<1>4. i \in FirstMatch(cs, n)
  BY <1>2, <1>3 DEF FirstMatch
<1> DEFINE U == {k \in DOMAIN cs : cs[k].name = cs[i].name}
<1>5. U \subseteq 1..Len(cs) /\ U # {}
  BY <1>2
<1>6. PICK k \in U : \A l \in U : l <= k
  <2> HIDE DEF U
  <2> QED BY <1>1, <1>5, Greatest
<1>7. \A l \in DOMAIN cs : l > k => cs[l].name # cs[i].name
  <2> SUFFICES ASSUME NEW l \in DOMAIN cs, l > k, cs[l].name = cs[i].name PROVE FALSE
    OBVIOUS
  <2>1. l <= k
    BY <1>6
  <2>2. k \in Nat /\ l \in Nat
    BY <1>5, <1>6
  <2> QED BY <2>1, <2>2
<1>8. k \in FindMatchingComp(cs, n)
  BY <1>4, <1>6, <1>7 DEF FindMatchingComp
<1> QED
  BY <1>8

(* A lookup finds a component that matches. *)
LEMMA LookupMatches ==
    ASSUME NEW cs, NEW n, NEW k \in FindMatchingComp(cs, n)
    PROVE  k \in DOMAIN cs /\ Matches(n, cs[k].name)
BY DEF FindMatchingComp, FirstMatch

(* A lookup finds one component. *)
LEMMA LookupUnique ==
    ASSUME NEW cs \in Seq(Components), NEW n,
           NEW k \in FindMatchingComp(cs, n), NEW l \in FindMatchingComp(cs, n)
    PROVE  k = l
<1>1. PICK i \in FirstMatch(cs, n) :
        cs[k].name = cs[i].name /\ \A q \in DOMAIN cs : q > k => cs[q].name # cs[i].name
  BY DEF FindMatchingComp
<1>2. PICK j \in FirstMatch(cs, n) :
        cs[l].name = cs[j].name /\ \A q \in DOMAIN cs : q > l => cs[q].name # cs[j].name
  BY DEF FindMatchingComp
<1>3. i \in Nat /\ j \in Nat /\ i >= 1 /\ j >= 1
  BY DEF FirstMatch
<1>4. ~(i < j) /\ ~(j < i)
  BY <1>3 DEF FirstMatch
<1>5. i = j
  BY <1>3, <1>4
<1>6. k \in DOMAIN cs /\ l \in DOMAIN cs /\ k \in Nat /\ l \in Nat
  BY DEF FindMatchingComp
<1>7. ~(k < l) /\ ~(l < k)
  BY <1>1, <1>2, <1>5, <1>6
<1> QED
  BY <1>6, <1>7

(* A lookup depends on the names of the components only. *)
LEMMA LookupByName ==
    ASSUME NEW cs, NEW ds, NEW n,
           DOMAIN ds = DOMAIN cs, \A i \in DOMAIN cs : ds[i].name = cs[i].name,
           DOMAIN cs \subseteq Nat, \A i \in DOMAIN cs : 1..i \subseteq DOMAIN cs
    PROVE  FindMatchingComp(ds, n) = FindMatchingComp(cs, n)
<1>1. \A i \in DOMAIN cs : \A j \in 1..(i - 1) : j \in DOMAIN cs
  OBVIOUS
<1>2. FirstMatch(ds, n) = FirstMatch(cs, n)
  BY <1>1 DEF FirstMatch
<1> QED
  BY <1>2 DEF FindMatchingComp, FirstMatch

-----------------------------------------------------------------------------
(* Reconciling one site *)

(* Recording a site makes it held, keeps the held ones, and does nothing   *)
(* for a site that is held.                                                *)
LEMMA RecordKeeps ==
    ASSUME TypeOK, NEW s \in Sites, Record(s)
    PROVE  /\ comps' \in Seq(Components)
           /\ Held(comps', s)
           /\ \A t \in Sites : Held(comps, t) => Held(comps', t)
           /\ Held(comps, s) => comps' = comps
<1> USE NamesAssumption DEF TypeOK, Sites
<1>1. CASE /\ FindMatchingComp(comps, s.name) = {}
           /\ comps' = Append(comps, NewComponent(s))
  <2> DEFINE last == Len(comps) + 1
  <2>1. NewComponent(s) \in Components
    BY DEF NewComponent, Components
  <2>2. /\ comps' \in Seq(Components) /\ Len(comps') = last
        /\ \A i \in 1..Len(comps) : comps'[i] = comps[i]
        /\ comps'[last] = NewComponent(s)
        /\ DOMAIN comps' = 1..last /\ DOMAIN comps = 1..Len(comps) /\ Len(comps) \in Nat
    BY <1>1, <2>1
  <2>3. \A i \in DOMAIN comps : ~Matches(s.name, comps[i].name)
    BY <1>1, LookupFinds
  <2>4. last \in FirstMatch(comps', s.name)
    <3>1. comps'[last].name = s.name /\ last \in DOMAIN comps'
      BY <2>2 DEF NewComponent
    <3>2. Matches(s.name, comps'[last].name)
      BY <3>1, MatchesItself
    <3>3. \A j \in 1..(last - 1) : j \in DOMAIN comps /\ comps'[j] = comps[j]
      BY <2>2
    <3>4. \A j \in 1..(last - 1) : ~Matches(s.name, comps'[j].name)
      BY <2>3, <3>3
    <3> QED BY <3>1, <3>2, <3>4 DEF FirstMatch
  <2>5. last \in FindMatchingComp(comps', s.name)
    BY <2>2, <2>4 DEF FindMatchingComp
  <2>6. Held(comps', s)
    <3>1. comps'[last].occ = {s.loc}
      BY <2>2 DEF NewComponent
    <3>2. s.loc \in comps'[last].occ
      BY <3>1
    <3> HIDE DEF last
    <3> QED BY <2>5, <3>2 DEF Held
  <2>7. ASSUME NEW t \in Sites, Held(comps, t) PROVE Held(comps', t)
    <3>1. PICK k \in FindMatchingComp(comps, t.name) : t.loc \in comps[k].occ
      BY <2>7 DEF Held
    <3>2. PICK i \in FirstMatch(comps, t.name) :
            /\ k \in DOMAIN comps
            /\ comps[k].name = comps[i].name
            /\ \A l \in DOMAIN comps : l > k => comps[l].name # comps[i].name
      BY DEF FindMatchingComp
    <3>3. i \in DOMAIN comps
      BY DEF FirstMatch
    <3>4. comps'[i] = comps[i] /\ comps'[k] = comps[k] /\ i \in DOMAIN comps' /\ k \in DOMAIN comps'
      BY <2>2, <3>2, <3>3
    <3>5. \A j \in 1..(i - 1) : j \in 1..Len(comps)
      BY <2>2, <3>3
    <3>6. i \in FirstMatch(comps', t.name)
      BY <2>2, <3>4, <3>5 DEF FirstMatch
    <3>7. comps[i].name # s.name
      BY <2>3, <3>3, MatchesItself
    <3>8. ASSUME NEW l \in DOMAIN comps', l > k PROVE comps'[l].name # comps'[i].name
      <4>1. CASE l \in DOMAIN comps
        BY <2>2, <3>2, <3>4, <3>8, <4>1
      <4>2. CASE l = last
        BY <2>2, <3>4, <3>7, <4>2 DEF NewComponent
      <4> QED BY <2>2, <4>1, <4>2
    <3>9. k \in FindMatchingComp(comps', t.name)
      BY <3>2, <3>4, <3>6, <3>8 DEF FindMatchingComp
    <3> QED BY <3>1, <3>4, <3>9 DEF Held
  <2>8. ~Held(comps, s)
    BY <1>1 DEF Held
  <2> QED BY <2>2, <2>6, <2>7, <2>8
<1>2. ASSUME NEW k \in FindMatchingComp(comps, s.name),
             comps' = [comps EXCEPT ![k].occ = @ \cup {s.loc}]
      PROVE  /\ comps' \in Seq(Components)
             /\ Held(comps', s)
             /\ \A t \in Sites : Held(comps, t) => Held(comps', t)
             /\ Held(comps, s) => comps' = comps
  <2>1. k \in DOMAIN comps
    BY LookupMatches
  <2>2. comps[k] \in Components
    BY <2>1
  <2>3. [comps[k] EXCEPT !.occ = @ \cup {s.loc}] \in Components
    BY <2>2 DEF Components
  <2>4. comps' = [comps EXCEPT ![k] = [comps[k] EXCEPT !.occ = @ \cup {s.loc}]]
    BY <1>2
  <2>5. comps' \in Seq(Components)
    BY <2>1, <2>3, <2>4
  <2>6. /\ DOMAIN comps' = DOMAIN comps
        /\ \A i \in DOMAIN comps : /\ comps'[i].name = comps[i].name
                                   /\ comps[i].occ \subseteq comps'[i].occ
        /\ s.loc \in comps'[k].occ
    BY <2>1, <2>2, <2>4 DEF Components
  <2>7. DOMAIN comps \subseteq Nat /\ \A i \in DOMAIN comps : 1..i \subseteq DOMAIN comps
    OBVIOUS
  <2>8. ASSUME NEW n PROVE FindMatchingComp(comps', n) = FindMatchingComp(comps, n)
    BY <2>6, <2>7, LookupByName
  <2>9. Held(comps', s)
    BY <2>6, <2>8 DEF Held
  <2>10. ASSUME NEW t \in Sites, Held(comps, t) PROVE Held(comps', t)
    <3>1. PICK l \in FindMatchingComp(comps, t.name) : t.loc \in comps[l].occ
      BY <2>10 DEF Held
    <3>2. l \in DOMAIN comps
      BY LookupMatches
    <3> QED BY <2>6, <2>8, <3>1, <3>2 DEF Held
  <2>11. ASSUME Held(comps, s) PROVE comps' = comps
    <3>1. s.loc \in comps[k].occ
      BY <2>11, LookupUnique DEF Held
    <3>2. [comps[k] EXCEPT !.occ = @ \cup {s.loc}] = comps[k]
      BY <2>2, <3>1 DEF Components
    <3> QED BY <2>1, <2>4, <3>2
  <2> QED BY <2>5, <2>9, <2>10, <2>11
<1> QED
  BY <1>1, <1>2 DEF Record

(* A held site is covered by a component that matches it. *)
LEMMA HeldCovers ==
    ASSUME NEW cs, NEW s, Held(cs, s)
    PROVE  Covers(cs, s)
BY LookupMatches DEF Held, Covers

-----------------------------------------------------------------------------
(* Types *)

(* Every reachable state is well typed: in particular, what a run works on *)
(* and what it writes are components with the names of the rules or of the *)
(* components that were there.                                             *)
THEOREM TypeCorrect == Spec => []TypeOK
<1> USE NamesAssumption DEF TypeOK, run, disk, vars
<1>1. Init => TypeOK
  BY DEF Init
<1>2. TypeOK /\ [Next]_vars => TypeOK'
  <2> SUFFICES ASSUME TypeOK, [Next]_vars PROVE TypeOK'
    OBVIOUS
  <2>1. ASSUME NEW cs \in Generated, Generate(cs) PROVE TypeOK'
    <3>1. PICK n \in 0..MaxGenerated : cs \in [1..n -> [name : Names, crypto : Kinds, occ : {{}}]]
      BY DEF Generated
    <3>2. \A i \in 1..n : cs[i] \in Components
      BY <3>1, KindsAssumption DEF Components
    <3>3. cs \in Seq(Components)
      BY <3>1, <3>2
    <3> QED BY <2>1, <3>3 DEF Generate
  <2>2. ASSUME NEW sites \in Codes, Start(sites) PROVE TypeOK'
    BY <2>2 DEF Start, Codes
  <2>3. ASSUME NEW s \in Sites, ReconcileSite(s) PROVE TypeOK'
    <3>1. comps' \in Seq(Components)
      BY <2>3, RecordKeeps DEF ReconcileSite
    <3> QED BY <2>3, <3>1 DEF ReconcileSite
  <2>4. ASSUME BeginWrite PROVE TypeOK'
    BY <2>4 DEF BeginWrite
  <2>5. ASSUME EndWrite PROVE TypeOK'
    BY <2>5 DEF EndWrite, End
  <2>6. ASSUME Kill PROVE TypeOK'
    BY <2>6 DEF Kill, End
  <2>7. CASE UNCHANGED vars
    BY <2>7
  <2> QED
    BY <2>1, <2>2, <2>3, <2>4, <2>5, <2>6, <2>7 DEF Next
<1> QED
  BY <1>1, <1>2, PTL DEF Spec

-----------------------------------------------------------------------------
(* Coverage and repetition *)

(* What a run has reconciled is held in its memory; what the last run      *)
(* reconciled is held on disk as long as the disk is whole; and a run of   *)
(* the same sites has found all of them held in what it loaded.            *)
RunHolds    == pc # "idle" => \A s \in scanned \ todo : Held(comps, s)
WriteDone   == pc = "writing" => todo = {}
DiskHolds   == file = "whole" => \A s \in settled : Held(cbom, s)
DiskExists  == file = "absent" => settled = {}
RunRepeats  == pc # "idle" /\ scanned = settled =>
                  comps = loaded /\ \A s \in scanned : Held(comps, s)

ReconcileInv == RunHolds /\ WriteDone /\ DiskHolds /\ DiskExists /\ RunRepeats

(* The invariant holds in every reachable state. *)
THEOREM ReconcileInvariant == Spec => []ReconcileInv
<1> USE DEF ReconcileInv, RunHolds, WriteDone, DiskHolds, DiskExists, RunRepeats, run, disk, vars
<1>1. Init => ReconcileInv
  BY DEF Init
<1>2. TypeOK /\ ReconcileInv /\ [Next]_vars => ReconcileInv'
  <2> SUFFICES ASSUME TypeOK, ReconcileInv, [Next]_vars PROVE ReconcileInv'
    OBVIOUS
  <2>1. ASSUME NEW cs \in Generated, Generate(cs) PROVE ReconcileInv'
    BY <2>1 DEF Generate
  <2>2. ASSUME NEW sites \in Codes, Start(sites) PROVE ReconcileInv'
    <3>1. /\ file \in {"absent", "whole"} /\ scanned' = sites /\ todo' = sites
          /\ comps' = loaded' /\ pc' = "reconciling" /\ UNCHANGED <<disk, settled>>
          /\ file = "whole" => comps' = cbom
      BY <2>2 DEF Start, TypeOK
    <3>2. ASSUME scanned' = settled', NEW s \in scanned' PROVE Held(comps', s)
      BY <3>1, <3>2
    <3>3. RunHolds' /\ WriteDone' /\ DiskExists' /\ DiskHolds'
      BY <3>1
    <3> QED BY <3>1, <3>2, <3>3
  <2>3. ASSUME NEW s \in Sites, ReconcileSite(s) PROVE ReconcileInv'
    <3>1. /\ pc = "reconciling" /\ s \in todo /\ todo' = todo \ {s} /\ Record(s)
          /\ UNCHANGED <<disk, pc, scanned, loaded, settled>>
      BY <2>3 DEF ReconcileSite
    <3>2. /\ Held(comps', s)
          /\ \A t \in Sites : Held(comps, t) => Held(comps', t)
          /\ Held(comps, s) => comps' = comps
      BY <3>1, RecordKeeps
    <3>3. scanned \subseteq Sites /\ s \in scanned
      BY <3>1 DEF TypeOK
    <3>4. \A t \in scanned' \ todo' : Held(comps', t)
      BY <3>1, <3>2, <3>3
    <3>5. RunRepeats'
      BY <3>1, <3>2, <3>3
    <3>6. WriteDone' /\ DiskHolds' /\ DiskExists'
      BY <3>1
    <3> QED BY <3>4, <3>5, <3>6
  <2>4. ASSUME BeginWrite PROVE ReconcileInv'
    BY <2>4 DEF BeginWrite
  <2>5. ASSUME EndWrite PROVE ReconcileInv'
    BY <2>5 DEF EndWrite, End
  <2>6. ASSUME Kill PROVE ReconcileInv'
    BY <2>6 DEF Kill, End
  <2>7. CASE UNCHANGED vars
    BY <2>7
  <2> QED
    BY <2>1, <2>2, <2>3, <2>4, <2>5, <2>6, <2>7 DEF Next
<1> QED
  BY <1>1, <1>2, TypeCorrect, PTL DEF Spec

(* After reconcile_with_cbom has written the CBOM, each call site of its   *)
(* scan is an occurrence of a component that matches it, for any names,    *)
(* any number of sites and components, and any runs killed before.         *)
THEOREM Covered == Spec => []SitesCovered
<1>1. ReconcileInv => SitesCovered
  BY HeldCovers DEF ReconcileInv, DiskHolds, SitesCovered
<1> QED
  BY <1>1, ReconcileInvariant, PTL

(* Running scan_crypto_ast.py again on code with the same call sites       *)
(* writes the components it loaded: reconciling is idempotent.             *)
THEOREM Idempotent == Spec => []RepeatChangesNothing
<1>1. ReconcileInv => RepeatChangesNothing
  BY DEF ReconcileInv, RunRepeats, RepeatChangesNothing
<1> QED
  BY <1>1, ReconcileInvariant, PTL

-----------------------------------------------------------------------------
(* The bills of materials of images, for any number of hosts and builds,   *)
(* any paths and any failures of the tools.                                *)
CONSTANTS Hosts, MaxImage, Paths, Absent, Empty, Part

VARIABLES tag, attached, dir, script, named

Bom == INSTANCE BomDistribution WITH pc <- script

(* A file that is not there is no document. *)
AbsentIsNothing == Absent \notin Bom!Docs \cup {Part}

(* A script has seen the image the tag names. *)
TagSeen == \A h \in Hosts : script[h] \notin Bom!Ended => tag \in named[h]

BomInv == Bom!TypeOK /\ TagSeen /\ Bom!FetchedIfCbomsOnly

CbomsOnly(h) == \A i \in named[h] : \A r \in attached[i] : r.slot = "cbom" /\ r.path = "here"

LEMMA BomInit == MaxImage >= 1 /\ MaxImage \in Nat /\ Bom!Init => BomInv
  BY DEF Bom!Init, BomInv, Bom!TypeOK, TagSeen, Bom!FetchedIfCbomsOnly, Bom!Images, Bom!Files, Bom!Ended

(* Attaching takes no referrer away, so what a host has fetched stays      *)
(* attached, and an image that has more than CBOMs goes on having it.      *)
LEMMA AttachKeeps ==
    ASSUME BomInv, NEW h \in Hosts, NEW at, NEW s \in Bom!Slots, NEW next \in {"attachSbom", "attached"},
           Bom!Attach(h, at, s, next), at \in {"attachCbom", "attachSbom"}
    PROVE  BomInv'
<1> USE DEF BomInv
<1>1. /\ script' \in [Hosts -> {"sbom", "oras", "regctl", "cdxgen", "attachCbom", "attachSbom"} \cup Bom!Ended]
      /\ \A g \in Hosts : g # h => script'[g] = script[g]
      /\ script[h] \notin Bom!Ended /\ script'[h] # "fetched"
      /\ UNCHANGED <<tag, dir, named>>
  BY DEF Bom!Attach, Bom!Goto, Bom!TypeOK, Bom!Ended
<1>2. attached' \in [Bom!Images -> SUBSET Bom!Referrers] /\ \A i \in Bom!Images : attached[i] \subseteq attached'[i]
  <2>1. CASE UNCHANGED attached
    BY <2>1 DEF Bom!TypeOK
  <2>2. ASSUME dir[h][s] \notin {Absent, Empty}, NEW p \in Paths,
               attached' = [attached EXCEPT ![tag] = @ \cup {[slot |-> s, path |-> p, doc |-> dir[h][s]]}]
        PROVE  <1>2!1 /\ <1>2!2
    <3>1. [slot |-> s, path |-> p, doc |-> dir[h][s]] \in Bom!Referrers
      BY <2>2 DEF Bom!TypeOK, Bom!Referrers, Bom!Files
    <3> QED
      BY <2>2, <3>1 DEF Bom!TypeOK
  <2> QED
    BY <2>1, <2>2 DEF Bom!Attach
<1>3. Bom!TypeOK' /\ TagSeen'
  BY <1>1, <1>2 DEF Bom!TypeOK, TagSeen
<1>4. Bom!FetchedIfCbomsOnly'
  <2> SUFFICES ASSUME NEW g \in Hosts, script'[g] = "fetched", CbomsOnly(g)'
               PROVE  Bom!HasAttachedCbom(g)'
    BY DEF Bom!FetchedIfCbomsOnly, CbomsOnly
  <2>1. script[g] = "fetched" /\ CbomsOnly(g)
    BY <1>1, <1>2 DEF CbomsOnly, Bom!TypeOK
  <2>2. Bom!HasAttachedCbom(g)
    BY <2>1 DEF Bom!FetchedIfCbomsOnly, CbomsOnly
  <2> QED
    BY <2>2, <1>1, <1>2 DEF Bom!HasAttachedCbom, Bom!AttachedCboms, Bom!TypeOK
<1> QED
  BY <1>3, <1>4

(* A fetch that succeeds has the CBOM it pulled. *)
LEMMA FetchKeeps ==
    ASSUME AbsentIsNothing, BomInv, NEW h \in Hosts, Bom!FetchViaOras(h) \/ Bom!FetchViaRegctl(h)
    PROVE  BomInv'
<1> USE DEF BomInv
<1>1. /\ UNCHANGED <<tag, attached, named>>
      /\ tag \in named[h]
      /\ \A g \in Hosts : g # h => script'[g] = script[g] /\ dir'[g] = dir[g]
  BY DEF Bom!FetchViaOras, Bom!FetchViaRegctl, Bom!Goto, Bom!Write, TagSeen, Bom!TypeOK, Bom!Ended
<1>2. dir' \in [Hosts -> [Bom!Slots -> Bom!Files]]
  <2>1. CASE UNCHANGED dir
    BY <2>1 DEF Bom!TypeOK
  <2>2. ASSUME NEW r \in attached[tag], Bom!Write(h, Bom!Accepted(Bom!Pulled(dir[h], r))) PROVE <1>2
    <3>1. r \in Bom!Referrers /\ r.slot \in Bom!Slots /\ r.doc \in Bom!Files
      BY <2>2 DEF Bom!TypeOK, Bom!Referrers, Bom!Files
    <3>2. Bom!Pulled(dir[h], r) \in [Bom!Slots -> Bom!Files]
      BY <3>1 DEF Bom!Pulled, Bom!TypeOK
    <3>3. Bom!Accepted(Bom!Pulled(dir[h], r)) \in [Bom!Slots -> Bom!Files]
      BY <3>2 DEF Bom!Accepted, Bom!Slots, Bom!Files
    <3> QED
      BY <2>2, <3>3 DEF Bom!Write, Bom!TypeOK
  <2>3. ASSUME NEW f \in Bom!Files, Bom!Write(h, [dir[h] EXCEPT !.cbom = f]) PROVE <1>2
    BY <2>3 DEF Bom!Write, Bom!TypeOK, Bom!Slots
  <2>4. \A r \in attached[tag] : r.doc \in Bom!Files
    BY DEF Bom!TypeOK, Bom!Referrers, Bom!Files
  <2> QED
    BY <2>1, <2>2, <2>3, <2>4 DEF Bom!FetchViaOras, Bom!FetchViaRegctl, Bom!Files
<1>3. Bom!TypeOK' /\ TagSeen'
  BY <1>1, <1>2 DEF Bom!FetchViaOras, Bom!FetchViaRegctl, Bom!Goto, Bom!TypeOK, TagSeen, Bom!Ended
<1>4. Bom!FetchedIfCbomsOnly'
  <2> SUFFICES ASSUME NEW g \in Hosts, script'[g] = "fetched", CbomsOnly(g)'
               PROVE  Bom!HasAttachedCbom(g)'
    BY DEF Bom!FetchedIfCbomsOnly, CbomsOnly
  <2>1. CASE g # h
    BY <2>1, <1>1 DEF Bom!FetchedIfCbomsOnly, CbomsOnly, Bom!HasAttachedCbom, Bom!AttachedCboms
  <2>2. CASE g = h
    <3>1. PICK r \in attached[tag] : \/ Bom!Write(h, Bom!Accepted(Bom!Pulled(dir[h], r)))
                                     \/ Bom!Write(h, [dir[h] EXCEPT !.cbom = r.doc])
      BY <2>2 DEF Bom!FetchViaOras, Bom!FetchViaRegctl, Bom!Goto, Bom!TypeOK
    <3>2. r.slot = "cbom" /\ r.path = "here" /\ r.doc # Absent
      BY <2>2, <1>1 DEF CbomsOnly, Bom!TypeOK, Bom!Referrers, AbsentIsNothing
    <3>3. Bom!Pulled(dir[h], r) = [dir[h] EXCEPT !.cbom = r.doc]
      BY <3>2 DEF Bom!Pulled
    <3>4. [dir[h] EXCEPT !.cbom = r.doc].cbom = r.doc
      BY DEF Bom!TypeOK, Bom!Slots
    <3>5. Bom!Accepted(Bom!Pulled(dir[h], r)).cbom = r.doc
      BY <3>2, <3>3, <3>4 DEF Bom!Accepted
    <3>6. dir'[h].cbom = r.doc
      BY <3>1, <3>4, <3>5 DEF Bom!Write, Bom!TypeOK
    <3> QED
      BY <2>2, <3>2, <3>6, <1>1 DEF Bom!HasAttachedCbom, Bom!AttachedCboms
  <2> QED
    BY <2>1, <2>2
<1> QED
  BY <1>3, <1>4

LEMMA BomNext ==
    ASSUME AbsentIsNothing, MaxImage \in Nat, BomInv, [Bom!Next]_(Bom!vars)
    PROVE  BomInv'
<1> USE DEF BomInv
<1>1. ASSUME Bom!Build PROVE BomInv'
  <2>1. /\ tag' \in Bom!Images
        /\ named' = [h \in Hosts |-> IF script[h] \in Bom!Ended THEN named[h] ELSE named[h] \cup {tag'}]
        /\ UNCHANGED <<attached, dir, script>>
    BY <1>1 DEF Bom!Build, Bom!TypeOK, Bom!Images
  <2>2. \A h \in Hosts : script[h] = "fetched" => named'[h] = named[h]
    BY <2>1 DEF Bom!Ended
  <2>3. Bom!TypeOK' /\ TagSeen'
    BY <2>1 DEF Bom!TypeOK, TagSeen
  <2>4. Bom!FetchedIfCbomsOnly'
    BY <2>1, <2>2 DEF Bom!FetchedIfCbomsOnly, Bom!HasAttachedCbom, Bom!AttachedCboms
  <2> QED
    BY <2>3, <2>4 DEF BomInv
<1>2. ASSUME NEW h \in Hosts, Bom!StartScript(h) PROVE BomInv'
  BY <1>2 DEF Bom!StartScript, Bom!Goto, Bom!TypeOK, TagSeen, Bom!FetchedIfCbomsOnly, Bom!HasAttachedCbom, Bom!AttachedCboms, Bom!Ended
<1>3. ASSUME NEW h \in Hosts, Bom!MakeSbom(h) \/ Bom!MakeCbom(h) PROVE BomInv'
  <2>1. /\ script' \in [Hosts -> {"sbom", "oras", "regctl", "cdxgen", "attachCbom", "attachSbom"} \cup Bom!Ended]
        /\ UNCHANGED <<tag, attached, named>>
        /\ \A g \in Hosts : g # h => script'[g] = script[g] /\ dir'[g] = dir[g]
        /\ script[h] \notin Bom!Ended /\ script'[h] # "fetched"
    BY <1>3 DEF Bom!MakeSbom, Bom!MakeCbom, Bom!Goto, Bom!Write, Bom!TypeOK, Bom!Ended
  <2>2. dir' \in [Hosts -> [Bom!Slots -> Bom!Files]]
    <3>1. ASSUME NEW f \in Bom!Files, NEW s \in Bom!Slots, Bom!Write(h, [dir[h] EXCEPT ![s] = f]) PROVE <2>2
      BY <3>1 DEF Bom!Write, Bom!TypeOK
    <3>2. /\ \A s \in Bom!Slots : [kind |-> s, image |-> tag] \in Bom!Files /\ dir[h][s] \in Bom!Files
          /\ Empty \in Bom!Files /\ Part \in Bom!Files
      BY DEF Bom!TypeOK, Bom!Files, Bom!Docs
    <3>3. CASE UNCHANGED dir
      BY <3>3 DEF Bom!TypeOK
    <3> QED
      BY <1>3, <3>1, <3>2, <3>3 DEF Bom!MakeSbom, Bom!MakeCbom, Bom!Slots
  <2>3. Bom!TypeOK' /\ TagSeen'
    BY <2>1, <2>2 DEF Bom!TypeOK, TagSeen
  <2>4. Bom!FetchedIfCbomsOnly'
    BY <2>1 DEF Bom!FetchedIfCbomsOnly, Bom!HasAttachedCbom, Bom!AttachedCboms
  <2> QED
    BY <2>3, <2>4
<1>4. ASSUME NEW h \in Hosts, Bom!AttachCbom(h) \/ Bom!AttachSbom(h) PROVE BomInv'
  BY <1>4, AttachKeeps DEF Bom!AttachCbom, Bom!AttachSbom, Bom!Slots
<1>5. ASSUME UNCHANGED Bom!vars PROVE BomInv'
  BY <1>5 DEF Bom!vars, Bom!TypeOK, TagSeen, Bom!FetchedIfCbomsOnly, Bom!HasAttachedCbom, Bom!AttachedCboms
<1> QED
  BY <1>1, <1>2, <1>3, <1>4, <1>5, FetchKeeps DEF Bom!Next, Bom!Fetch

LEMMA BomInvariance ==
    ASSUME AbsentIsNothing, MaxImage \in Nat, MaxImage >= 1
    PROVE  Bom!Spec => []BomInv
<1>1. Bom!Init => BomInv
  BY BomInit
<1>2. BomInv /\ [Bom!Next]_(Bom!vars) => BomInv'
  BY BomNext
<1> QED
  BY <1>1, <1>2, PTL DEF Bom!Spec

(* The types hold in every reachable state: whatever tools fail, a         *)
(* directory has documents, cut off files and empty ones, and only what is *)
(* not empty is attached.                                                  *)
THEOREM BomTypeCorrect ==
    ASSUME AbsentIsNothing, MaxImage \in Nat, MaxImage >= 1
    PROVE  Bom!Spec => []Bom!TypeOK
<1>1. BomInv => Bom!TypeOK
  BY DEF BomInv
<1> QED
  BY BomInvariance, <1>1, PTL

(* The CBOM a successful fetch leaves is one attached to an image the tag  *)
(* named, if only CBOMs were attached, from within their directory:        *)
(* whatever was left in the directory, however often the tag moved and     *)
(* whichever tools failed.                                                 *)
THEOREM FetchSound ==
    ASSUME AbsentIsNothing, MaxImage \in Nat, MaxImage >= 1
    PROVE  Bom!Spec => []Bom!FetchedIfCbomsOnly
<1>1. BomInv => Bom!FetchedIfCbomsOnly
  BY DEF BomInv
<1> QED
  BY BomInvariance, <1>1, PTL
=============================================================================
