-------------------------- MODULE BomDistribution ---------------------------
(***************************************************************************)
(* Bills of materials of container images: generate_boms.sh makes an SBOM  *)
(* and then fetches a CBOM attached to the image (fetch_oci_cbom.py) or    *)
(* generates one; attach_oci_bom.sh attaches what is in the directory.     *)
(* Hosts run the scripts by hand, each in its own directory, while the tag *)
(* they name moves from build to build.                                    *)
(*                                                                         *)
(* The registry, ORAS, regctl, syft and cdxgen are external: a call of any *)
(* of them may fail, or the tool be missing.  ORAS writes an attached file *)
(* under the path it was attached by, below the directory it is told to    *)
(* use; the registry lists referrers in any order.                         *)
(***************************************************************************)
EXTENDS Naturals

CONSTANTS
    Hosts,
    MaxImage,   \* bound: builds
    Paths,      \* how a file is named when it is attached: "here", or "below"
                \* as oss/cbom.json of the usage example is
    Absent,     \* no such file
    Empty,      \* a file of no bytes
    Part        \* a file cut off

Images == 1..MaxImage
Slots  == {"cbom", "sbom"}                        \* cbom.json, sbom.*.json
Docs   == [kind : Slots, image : Images]
Files  == Docs \cup {Absent, Empty, Part}
Referrers == [slot : Slots, path : Paths, doc : Docs \cup {Part}]

VARIABLES
    tag,       \* the image the tag names
    attached,  \* image -> its referrers
    dir,       \* host -> the files of its directory
    pc,        \* host -> where its script is, or how the last one ended
    named      \* history: host -> images the tag named while the script ran

vars == <<tag, attached, dir, pc, named>>

Ended == {"fetched", "generated", "attached", "failed"}

TypeOK ==
    /\ tag \in Images
    /\ attached \in [Images -> SUBSET Referrers]
    /\ dir \in [Hosts -> [Slots -> Files]]
    /\ pc \in [Hosts -> {"sbom", "oras", "regctl", "cdxgen", "attachCbom", "attachSbom"} \cup Ended]
    /\ named \in [Hosts -> SUBSET Images]

Init ==
    /\ tag = 1
    /\ attached = [i \in Images |-> {}]
    /\ dir = [h \in Hosts |-> [s \in Slots |-> Absent]]
    /\ pc = [h \in Hosts |-> "failed"]
    /\ named = [h \in Hosts |-> {}]

Goto(h, l)   == pc' = [pc EXCEPT ![h] = l]
Write(h, fs) == dir' = [dir EXCEPT ![h] = fs]

(* A build is pushed under the tag. *)
Build ==
    /\ tag < MaxImage
    /\ tag' = tag + 1
    /\ named' = [h \in Hosts |-> IF pc[h] \in Ended THEN named[h] ELSE named[h] \cup {tag'}]
    /\ UNCHANGED <<attached, dir, pc>>

StartScript(h) ==
    /\ pc[h] \in Ended
    /\ \E first \in {"sbom", "attachCbom"} : Goto(h, first)
    /\ named' = [named EXCEPT ![h] = {tag}]
    /\ UNCHANGED <<tag, attached, dir>>

-----------------------------------------------------------------------------
(* generate_boms.sh for a container image *)

(* syft writes through a redirection, which empties the file first.        *)
MakeSbom(h) ==
    /\ pc[h] = "sbom"
    /\ \/ /\ Write(h, [dir[h] EXCEPT !.sbom = [kind |-> "sbom", image |-> tag]])
          /\ Goto(h, "oras")
       \/ /\ \E f \in {dir[h].sbom, Empty, Part} : Write(h, [dir[h] EXCEPT !.sbom = f])
          /\ Goto(h, "failed")
    /\ UNCHANGED <<tag, attached, named>>

Pulled(fs, r) == IF r.path = "here" THEN [fs EXCEPT ![r.slot] = r.doc] ELSE fs

(* cbom.json if there is one after the pull, otherwise any other JSON file *)
(* of the directory, which is renamed to it.                               *)
Accepted(fs) == IF fs.cbom = Absent THEN [cbom |-> fs.sbom, sbom |-> Absent] ELSE fs

(* try_fetch_via_oras: the first referrer listed; all have one type.       *)
FetchViaOras(h) ==
    /\ pc[h] = "oras"
    /\ \/ /\ Goto(h, "regctl")
          /\ UNCHANGED dir
       \/ \E r \in attached[tag] :
            /\ Write(h, Accepted(Pulled(dir[h], r)))
            /\ Goto(h, IF dir'[h].cbom = Absent THEN "regctl" ELSE "fetched")
    /\ UNCHANGED <<tag, attached, named>>

(* try_fetch_via_regctl: each referrer in turn, with cbom.json opened for  *)
(* writing before it is known whether it can be had.                       *)
FetchViaRegctl(h) ==
    /\ pc[h] = "regctl"
    /\ \/ /\ Goto(h, "cdxgen")
          /\ UNCHANGED dir
       \/ \E r \in attached[tag] :
            \/ /\ Write(h, [dir[h] EXCEPT !.cbom = r.doc])
               /\ Goto(h, "fetched")
            \/ /\ \E f \in {Empty, Part} : Write(h, [dir[h] EXCEPT !.cbom = f])
               /\ Goto(h, "cdxgen")
    /\ UNCHANGED <<tag, attached, named>>

(* main of fetch_oci_cbom.py tries one after the other. *)
Fetch(h) == FetchViaOras(h) \/ FetchViaRegctl(h)

MakeCbom(h) ==
    /\ pc[h] = "cdxgen"
    /\ \/ /\ Write(h, [dir[h] EXCEPT !.cbom = [kind |-> "cbom", image |-> tag]])
          /\ Goto(h, "generated")
       \/ /\ Goto(h, "failed")
          /\ UNCHANGED dir
    /\ UNCHANGED <<tag, attached, named>>

-----------------------------------------------------------------------------
(* attach_oci_bom.sh: the CBOM, then the SBOM, each if there is one; a     *)
(* call that fails ends the script.                                        *)
Attach(h, at, s, next) ==
    /\ pc[h] = at
    /\ IF dir[h][s] \in {Absent, Empty}
       THEN Goto(h, next) /\ UNCHANGED attached
       ELSE \/ /\ \E p \in Paths :
                    attached' = [attached EXCEPT ![tag] = @ \cup
                                   {[slot |-> s, path |-> p, doc |-> dir[h][s]]}]
               /\ Goto(h, next)
            \/ Goto(h, "failed") /\ UNCHANGED attached
    /\ UNCHANGED <<tag, dir, named>>

AttachCbom(h) == Attach(h, "attachCbom", "cbom", "attachSbom")
AttachSbom(h) == Attach(h, "attachSbom", "sbom", "attached")

Next == \/ Build
        \/ \E h \in Hosts : \/ StartScript(h)
                            \/ MakeSbom(h) \/ Fetch(h) \/ MakeCbom(h)
                            \/ AttachCbom(h) \/ AttachSbom(h)

Spec == Init /\ [][Next]_vars

-----------------------------------------------------------------------------
AttachedCboms(h) == {r \in UNION {attached[i] : i \in named[h]} : r.slot = "cbom"}

HasAttachedCbom(h) == \E r \in AttachedCboms(h) : dir[h].cbom = r.doc

(* generate_boms.sh reports "Discovered and retrieved pre-attached         *)
(* upstream CBOM" (line 167) of a CBOM that was attached to an image the   *)
(* tag named, at least where there is one.                                 *)
FetchedIsAttachedCbom ==
    \A h \in Hosts : pc[h] = "fetched" /\ AttachedCboms(h) # {} => HasAttachedCbom(h)

(* The same for images to which nothing but CBOMs was attached, and those  *)
(* from within their directory: then a fetch takes what is attached,       *)
(* whatever earlier runs have left and whichever tools fail on the way.    *)
FetchedIfCbomsOnly ==
    \A h \in Hosts :
        /\ pc[h] = "fetched"
        /\ \A i \in named[h] : \A r \in attached[i] : r.slot = "cbom" /\ r.path = "here"
        => HasAttachedCbom(h)
=============================================================================
